-------------------------- MODULE JoinerTradeProofs --------------------------
(***************************************************************************)
(* The two commits of a trade that the joiner follows are one exchange of  *)
(* two Pokemon, for any two parties, any number of trades, and however the *)
(* clocks of the two ends run; and the joiner's count of barriers is never *)
(* ahead.  A session goes through stages: in each of them at most one word *)
(* of the console and one move of the joiner are under way, wherever they  *)
(* wait, and the stage says which.                                         *)
(***************************************************************************)
EXTENDS JoinerTrade, TLAPS, SequenceTheorems

-----------------------------------------------------------------------------
(* What travels.                                                           *)

Mon         == {LeaderMons[i] : i \in DOMAIN LeaderMons} \cup {JoinerMons[i] : i \in DOMAIN JoinerMons}
LeaderParty == [DOMAIN LeaderMons -> Mon]
JoinerParty == [DOMAIN JoinerMons -> Mon]

\* The console's words: of a trade, its party, the other blocks and what asks for a party.
SwapWord ==
    {Select("SET_MONS_TO_TRADE", s) : s \in DOMAIN LeaderMons}
        \cup {Block("START_TRADE"), Block("CONFIRM_FINISH_TRADE")}
CancelWord == {Block("BOTH_CANCEL_TRADE"), Block("PARTNER_CANCEL_TRADE"), Block("PLAYER_CANCEL_TRADE")}
TradeWord  == SwapWord \cup CancelWord
TheirParty == {Mons(p) : p \in LeaderParty}
Ribbons    == {Block("ribbons")}
Pull       == {Req("200")}
Keys       == {Key("EMPTY"), Key("READY"), Key("EXIT")}
Standbys   == {Standby(n) : n \in Nat}
PlainWord ==
    {Block("link_player"), Block("card"), Req("card"), Req("ribbons"), Close, Disconnect, Idle, Busy}
        \cup Keys
SpokenWord == TradeWord \cup TheirParty \cup Ribbons \cup Pull \cup PlainWord
LeaderWord == SpokenWord \cup Standbys

\* The joiner's slots: its moves in a trade, its party and the rest.
Move ==
    {Select("READY_TO_TRADE", s) : s \in DOMAIN JoinerMons}
        \cup {Block("REQUEST_CANCEL"), Block("INIT_BLOCK"), Block("READY_CANCEL_TRADE"),
              Block("READY_FINISH_TRADE")}
OurParty   == {Mons(p) : p \in JoinerParty}
PlainBlock == {Block("link_player"), Block("card"), Block("ribbons"), Block("zero")}
JoinerBlock == Move \cup OurParty \cup PlainBlock
PlainSlot  == PlainBlock \cup {Close, Idle, Busy} \cup Keys \cup Standbys
Slot       == Move \cup OurParty \cup PlainSlot

FrameSet   == [own : LeaderWord, echo : Slot]

-----------------------------------------------------------------------------
(* Sequences.                                                              *)

\* No word of W is in s; at most one is.
Free(s, W)   == \A i \in 1 .. Len(s) : s[i] \notin W
Single(s, W) == \A i, k \in 1 .. Len(s) : s[i] \in W /\ s[k] \in W => i = k

LEMMA TailIs ==
    ASSUME NEW S, NEW s \in Seq(S), s # << >>
    PROVE  /\ Head(s) = s[1] /\ Head(s) \in S /\ Len(s) \in Nat \ {0}
           /\ Tail(s) \in Seq(S) /\ Len(Tail(s)) = Len(s) - 1
           /\ \A n \in 1 .. Len(s) - 1 : n + 1 \in 1 .. Len(s) /\ Tail(s)[n] = s[n + 1]
BY HeadTailProperties, EmptySeq, LenProperties

LEMMA AppendIs ==
    ASSUME NEW S, NEW s \in Seq(S), NEW e \in S
    PROVE  /\ Append(s, e) \in Seq(S) /\ Len(s) \in Nat /\ Len(Append(s, e)) = Len(s) + 1
           /\ \A n \in 1 .. Len(s) : Append(s, e)[n] = s[n]
           /\ Append(s, e)[Len(s) + 1] = e
BY AppendProperties, LenProperties

LEMMA ShortSeqs ==
    /\ \A S : << >> \in Seq(S)
    /\ \A S : \A e \in S : <<e>> \in Seq(S)
    /\ \A W : Free(<< >>, W) /\ Single(<< >>, W)
    /\ \A e, W : Single(<<e>>, W) /\ (Free(<<e>>, W) <=> e \notin W)
    /\ \A e : <<e>> # << >> /\ Head(<<e>>) = e
BY DEF Free, Single

LEMMA FreeIsSingle == \A s, W : Free(s, W) => Single(s, W)
BY DEF Free, Single

LEMMA FreeWithin == \A s, V, W : V \subseteq W => (Free(s, W) => Free(s, V)) /\ (Single(s, W) => Single(s, V))
BY DEF Free, Single

LEMMA FreeTail ==
    ASSUME NEW S, NEW s \in Seq(S), s # << >>, NEW W
    PROVE  /\ Free(s, W) => Free(Tail(s), W) /\ Head(s) \notin W
           /\ Single(s, W) => Single(Tail(s), W)
           /\ Single(s, W) /\ Head(s) \in W => Free(Tail(s), W)
<1> DEFINE L == Len(s)
<1>1. /\ Head(s) = s[1] /\ L \in Nat \ {0} /\ Len(Tail(s)) = L - 1
      /\ \A n \in 1 .. L - 1 : n + 1 \in 1 .. L /\ Tail(s)[n] = s[n + 1]
  BY TailIs
<1>2. 1 \in 1 .. L /\ \A n \in 1 .. L - 1 : n + 1 # 1
  BY <1>1
<1> HIDE DEF L
<1>3. Free(s, W) => Free(Tail(s), W) /\ Head(s) \notin W
  BY <1>1, <1>2 DEF Free, L
<1>4. Single(s, W) => Single(Tail(s), W)
  <2> SUFFICES ASSUME Single(s, W), NEW i \in 1 .. L - 1, NEW k \in 1 .. L - 1,
                      Tail(s)[i] \in W, Tail(s)[k] \in W
               PROVE  i = k
    BY <1>1 DEF Single
  <2>1. i + 1 = k + 1
    BY <1>1 DEF Single, L
  <2> QED
    BY <2>1
<1>5. Single(s, W) /\ Head(s) \in W => Free(Tail(s), W)
  BY <1>1, <1>2 DEF Single, Free, L
<1> QED
  BY <1>3, <1>4, <1>5

LEMMA FreeAppend ==
    ASSUME NEW S, NEW s \in Seq(S), NEW e \in S, NEW W
    PROVE  /\ Free(s, W) /\ e \notin W => Free(Append(s, e), W)
           /\ Single(s, W) /\ e \notin W => Single(Append(s, e), W)
           /\ Free(s, W) => Single(Append(s, e), W)
           /\ Free(Append(s, e), W) => Free(s, W)
           /\ Single(Append(s, e), W) => Single(s, W)
<1> DEFINE L == Len(s)
<1>1. /\ L \in Nat /\ Len(Append(s, e)) = L + 1 /\ Append(s, e)[L + 1] = e
      /\ \A n \in 1 .. L : Append(s, e)[n] = s[n]
  BY AppendIs
<1>2. \A n \in 1 .. L + 1 : n \in 1 .. L \/ n = L + 1
  BY <1>1
<1>3. \A n \in 1 .. L : n \in 1 .. L + 1
  BY <1>1
<1> HIDE DEF L
<1>4. Free(s, W) /\ e \notin W => Free(Append(s, e), W)
  BY <1>1, <1>2 DEF Free, L
<1>5. Single(s, W) /\ e \notin W => Single(Append(s, e), W)
  BY <1>1, <1>2 DEF Single, L
<1>6. Free(s, W) => Single(Append(s, e), W)
  BY <1>1, <1>2 DEF Free, Single, L
<1>7. (Free(Append(s, e), W) => Free(s, W)) /\ (Single(Append(s, e), W) => Single(s, W))
  BY <1>1, <1>3 DEF Free, Single, L
<1> QED
  BY <1>4, <1>5, <1>6, <1>7

-----------------------------------------------------------------------------
(* A block waits in c, is being sent in b, and is on its way in a.         *)

NoneIn(a, b, c, W) == Free(a, W) /\ Free(b, W) /\ Free(c, W)
OneIn(a, b, c, W) ==
    /\ Single(a, W) /\ Single(b, W) /\ Single(c, W)
    /\ \/ Free(a, W) /\ Free(b, W)
       \/ Free(a, W) /\ Free(c, W)
       \/ Free(b, W) /\ Free(c, W)

LEMMA NoneIsOne == \A a, b, c, W : NoneIn(a, b, c, W) => OneIn(a, b, c, W)
BY FreeIsSingle DEF NoneIn, OneIn

LEMMA PipeWithin ==
    \A a, b, c, V, W : V \subseteq W => /\ NoneIn(a, b, c, W) => NoneIn(a, b, c, V)
                                        /\ OneIn(a, b, c, W) => OneIn(a, b, c, V)
<1> SUFFICES ASSUME NEW a, NEW b, NEW c, NEW V, NEW W, V \subseteq W
             PROVE  /\ NoneIn(a, b, c, W) => NoneIn(a, b, c, V)
                    /\ OneIn(a, b, c, W) => OneIn(a, b, c, V)
  OBVIOUS
<1>1. \A s : (Free(s, W) => Free(s, V)) /\ (Single(s, W) => Single(s, V))
  BY FreeWithin
<1> QED
  BY <1>1 DEF NoneIn, OneIn

\* The first has landed.
LEMMA PipeTail ==
    ASSUME NEW S, NEW a \in Seq(S), a # << >>, NEW b, NEW c, NEW W
    PROVE  /\ NoneIn(a, b, c, W) => NoneIn(Tail(a), b, c, W) /\ Head(a) \notin W
           /\ OneIn(a, b, c, W) => OneIn(Tail(a), b, c, W)
           /\ OneIn(a, b, c, W) /\ Head(a) \in W => NoneIn(Tail(a), b, c, W)
<1>1. /\ Free(a, W) => Free(Tail(a), W) /\ Head(a) \notin W
      /\ Single(a, W) => Single(Tail(a), W)
      /\ Single(a, W) /\ Head(a) \in W => Free(Tail(a), W)
  BY FreeTail
<1> QED
  BY <1>1 DEF NoneIn, OneIn

\* Another one of no concern is on its way, or was.
LEMMA PipeAdd ==
    ASSUME NEW S, NEW a \in Seq(S), NEW e \in S, NEW b, NEW c, NEW W
    PROVE  /\ e \notin W /\ NoneIn(a, b, c, W) => NoneIn(Append(a, e), b, c, W)
           /\ e \notin W /\ OneIn(a, b, c, W) => OneIn(Append(a, e), b, c, W)
           /\ NoneIn(Append(a, e), b, c, W) => NoneIn(a, b, c, W)
           /\ OneIn(Append(a, e), b, c, W) => OneIn(a, b, c, W)
<1>1. /\ Free(a, W) /\ e \notin W => Free(Append(a, e), W)
      /\ Single(a, W) /\ e \notin W => Single(Append(a, e), W)
      /\ Free(Append(a, e), W) => Free(a, W)
      /\ Single(Append(a, e), W) => Single(a, W)
  BY FreeAppend
<1> QED
  BY <1>1 DEF NoneIn, OneIn

\* One more waits.
LEMMA PipeQueue ==
    ASSUME NEW S, NEW b \in Seq(S), NEW e \in S, NEW a, NEW c, NEW W
    PROVE  /\ NoneIn(a, b, c, W) => OneIn(a, Append(b, e), c, W)
           /\ e \notin W /\ NoneIn(a, b, c, W) => NoneIn(a, Append(b, e), c, W)
           /\ e \notin W /\ OneIn(a, b, c, W) => OneIn(a, Append(b, e), c, W)
<1>1. /\ Free(b, W) /\ e \notin W => Free(Append(b, e), W)
      /\ Single(b, W) /\ e \notin W => Single(Append(b, e), W)
      /\ Free(b, W) => Single(Append(b, e), W)
  BY FreeAppend
<1> QED
  BY <1>1, FreeIsSingle DEF NoneIn, OneIn

\* What was being sent is on its way.
LEMMA PipeSend ==
    ASSUME NEW S, NEW a \in Seq(S), NEW b \in Seq(S), b # << >>, NEW c, NEW W
    PROVE  /\ NoneIn(a, b, c, W) => NoneIn(Append(a, Head(b)), Tail(b), c, W)
           /\ OneIn(a, b, c, W) => OneIn(Append(a, Head(b)), Tail(b), c, W)
<1>1. Head(b) \in S
  BY TailIs
<1>2. /\ Free(a, W) /\ Head(b) \notin W => Free(Append(a, Head(b)), W)
      /\ Single(a, W) /\ Head(b) \notin W => Single(Append(a, Head(b)), W)
      /\ Free(a, W) => Single(Append(a, Head(b)), W)
  BY <1>1, FreeAppend
<1>3. /\ Free(b, W) => Free(Tail(b), W) /\ Head(b) \notin W
      /\ Single(b, W) => Single(Tail(b), W)
      /\ Single(b, W) /\ Head(b) \in W => Free(Tail(b), W)
  BY FreeTail
<1> QED
  BY <1>2, <1>3, FreeIsSingle DEF NoneIn, OneIn

\* What waited is being sent.
LEMMA PipeStart ==
    ASSUME NEW a, NEW e, NEW W
    PROVE  /\ NoneIn(a, << >>, <<e>>, W) => NoneIn(a, <<e>>, << >>, W)
           /\ OneIn(a, << >>, <<e>>, W) => OneIn(a, <<e>>, << >>, W)
BY ShortSeqs DEF NoneIn, OneIn

-----------------------------------------------------------------------------
(* The stages of a trade, over the joiner, the console and the two links.  *)

\* What the frames on their way say.
owns(d) == [i \in 1 .. Len(d) |-> d[i].own]

NoneDown(l, d, W) == NoneIn(owns(d), l.out, << >>, W)
OneDown(l, d, W)  == OneIn(owns(d), l.out, << >>, W)

\* The block that is still to go out.
pend(j) == IF sending(j) /\ j.sender.left > 0 THEN <<j.sender.block>> ELSE << >>

NoneUp(j, u, W) == NoneIn(u, pend(j), j.push, W)
OneUp(j, u, W)  == OneIn(u, pend(j), j.push, W)

\* At most one word of a trade is on its way down, and it is in A; so for up.
Down(l, d, A) == OneDown(l, d, TradeWord) /\ NoneDown(l, d, TradeWord \ A)
Up(j, u, A)   == OneUp(j, u, Move) /\ NoneUp(j, u, Move \ A)

\* The party of the joiner is the one it has, and that of the console likewise.
NoPull(l, d)   == NoneDown(l, d, Pull)
OnePull(l, d)  == OneDown(l, d, Pull)
NoParty(j, u)  == NoneUp(j, u, OurParty)
OneParty(j, u) == OneUp(j, u, OurParty) /\ NoneUp(j, u, OurParty \ {Mons(j.party)})
NoView(l, d)   == NoneDown(l, d, TheirParty)
OneView(l, d)  == OneDown(l, d, TheirParty) /\ NoneDown(l, d, TheirParty \ {Mons(l.party)})

Before  == {"link", "warp0", "card", "warp1", "room", "seat", "seated", "saving", "party"}
Lent    == {"partied", "ribbons"}
InTrade == {"seam", "anim"}
Away    == {"left", "field", "exiting", "closing", "gone"}

SameRound(j, l) == l.round = j.round

\* The request for a party and the party: at most one of them is under way.
Asked(j, l, d, u) ==
    \/ l.at \notin {"link", "party"} /\ NoPull(l, d) /\ NoParty(j, u)
    \/ l.at = "link" /\ j.lp_sent /\ NoPull(l, d) /\ NoParty(j, u)
    \/ /\ l.at = "link" /\ ~j.lp_sent /\ OnePull(l, d) /\ NoParty(j, u)
       /\ NoneUp(j, u, {Block("link_player")})
    \/ l.at = "party" /\ OnePull(l, d) /\ NoParty(j, u)
    \/ l.at = "party" /\ NoPull(l, d) /\ OneParty(j, u)

\* Each end has seen the party of the other, or will.
Shown(j, l, d) ==
    \/ l.at \in Before /\ j.host_party = << >> /\ NoView(l, d)
    \/ l.at \notin Before /\ l.view = j.party /\ j.host_party = << >> /\ OneView(l, d)
    \/ l.at \notin Before /\ l.view = j.party /\ j.host_party = l.party /\ NoView(l, d)

\* No countdown of the joiner runs that ends with a move.
Still(j) == ~j.anim /\ ~j.cancel_wait

\* Not yet at the menu, before the first trade or after one.
Apart(j, l, d, u) ==
    /\ l.at \in Before \cup Lent /\ SameRound(j, l) /\ Asked(j, l, d, u) /\ Shown(j, l, d)
    /\ ~j.ribbons /\ NoneDown(l, d, Ribbons)
    /\ Still(j) /\ ~j.cancelled
    /\ Down(l, d, {}) /\ Up(j, u, {})

\* What a joiner that offers a Pokemon knows.
Promised(j, l) ==
    /\ j.round < Trades /\ j.selected /\ j.lp_sent /\ j.party_sent >= 1 /\ j.ribbons
    /\ j.host_party = l.party /\ l.view = j.party

offer(j) == Select("READY_TO_TRADE", Offered[j.round + 1])

\* The joiner's move, the answer of the console and nothing: one of them is under way.
AtMenu(j, l, d, u) ==
    \/ l.reply = "none" /\ Down(l, d, {}) /\ Up(j, u, {}) /\ ~j.cancelled
    \/ l.reply = "none" /\ Down(l, d, {}) /\ Up(j, u, {Block("REQUEST_CANCEL")}) /\ j.selected
    \/ /\ l.reply = "none" /\ Down(l, d, {}) /\ Up(j, u, {offer(j)}) /\ ~j.cancelled
       /\ Promised(j, l)
    \/ l.reply = "cancel" /\ Down(l, d, {}) /\ Up(j, u, {}) /\ j.selected
    \/ /\ l.reply = "trade" /\ Down(l, d, {}) /\ Up(j, u, {}) /\ ~j.cancelled
       /\ Promised(j, l) /\ l.theirs = Offered[j.round + 1]
    \/ /\ l.reply = "none" /\ Up(j, u, {}) /\ j.selected
       /\ Down(l, d, {Block("PARTNER_CANCEL_TRADE"), Block("PLAYER_CANCEL_TRADE")})

Choosing(j, l, d, u) ==
    /\ l.at = "menu" /\ SameRound(j, l) /\ NoPull(l, d) /\ NoParty(j, u) /\ Shown(j, l, d)
    /\ OneDown(l, d, Ribbons) /\ (j.ribbons => NoneDown(l, d, Ribbons))
    /\ Still(j) /\ l.choice \in {"none", "trade", "cancel"}
    /\ l.choice = "trade" /\ l.round # Trades => l.mine \in DOMAIN LeaderMons
    /\ AtMenu(j, l, d, u)

\* The joiner knows the Pokemon of the console, and answers.
Answering(j, l, d, u) ==
    \/ /\ l.reply = "none" /\ Down(l, d, {Select("SET_MONS_TO_TRADE", l.mine)}) /\ Up(j, u, {})
       /\ ~j.cancel_wait /\ ~j.cancelled
    \/ l.reply = "none" /\ Down(l, d, {}) /\ Up(j, u, {}) /\ j.host_cursor = l.mine
    \/ /\ l.reply = "none" /\ Down(l, d, {}) /\ Up(j, u, {Block("INIT_BLOCK")})
       /\ j.host_cursor = l.mine /\ ~j.cancel_wait /\ ~j.cancelled
    \/ l.reply = "none" /\ Down(l, d, {}) /\ Up(j, u, {Block("READY_CANCEL_TRADE")}) /\ ~j.cancel_wait
    \/ /\ l.reply = "yes" /\ Down(l, d, {}) /\ Up(j, u, {})
       /\ j.host_cursor = l.mine /\ ~j.cancel_wait /\ ~j.cancelled
    \/ l.reply = "no" /\ Down(l, d, {}) /\ Up(j, u, {}) /\ ~j.cancel_wait

\* START_TRADE, the animation, READY_FINISH_TRADE, one after the other.
Watching(j, l, d, u) ==
    \/ Down(l, d, {Block("START_TRADE")}) /\ Up(j, u, {}) /\ ~j.anim /\ ~l.finish
    \/ Down(l, d, {}) /\ Up(j, u, {}) /\ j.anim /\ ~l.finish
    \/ /\ Down(l, d, {}) /\ Up(j, u, {Block("READY_FINISH_TRADE")}) /\ ~j.anim /\ ~l.finish
       /\ j.finish_sent
    \/ Down(l, d, {}) /\ Up(j, u, {}) /\ ~j.anim /\ j.finish_sent

\* Both ends mean the same two Pokemon.
Agreed(j, l, d, u) ==
    /\ SameRound(j, l) /\ Promised(j, l)
    /\ NoPull(l, d) /\ NoParty(j, u) /\ NoView(l, d) /\ NoneDown(l, d, Ribbons)
    /\ l.theirs = Offered[j.round + 1] /\ l.mine \in DOMAIN LeaderMons
    /\ \/ l.at = "prompt" /\ ~j.anim /\ Answering(j, l, d, u)
       \/ /\ l.at \in InTrade /\ j.host_cursor = l.mine /\ ~j.cancel_wait /\ ~j.cancelled
          /\ Watching(j, l, d, u)

\* The console has committed, the joiner has not.
Owing(j, l, d, u) ==
    /\ l.at \in {"saving", "party"} /\ l.round = j.round + 1 /\ j.round < Trades
    /\ OnePull(l, d) /\ (l.at = "saving" => NoPull(l, d))
    /\ NoParty(j, u) /\ NoView(l, d) /\ NoneDown(l, d, Ribbons)
    /\ Still(j) /\ ~j.cancelled /\ j.selected /\ j.finish_sent /\ j.lp_sent /\ j.party_sent >= 1
    /\ j.host_cursor \in DOMAIN LeaderMons /\ j.host_party \in LeaderParty
    /\ Down(l, d, {Block("CONFIRM_FINISH_TRADE")}) /\ Up(j, u, {})

\* No trade any more.
Leaving(j, l, d, u) ==
    l.at \in Away /\ SameRound(j, l) /\ NoneDown(l, d, {Block("CONFIRM_FINISH_TRADE")})

Stage(j, l, d, u) ==
    \/ Apart(j, l, d, u) \/ Choosing(j, l, d, u) \/ Agreed(j, l, d, u)
    \/ Owing(j, l, d, u) \/ Leaving(j, l, d, u)

-----------------------------------------------------------------------------
(* The invariant.                                                          *)

JoinerFields ==
    {"state", "bar", "sender", "mirrored", "lp_sent", "host_lp", "card_supplied", "in_seat",
     "host_ready", "seat_over", "seated", "post_wait", "ready_echo", "standby_echo", "warp",
     "walking", "route", "exit_key", "responded_exit", "host_exiting", "party", "party_sent",
     "host_party", "ribbons", "selected", "reselect", "push", "anim", "finish_sent",
     "pending_confirm", "confirmed", "cancel_wait", "cancel_after_send", "host_cursor", "round",
     "leaving", "requested_cancel", "cancelled", "seam", "save", "cancel_barrier",
     "return_barrier", "post_cancel", "done", "gone"}
LeaderFields ==
    {"at", "out", "left", "count", "todo", "ready", "repeat", "echo", "quiet", "write", "party",
     "view", "mine", "theirs", "choice", "reply", "finish", "round", "extra"}
BarFields == {"mode", "initiated", "host_count", "local", "silent", "burst_for", "burst"}

\* A joiner that does not leave has a Pokemon to offer.
IsJoiner(j) ==
    /\ DOMAIN j = JoinerFields
    /\ j.party \in JoinerParty /\ j.round \in Nat /\ j.party_sent \in Nat
    /\ j.round < Trades \/ j.leaving
    /\ ~j.pending_confirm
    /\ j.push = << >> \/ \E m \in Move : j.push = <<m>>
    /\ j.sender = << >> \/ \E b \in JoinerBlock, n \in Nat : j.sender = [block |-> b, left |-> n]

IsLeader(l) ==
    /\ DOMAIN l = LeaderFields
    /\ l.party \in LeaderParty /\ l.round \in Nat /\ l.count \in Nat /\ l.todo \in Nat
    /\ l.repeat \in Nat /\ (l.repeat > 0 => l.count > 0)
    /\ l.out \in Seq(SpokenWord) /\ l.echo \in Seq(Slot)
    /\ l.todo > 0 => l.at \in {"warp0", "warp1", "seat", "seam", "saving", "left"}
    /\ l.finish => l.at \in InTrade
    /\ l.at \notin {"room", "menu", "prompt"} => l.choice = "none" /\ l.reply = "none"
    /\ l.at = "room" => l.reply \in {"none", "READY"}

\* The joiner's count is one that the console has reached, and a round it mirrors one that
\* the console has passed.
BarOk(b, c) ==
    /\ DOMAIN b = BarFields /\ b.local \in Nat /\ b.local <= c
    /\ b.mode = "STANDBY" /\ ~b.initiated => b.local < c

Passed(d, c) == \A i \in 1 .. Len(d) : d[i].own.op = "standby" => d[i].own.count < c

InvOf(j, l, d, u) ==
    /\ IsJoiner(j) /\ IsLeader(l) /\ d \in Seq(FrameSet) /\ u \in Seq(Slot)
    /\ BarOk(j.bar, l.count) /\ Passed(d, l.count)
    /\ Stage(j, l, d, u)

Inv == InvOf(joiner, leader, downlink, uplink)

-----------------------------------------------------------------------------
(* What the words are.                                                     *)

Watched == TradeWord \cup TheirParty \cup Ribbons \cup Pull
Told    == Move \cup OurParty \cup {Block("link_player")}

TradeCmds == {"SET_MONS_TO_TRADE", "START_TRADE", "CONFIRM_FINISH_TRADE", "BOTH_CANCEL_TRADE",
              "PARTNER_CANCEL_TRADE", "PLAYER_CANCEL_TRADE"}
MoveCmds  == {"READY_TO_TRADE", "REQUEST_CANCEL", "INIT_BLOCK", "READY_CANCEL_TRADE",
              "READY_FINISH_TRADE"}

LEMMA WordKinds ==
    /\ \A w \in TradeWord : w.op = "block" /\ w.cmd \in TradeCmds
    /\ \A w \in TheirParty : w.op = "block" /\ w.cmd = "party" /\ w.mons \in LeaderParty /\ w = Mons(w.mons)
    /\ \A w \in Ribbons : w.op = "block" /\ w.cmd = "ribbons"
    /\ \A w \in Pull : w.op = "req" /\ w.of = "200"
    /\ \A w \in PlainWord : /\ w.op \in {"block", "req", "close", "D", "idle", "busy", "key"}
                            /\ w.op = "block" => w.cmd \in {"link_player", "card"}
                            /\ w.op = "req" => w.of \in {"card", "ribbons"}
    /\ \A w \in Standbys : w.op = "standby" /\ w.count \in Nat
BY DEF TradeWord, SwapWord, CancelWord, TheirParty, Ribbons, Pull, PlainWord, Standbys, Keys,
       TradeCmds, Select, Block, Mons, Req, Close, Disconnect, Idle, Busy, Key, Standby

LEMMA TradeWords ==
    /\ \A w \in TradeWord : w.cmd = "SET_MONS_TO_TRADE" =>
           w.cursor \in DOMAIN LeaderMons /\ w = Select("SET_MONS_TO_TRADE", w.cursor)
    /\ \A w \in TradeWord : w.cmd # "SET_MONS_TO_TRADE" => w = Block(w.cmd)
    /\ \A cmd \in TradeCmds \ {"SET_MONS_TO_TRADE"} : Block(cmd) \in TradeWord
    /\ \A s \in DOMAIN LeaderMons : Select("SET_MONS_TO_TRADE", s) \in TradeWord
BY DEF TradeWord, SwapWord, CancelWord, TradeCmds, Select, Block

LEMMA WordsApart ==
    /\ TradeWord \cap TheirParty = {} /\ TradeWord \cap Ribbons = {} /\ TradeWord \cap Pull = {}
    /\ TheirParty \cap Ribbons = {} /\ TheirParty \cap Pull = {} /\ Ribbons \cap Pull = {}
    /\ Watched \cap PlainWord = {} /\ Watched \cap Standbys = {} /\ PlainWord \cap Standbys = {}
    /\ LeaderWord = Watched \cup PlainWord \cup Standbys
    /\ SpokenWord = Watched \cup PlainWord
<1>1. LeaderWord = Watched \cup PlainWord \cup Standbys /\ SpokenWord = Watched \cup PlainWord
  BY DEF LeaderWord, SpokenWord, Watched
<1>2. "party" \notin TradeCmds /\ "ribbons" \notin TradeCmds /\ "link_player" \notin TradeCmds
      /\ "card" \notin TradeCmds
  BY DEF TradeCmds
<1> HIDE DEF TradeWord, TheirParty, Ribbons, Pull, PlainWord, Standbys, TradeCmds
<1> QED
  BY <1>1, <1>2, WordKinds DEF Watched

\* What a word is follows from its kind.
LEMMA WordIs ==
    ASSUME NEW w \in LeaderWord
    PROVE  /\ w.op = "req" => (w \in Pull /\ w.of = "200") \/ (w \in PlainWord /\ w.of \in {"card", "ribbons"})
           /\ w.op = "block" =>
                \/ w \in TradeWord /\ w.cmd \in TradeCmds
                \/ w \in TheirParty /\ w.cmd = "party"
                \/ w \in Ribbons /\ w.cmd = "ribbons"
                \/ w \in PlainWord /\ w.cmd \in {"link_player", "card"}
           /\ w.op \notin {"req", "block"} => w \notin Watched
           /\ w.op = "standby" => w.count \in Nat
<1>1. w \in TradeWord \cup TheirParty \cup Ribbons \cup Pull \cup PlainWord \cup Standbys
  BY DEF LeaderWord, SpokenWord
<1> HIDE DEF TradeWord, TheirParty, Ribbons, Pull, PlainWord, Standbys, TradeCmds
<1>2. w.op = "req" => (w \in Pull /\ w.of = "200") \/ (w \in PlainWord /\ w.of \in {"card", "ribbons"})
  <2> SUFFICES ASSUME w.op = "req" PROVE w \in Pull \cup PlainWord
    BY WordKinds
  <2> QED
    BY <1>1, WordKinds
<1>3. w.op = "block" =>
        \/ w \in TradeWord /\ w.cmd \in TradeCmds
        \/ w \in TheirParty /\ w.cmd = "party"
        \/ w \in Ribbons /\ w.cmd = "ribbons"
        \/ w \in PlainWord /\ w.cmd \in {"link_player", "card"}
  BY <1>1, WordKinds
<1>4. w.op \notin {"req", "block"} => w \notin Watched
  BY WordKinds DEF Watched
<1>5. w.op = "standby" => w.count \in Nat
  BY <1>1, WordKinds
<1> QED
  BY <1>2, <1>3, <1>4, <1>5

LEMMA SlotKinds ==
    /\ \A s \in Move : s.op = "block" /\ s.cmd \in MoveCmds
    /\ \A s \in OurParty : s.op = "block" /\ s.cmd = "party" /\ s.mons \in JoinerParty /\ s = Mons(s.mons)
    /\ \A s \in PlainBlock : s.op = "block" /\ s.cmd \in {"link_player", "card", "ribbons", "zero"}
                             /\ s = Block(s.cmd)
    /\ \A s \in {Close, Idle, Busy} \cup Keys \cup Standbys :
          s.op \in {"close", "idle", "busy", "key", "standby"}
BY DEF Move, OurParty, PlainBlock, Keys, Standbys, MoveCmds, Select, Block, Mons, Close, Idle, Busy,
       Key, Standby

LEMMA MoveIs ==
    /\ \A s \in Move : s.cmd = "READY_TO_TRADE" =>
           s.cursor \in DOMAIN JoinerMons /\ s = Select("READY_TO_TRADE", s.cursor)
    /\ \A s \in Move : s.cmd # "READY_TO_TRADE" => s = Block(s.cmd)
    /\ \A cmd \in MoveCmds \ {"READY_TO_TRADE"} : Block(cmd) \in Move
    /\ \A s \in DOMAIN JoinerMons : Select("READY_TO_TRADE", s) \in Move
<1>1. \A s \in Move : \/ s \in {Select("READY_TO_TRADE", c) : c \in DOMAIN JoinerMons}
                       \/ s \in {Block("REQUEST_CANCEL"), Block("INIT_BLOCK"),
                                Block("READY_CANCEL_TRADE"), Block("READY_FINISH_TRADE")}
  BY DEF Move
<1>2. \A cmd : Block(cmd).cmd = cmd /\ \A c : Select(cmd, c).cmd = cmd /\ Select(cmd, c).cursor = c
  BY DEF Select, Block
<1>3. /\ \A cmd \in MoveCmds \ {"READY_TO_TRADE"} : Block(cmd) \in Move
      /\ \A s \in DOMAIN JoinerMons : Select("READY_TO_TRADE", s) \in Move
  <2> HIDE DEF Block, Select
  <2> QED
    BY DEF Move, MoveCmds
<1> HIDE DEF Block, Select, Move
<1> QED
  BY <1>1, <1>2, <1>3

\* What the joiner says without effect on a trade.
Filler == (PlainBlock \ {Block("link_player")}) \cup {Close, Idle, Busy} \cup Keys \cup Standbys

LEMMA SlotsApart ==
    /\ Move \cap OurParty = {} /\ Move \cap PlainBlock = {} /\ OurParty \cap PlainBlock = {}
    /\ Told \cap Filler = {} /\ Slot = Told \cup Filler
    /\ JoinerBlock \subseteq Slot /\ Idle \in Filler /\ Busy \in Filler
    /\ \A s \in Slot : s # Yield
    /\ \A s \in JoinerBlock : s.op = "block"
<1>1. Slot = Told \cup Filler /\ JoinerBlock \subseteq Slot /\ Idle \in Filler /\ Busy \in Filler
  BY DEF Slot, PlainSlot, Told, Filler, JoinerBlock, PlainBlock
<1>2. Move \cap OurParty = {} /\ Move \cap PlainBlock = {} /\ OurParty \cap PlainBlock = {}
  <2> HIDE DEF Move, OurParty, PlainBlock
  <2> QED
    BY SlotKinds DEF MoveCmds
<1>3. Block("link_player").op = "block" /\ Block("link_player") \in PlainBlock
      /\ Yield.op = "yield"
  BY DEF Block, PlainBlock, Yield
<1>4. Told \cap Filler = {}
  <2> HIDE DEF Move, OurParty, PlainBlock, Keys, Standbys, Close, Idle, Busy, Block
  <2> QED
    BY <1>2, <1>3, SlotKinds DEF Told, Filler
<1>5. (\A s \in Slot : s # Yield) /\ (\A s \in JoinerBlock : s.op = "block")
  <2> HIDE DEF Move, OurParty, PlainBlock, Keys, Standbys, Close, Idle, Busy, Block, Yield
  <2> QED
    BY <1>3, SlotKinds DEF Slot, PlainSlot, JoinerBlock
<1> QED
  BY <1>1, <1>2, <1>4, <1>5

\* What a slot is follows from its kind.
LEMMA SlotIs ==
    ASSUME NEW s \in Slot
    PROVE  /\ s.op = "block" =>
                \/ s \in Move /\ s.cmd \in MoveCmds
                \/ s \in OurParty /\ s.cmd = "party"
                \/ s \in PlainBlock /\ s.cmd \in {"link_player", "card", "ribbons", "zero"} /\ s = Block(s.cmd)
           /\ s.op = "key" => s.key \in {"EMPTY", "READY", "EXIT"}
           /\ s.op # "block" => s \in Filler /\ s.op \in {"close", "idle", "busy", "key", "standby"}
<1>1. s \in Move \cup OurParty \cup PlainBlock \cup {Close, Idle, Busy} \cup Keys \cup Standbys
  BY DEF Slot, PlainSlot
<1>2. \A k \in Keys : k.key \in {"EMPTY", "READY", "EXIT"}
  BY DEF Keys, Key
<1>3. \A x \in {Close, Idle, Busy} \cup Standbys : x.op # "key"
  BY DEF Close, Idle, Busy, Standbys, Standby
<1> HIDE DEF Move, OurParty, PlainBlock, Keys, Standbys, Close, Idle, Busy, Block, MoveCmds
<1> QED
  BY <1>1, <1>2, <1>3, SlotKinds DEF Filler

-----------------------------------------------------------------------------
(* What a stage depends on.                                                *)

\* What a trade knows of the joiner and of the console.
Alike(j, k) ==
    /\ k.lp_sent = j.lp_sent /\ k.party = j.party /\ k.party_sent = j.party_sent
    /\ k.host_party = j.host_party /\ k.host_cursor = j.host_cursor /\ k.ribbons = j.ribbons
    /\ k.selected = j.selected /\ k.anim = j.anim /\ k.finish_sent = j.finish_sent
    /\ k.cancel_wait = j.cancel_wait /\ (k.cancelled <=> j.cancelled) /\ k.round = j.round
    /\ k.pending_confirm = j.pending_confirm
AlikeThere(l, m) ==
    /\ m.at = l.at /\ m.party = l.party /\ m.view = l.view /\ m.mine = l.mine
    /\ m.theirs = l.theirs /\ m.choice = l.choice /\ m.reply = l.reply /\ m.finish = l.finish
    /\ m.round = l.round

\* Nothing that matters came under way.
UpFlows(j, u, k, v) ==
    \A W : W \subseteq Told => /\ NoneUp(j, u, W) => NoneUp(k, v, W)
                               /\ OneUp(j, u, W) => OneUp(k, v, W)
DownFlows(l, d, m, e) ==
    \A W : W \subseteq Watched => /\ NoneDown(l, d, W) => NoneDown(m, e, W)
                                  /\ OneDown(l, d, W) => OneDown(m, e, W)

LEMMA UpKept ==
    ASSUME NEW j, NEW u, NEW k, NEW v, UpFlows(j, u, k, v)
    PROVE  /\ \A A : Up(j, u, A) => Up(k, v, A)
           /\ NoParty(j, u) => NoParty(k, v)
           /\ k.party = j.party => (OneParty(j, u) => OneParty(k, v))
           /\ NoneUp(j, u, {Block("link_player")}) => NoneUp(k, v, {Block("link_player")})
<1>1. /\ \A A : Move \ A \subseteq Told
      /\ Move \subseteq Told /\ OurParty \subseteq Told /\ {Block("link_player")} \subseteq Told
      /\ \A x : OurParty \ {x} \subseteq Told
  BY DEF Told
<1> HIDE DEF Told, Move, OurParty
<1> QED
  BY <1>1 DEF UpFlows, Up, NoParty, OneParty

LEMMA DownKept ==
    ASSUME NEW l, NEW d, NEW m, NEW e, DownFlows(l, d, m, e)
    PROVE  /\ \A A : Down(l, d, A) => Down(m, e, A)
           /\ NoPull(l, d) => NoPull(m, e)
           /\ OnePull(l, d) => OnePull(m, e)
           /\ NoView(l, d) => NoView(m, e)
           /\ m.party = l.party => (OneView(l, d) => OneView(m, e))
           /\ NoneDown(l, d, Ribbons) => NoneDown(m, e, Ribbons)
           /\ OneDown(l, d, Ribbons) => OneDown(m, e, Ribbons)
           /\ NoneDown(l, d, {Block("CONFIRM_FINISH_TRADE")}) => NoneDown(m, e, {Block("CONFIRM_FINISH_TRADE")})
<1>1. /\ \A A : TradeWord \ A \subseteq Watched
      /\ TradeWord \subseteq Watched /\ Pull \subseteq Watched /\ TheirParty \subseteq Watched
      /\ Ribbons \subseteq Watched
      /\ \A x : TheirParty \ {x} \subseteq Watched
  BY DEF Watched
<1>2. {Block("CONFIRM_FINISH_TRADE")} \subseteq Watched
  BY DEF Watched, TradeWord, SwapWord
<1> HIDE DEF Watched, TradeWord, Pull, TheirParty, Ribbons
<1> QED
  BY <1>1, <1>2 DEF DownFlows, Down, NoPull, OnePull, NoView, OneView

LEMMA StageKept ==
    ASSUME NEW j, NEW l, NEW d, NEW u, NEW k, NEW m, NEW e, NEW v,
           Alike(j, k), AlikeThere(l, m), UpFlows(j, u, k, v), DownFlows(l, d, m, e),
           Stage(j, l, d, u)
    PROVE  Stage(k, m, e, v)
<1>1. /\ \A A : Up(j, u, A) => Up(k, v, A)
      /\ NoParty(j, u) => NoParty(k, v)
      /\ OneParty(j, u) => OneParty(k, v)
      /\ NoneUp(j, u, {Block("link_player")}) => NoneUp(k, v, {Block("link_player")})
  BY UpKept DEF Alike
<1>2. /\ \A A : Down(l, d, A) => Down(m, e, A)
      /\ NoPull(l, d) => NoPull(m, e)
      /\ OnePull(l, d) => OnePull(m, e)
      /\ NoView(l, d) => NoView(m, e)
      /\ OneView(l, d) => OneView(m, e)
      /\ NoneDown(l, d, Ribbons) => NoneDown(m, e, Ribbons)
      /\ OneDown(l, d, Ribbons) => OneDown(m, e, Ribbons)
      /\ NoneDown(l, d, {Block("CONFIRM_FINISH_TRADE")}) => NoneDown(m, e, {Block("CONFIRM_FINISH_TRADE")})
  BY DownKept DEF AlikeThere
<1>3. Asked(j, l, d, u) => Asked(k, m, e, v)
  BY <1>1, <1>2 DEF Asked, Alike, AlikeThere
<1>4. Shown(j, l, d) => Shown(k, m, e)
  BY <1>2 DEF Shown, Alike, AlikeThere
<1>5. /\ SameRound(j, l) => SameRound(k, m)
      /\ Still(j) => Still(k)
      /\ Promised(j, l) => Promised(k, m)
      /\ offer(k) = offer(j)
  BY DEF SameRound, Still, Promised, offer, Alike, AlikeThere
<1>6. Apart(j, l, d, u) => Apart(k, m, e, v)
  BY <1>1, <1>2, <1>3, <1>4, <1>5 DEF Apart, Alike, AlikeThere
<1>7. Choosing(j, l, d, u) => Choosing(k, m, e, v)
  <2>1. AtMenu(j, l, d, u) => AtMenu(k, m, e, v)
    BY <1>1, <1>2, <1>5 DEF AtMenu, Alike, AlikeThere
  <2> QED
    BY <1>1, <1>2, <1>4, <1>5, <2>1 DEF Choosing, Alike, AlikeThere
<1>8. Agreed(j, l, d, u) => Agreed(k, m, e, v)
  <2>1. Answering(j, l, d, u) => Answering(k, m, e, v)
    BY <1>1, <1>2 DEF Answering, Alike, AlikeThere
  <2>2. Watching(j, l, d, u) => Watching(k, m, e, v)
    BY <1>1, <1>2 DEF Watching, Alike, AlikeThere
  <2> QED
    BY <1>1, <1>2, <1>5, <2>1, <2>2 DEF Agreed, Alike, AlikeThere
<1>9. Owing(j, l, d, u) => Owing(k, m, e, v)
  BY <1>1, <1>2, <1>5 DEF Owing, Alike, AlikeThere
<1>10. Leaving(j, l, d, u) => Leaving(k, m, e, v)
  BY <1>2, <1>5 DEF Leaving, AlikeThere
<1> QED
  BY <1>6, <1>7, <1>8, <1>9, <1>10 DEF Stage

\* One side of it is as it was.
LEMMA SameFlows ==
    /\ \A j : Alike(j, j)
    /\ \A l : AlikeThere(l, l)
    /\ \A j, u : UpFlows(j, u, j, u)
    /\ \A l, d : DownFlows(l, d, l, d)
BY DEF Alike, AlikeThere, UpFlows, DownFlows

-----------------------------------------------------------------------------
(* The two links.                                                          *)

LEMMA OwnsIs ==
    ASSUME NEW d \in Seq(FrameSet)
    PROVE  /\ owns(d) \in Seq(LeaderWord) /\ Len(owns(d)) = Len(d)
           /\ \A i \in 1 .. Len(d) : owns(d)[i] = d[i].own /\ d[i].own \in LeaderWord
<1>1. Len(d) \in Nat /\ \A i \in 1 .. Len(d) : d[i] \in FrameSet
  BY LenProperties, ElementOfSeq
<1>2. \A i \in 1 .. Len(d) : d[i].own \in LeaderWord
  BY <1>1 DEF FrameSet
<1> HIDE DEF FrameSet, LeaderWord
<1>3. owns(d) \in [1 .. Len(d) -> LeaderWord]
  BY <1>2 DEF owns
<1>4. owns(d) \in Seq(LeaderWord) /\ Len(owns(d)) = Len(d)
  BY <1>1, <1>3, SeqDef
<1> QED
  BY <1>2, <1>4 DEF owns

LEMMA OwnsTail ==
    ASSUME NEW d \in Seq(FrameSet), d # << >>
    PROVE  /\ owns(d) # << >> /\ Head(d) \in FrameSet /\ Tail(d) \in Seq(FrameSet)
           /\ Head(owns(d)) = Head(d).own /\ owns(Tail(d)) = Tail(owns(d))
           /\ Len(Tail(d)) = Len(d) - 1
           /\ \A n \in 1 .. Len(Tail(d)) : n + 1 \in 1 .. Len(d) /\ Tail(d)[n] = d[n + 1]
           /\ Head(d) = d[1] /\ 1 \in 1 .. Len(d)
<1>1. /\ Head(d) = d[1] /\ Head(d) \in FrameSet /\ Len(d) \in Nat \ {0}
      /\ Tail(d) \in Seq(FrameSet) /\ Len(Tail(d)) = Len(d) - 1
      /\ \A n \in 1 .. Len(d) - 1 : n + 1 \in 1 .. Len(d) /\ Tail(d)[n] = d[n + 1]
  BY TailIs
<1>2. owns(d) \in Seq(LeaderWord) /\ Len(owns(d)) = Len(d)
      /\ \A i \in 1 .. Len(d) : owns(d)[i] = d[i].own
  BY OwnsIs
<1>3. owns(d) # << >>
  BY <1>1, <1>2, EmptySeq
<1>4. /\ Head(owns(d)) = owns(d)[1] /\ Tail(owns(d)) \in Seq(LeaderWord)
      /\ Len(Tail(owns(d))) = Len(d) - 1
      /\ \A n \in 1 .. Len(d) - 1 : Tail(owns(d))[n] = owns(d)[n + 1]
  BY <1>2, <1>3, TailIs
<1>5. /\ owns(Tail(d)) \in Seq(LeaderWord) /\ Len(owns(Tail(d))) = Len(d) - 1
      /\ \A i \in 1 .. Len(d) - 1 : owns(Tail(d))[i] = Tail(d)[i].own
  BY <1>1, OwnsIs
<1>6. 1 \in 1 .. Len(d) /\ \A n \in 1 .. Len(d) - 1 : n + 1 \in 1 .. Len(d)
  BY <1>1
<1>7. owns(Tail(d)) = Tail(owns(d))
  <2> HIDE DEF owns, FrameSet, LeaderWord
  <2>1. \A i \in 1 .. Len(d) - 1 : owns(Tail(d))[i] = Tail(owns(d))[i]
    BY <1>1, <1>2, <1>4, <1>5, <1>6
  <2> QED
    BY <1>4, <1>5, <2>1, SeqEqual
<1> QED
  BY <1>1, <1>2, <1>3, <1>4, <1>6, <1>7

LEMMA OwnsAppend ==
    ASSUME NEW d \in Seq(FrameSet), NEW f \in FrameSet
    PROVE  /\ owns(Append(d, f)) = Append(owns(d), f.own) /\ Append(d, f) \in Seq(FrameSet)
           /\ f.own \in LeaderWord
<1>1. /\ Append(d, f) \in Seq(FrameSet) /\ Len(d) \in Nat /\ Len(Append(d, f)) = Len(d) + 1
      /\ \A n \in 1 .. Len(d) : Append(d, f)[n] = d[n]
      /\ Append(d, f)[Len(d) + 1] = f
  BY AppendIs
<1>2. f.own \in LeaderWord
  BY DEF FrameSet
<1>3. owns(d) \in Seq(LeaderWord) /\ Len(owns(d)) = Len(d)
      /\ \A i \in 1 .. Len(d) : owns(d)[i] = d[i].own
  BY OwnsIs
<1>4. /\ Append(owns(d), f.own) \in Seq(LeaderWord) /\ Len(Append(owns(d), f.own)) = Len(d) + 1
      /\ \A n \in 1 .. Len(d) : Append(owns(d), f.own)[n] = owns(d)[n]
      /\ Append(owns(d), f.own)[Len(d) + 1] = f.own
  BY <1>2, <1>3, AppendIs
<1>5. /\ owns(Append(d, f)) \in Seq(LeaderWord) /\ Len(owns(Append(d, f))) = Len(d) + 1
      /\ \A i \in 1 .. Len(d) + 1 : owns(Append(d, f))[i] = Append(d, f)[i].own
  BY <1>1, OwnsIs
<1>6. \A n \in 1 .. Len(d) + 1 : n \in 1 .. Len(d) \/ n = Len(d) + 1
  BY <1>1
<1>7. owns(Append(d, f)) = Append(owns(d), f.own)
  <2> HIDE DEF owns, FrameSet, LeaderWord
  <2>1. \A i \in 1 .. Len(d) + 1 : owns(Append(d, f))[i] = Append(owns(d), f.own)[i]
    BY <1>1, <1>3, <1>4, <1>5, <1>6
  <2> QED
    BY <1>4, <1>5, <2>1, SeqEqual
<1> QED
  BY <1>1, <1>2, <1>7

\* The console says a word.
LEMMA DownSays ==
    ASSUME NEW l, l.out \in Seq(SpokenWord), NEW w \in SpokenWord, NEW m, m.out = Append(l.out, w), NEW d
    PROVE  /\ \A W : NoneDown(l, d, W) => OneDown(m, d, W)
           /\ \A W : w \notin W => /\ NoneDown(l, d, W) => NoneDown(m, d, W)
                                   /\ OneDown(l, d, W) => OneDown(m, d, W)
BY PipeQueue DEF NoneDown, OneDown

LEMMA SaysPlain ==
    ASSUME NEW l, l.out \in Seq(SpokenWord), NEW w \in PlainWord, NEW m, m.out = Append(l.out, w), NEW d
    PROVE  DownFlows(l, d, m, d)
<1>1. w \in SpokenWord /\ \A W : W \subseteq Watched => w \notin W
  BY WordsApart
<1> HIDE DEF SpokenWord, Watched, PlainWord
<1> QED
  BY <1>1, DownSays DEF DownFlows

LEMMA SaysTrade ==
    ASSUME NEW l, l.out \in Seq(SpokenWord), NEW w \in TradeWord, NEW m, m.out = Append(l.out, w), NEW d
    PROVE  /\ \A A : w \in A /\ Down(l, d, {}) => Down(m, d, A)
           /\ NoPull(l, d) => NoPull(m, d)
           /\ NoView(l, d) => NoView(m, d)
           /\ m.party = l.party => (OneView(l, d) => OneView(m, d))
           /\ NoneDown(l, d, Ribbons) => NoneDown(m, d, Ribbons)
           /\ OneDown(l, d, Ribbons) => OneDown(m, d, Ribbons)
           /\ w # Block("CONFIRM_FINISH_TRADE") =>
                 (Down(l, d, {}) => NoneDown(m, d, {Block("CONFIRM_FINISH_TRADE")}))
<1>1. w \in SpokenWord /\ w \notin Pull /\ w \notin TheirParty /\ w \notin Ribbons
  BY WordsApart DEF Watched
<1>2. Block("CONFIRM_FINISH_TRADE") \in TradeWord
  BY DEF TradeWord, SwapWord
<1> HIDE DEF SpokenWord, Pull, TheirParty, Ribbons, TradeWord
<1>3. /\ \A W : NoneDown(l, d, W) => OneDown(m, d, W)
      /\ \A W : w \notin W => /\ NoneDown(l, d, W) => NoneDown(m, d, W)
                              /\ OneDown(l, d, W) => OneDown(m, d, W)
  BY <1>1, DownSays
<1>4. Down(l, d, {}) => \A W : W \subseteq TradeWord => NoneDown(l, d, W)
  <2>1. TradeWord \ {} = TradeWord
    OBVIOUS
  <2> QED
    BY <2>1, PipeWithin DEF Down, NoneDown
<1>5. \A A : w \in A /\ Down(l, d, {}) => Down(m, d, A)
  <2> SUFFICES ASSUME NEW A, w \in A, Down(l, d, {}) PROVE Down(m, d, A)
    OBVIOUS
  <2>1. TradeWord \ A \subseteq TradeWord /\ w \notin TradeWord \ A
    OBVIOUS
  <2>2. NoneDown(l, d, TradeWord) /\ NoneDown(l, d, TradeWord \ A)
    BY <1>4, <2>1
  <2> QED
    BY <1>3, <2>1, <2>2 DEF Down
<1>6. w # Block("CONFIRM_FINISH_TRADE") =>
          (Down(l, d, {}) => NoneDown(m, d, {Block("CONFIRM_FINISH_TRADE")}))
  <2>1. {Block("CONFIRM_FINISH_TRADE")} \subseteq TradeWord
    BY <1>2
  <2> QED
    BY <1>3, <1>4, <2>1
<1>7. m.party = l.party => (OneView(l, d) => OneView(m, d))
  BY <1>1, <1>3 DEF OneView
<1> QED
  BY <1>1, <1>3, <1>5, <1>6, <1>7 DEF NoPull, NoView

LEMMA SaysOther ==
    ASSUME NEW l, l.out \in Seq(SpokenWord), NEW w, NEW m, m.out = Append(l.out, w), NEW d
    PROVE  /\ w \in Watched \ TradeWord =>
                \A A : Down(l, d, A) => Down(m, d, A)
           /\ w \in Pull => /\ NoPull(l, d) => OnePull(m, d)
                            /\ NoView(l, d) => NoView(m, d)
                            /\ NoneDown(l, d, Ribbons) => NoneDown(m, d, Ribbons)
           /\ w \in TheirParty => /\ NoPull(l, d) => NoPull(m, d)
                                  /\ w = Mons(m.party) /\ NoView(l, d) => OneView(m, d)
                                  /\ NoneDown(l, d, Ribbons) => NoneDown(m, d, Ribbons)
           /\ w \in Ribbons => /\ NoPull(l, d) => NoPull(m, d)
                               /\ NoView(l, d) => NoView(m, d)
                               /\ m.party = l.party /\ OneView(l, d) => OneView(m, d)
                               /\ NoneDown(l, d, Ribbons) => OneDown(m, d, Ribbons)
<1>1. /\ w \in Watched => w \in SpokenWord
      /\ Pull \subseteq Watched /\ TheirParty \subseteq Watched /\ Ribbons \subseteq Watched
      /\ w \in Pull => w \notin TheirParty /\ w \notin Ribbons
      /\ w \in TheirParty => w \notin Pull /\ w \notin Ribbons
      /\ w \in Ribbons => w \notin Pull /\ w \notin TheirParty
  BY WordsApart DEF Watched
<1> HIDE DEF SpokenWord, Pull, TheirParty, Ribbons, TradeWord, Watched
<1>2. w \in Watched =>
      /\ \A W : NoneDown(l, d, W) => OneDown(m, d, W)
      /\ \A W : w \notin W => /\ NoneDown(l, d, W) => NoneDown(m, d, W)
                              /\ OneDown(l, d, W) => OneDown(m, d, W)
  BY <1>1, DownSays
<1>3. w \in Watched \ TradeWord => \A A : Down(l, d, A) => Down(m, d, A)
  BY <1>2 DEF Down
<1>4. w \in Pull => /\ NoPull(l, d) => OnePull(m, d)
                    /\ NoView(l, d) => NoView(m, d)
                    /\ NoneDown(l, d, Ribbons) => NoneDown(m, d, Ribbons)
  BY <1>1, <1>2 DEF NoPull, OnePull, NoView
<1>5. w \in TheirParty => /\ NoPull(l, d) => NoPull(m, d)
                          /\ w = Mons(m.party) /\ NoView(l, d) => OneView(m, d)
                          /\ NoneDown(l, d, Ribbons) => NoneDown(m, d, Ribbons)
  <2> SUFFICES ASSUME w \in TheirParty
               PROVE  /\ NoPull(l, d) => NoPull(m, d)
                      /\ w = Mons(m.party) /\ NoView(l, d) => OneView(m, d)
                      /\ NoneDown(l, d, Ribbons) => NoneDown(m, d, Ribbons)
    OBVIOUS
  <2>1. /\ TheirParty \ {Mons(m.party)} \subseteq TheirParty
        /\ w = Mons(m.party) => w \notin TheirParty \ {Mons(m.party)}
    OBVIOUS
  <2>2. NoView(l, d) => NoneDown(l, d, TheirParty \ {Mons(m.party)})
    BY <2>1, PipeWithin DEF NoView, NoneDown
  <2> QED
    BY <1>1, <1>2, <2>1, <2>2 DEF NoPull, NoView, OneView
<1>6. w \in Ribbons => /\ NoPull(l, d) => NoPull(m, d)
                       /\ NoView(l, d) => NoView(m, d)
                       /\ m.party = l.party /\ OneView(l, d) => OneView(m, d)
                       /\ NoneDown(l, d, Ribbons) => OneDown(m, d, Ribbons)
  BY <1>1, <1>2 DEF NoPull, NoView, OneView
<1> QED
  BY <1>3, <1>4, <1>5, <1>6

\* A frame lands.
LEMMA DownLands ==
    ASSUME NEW l, NEW d \in Seq(FrameSet), d # << >>
    PROVE  /\ DownFlows(l, d, l, Tail(d))
           /\ \A A : Down(l, d, A) /\ Head(d).own \in TradeWord =>
                 Head(d).own \in A /\ Down(l, Tail(d), {})
           /\ \A W : NoneDown(l, d, W) => Head(d).own \notin W
           /\ \A W : OneDown(l, d, W) /\ Head(d).own \in W => NoneDown(l, Tail(d), W)
<1> DEFINE w == Head(d).own
<1>1. /\ owns(d) \in Seq(LeaderWord) /\ owns(d) # << >> /\ Head(owns(d)) = w
      /\ owns(Tail(d)) = Tail(owns(d))
  BY OwnsIs, OwnsTail
<1> HIDE DEF w, owns
<1>2. /\ \A W : NoneDown(l, d, W) => NoneDown(l, Tail(d), W) /\ w \notin W
      /\ \A W : OneDown(l, d, W) => OneDown(l, Tail(d), W)
      /\ \A W : OneDown(l, d, W) /\ w \in W => NoneDown(l, Tail(d), W)
  <2>1. \A W : /\ NoneIn(owns(d), l.out, << >>, W) =>
                    NoneIn(Tail(owns(d)), l.out, << >>, W) /\ Head(owns(d)) \notin W
               /\ OneIn(owns(d), l.out, << >>, W) => OneIn(Tail(owns(d)), l.out, << >>, W)
               /\ OneIn(owns(d), l.out, << >>, W) /\ Head(owns(d)) \in W =>
                    NoneIn(Tail(owns(d)), l.out, << >>, W)
    BY <1>1, PipeTail
  <2> QED
    BY <1>1, <2>1 DEF NoneDown, OneDown
<1>3. DownFlows(l, d, l, Tail(d))
  BY <1>2 DEF DownFlows
<1>4. \A A : Down(l, d, A) /\ w \in TradeWord => w \in A /\ Down(l, Tail(d), {})
  <2> SUFFICES ASSUME NEW A, Down(l, d, A), w \in TradeWord
               PROVE  w \in A /\ Down(l, Tail(d), {})
    OBVIOUS
  <2>1. TradeWord \ {} = TradeWord
    OBVIOUS
  <2>2. w \notin TradeWord \ A
    BY <1>2 DEF Down
  <2>3. NoneDown(l, Tail(d), TradeWord)
    BY <1>2 DEF Down
  <2>4. OneDown(l, Tail(d), TradeWord)
    BY <2>3, NoneIsOne DEF NoneDown, OneDown
  <2> QED
    BY <2>1, <2>2, <2>3, <2>4 DEF Down
<1> QED
  BY <1>2, <1>3, <1>4 DEF w

\* A slot lands.
LEMMA UpLands ==
    ASSUME NEW j, NEW u \in Seq(Slot), u # << >>
    PROVE  /\ UpFlows(j, u, j, Tail(u))
           /\ \A A : Up(j, u, A) /\ Head(u) \in Move => Head(u) \in A /\ Up(j, Tail(u), {})
           /\ \A W : NoneUp(j, u, W) => Head(u) \notin W
           /\ OneParty(j, u) /\ Head(u) \in OurParty => Head(u) = Mons(j.party) /\ NoParty(j, Tail(u))
<1>2. /\ \A W : NoneUp(j, u, W) => NoneUp(j, Tail(u), W) /\ Head(u) \notin W
      /\ \A W : OneUp(j, u, W) => OneUp(j, Tail(u), W)
      /\ \A W : OneUp(j, u, W) /\ Head(u) \in W => NoneUp(j, Tail(u), W)
  BY PipeTail DEF NoneUp, OneUp
<1>3. UpFlows(j, u, j, Tail(u))
  BY <1>2 DEF UpFlows
<1>4. \A A : Up(j, u, A) /\ Head(u) \in Move => Head(u) \in A /\ Up(j, Tail(u), {})
  <2> SUFFICES ASSUME NEW A, Up(j, u, A), Head(u) \in Move
               PROVE  Head(u) \in A /\ Up(j, Tail(u), {})
    OBVIOUS
  <2>1. Move \ {} = Move
    OBVIOUS
  <2>2. Head(u) \notin Move \ A
    BY <1>2 DEF Up
  <2>3. NoneUp(j, Tail(u), Move)
    BY <1>2 DEF Up
  <2>4. OneUp(j, Tail(u), Move)
    BY <2>3, NoneIsOne DEF NoneUp, OneUp
  <2> QED
    BY <2>1, <2>2, <2>3, <2>4 DEF Up
<1>5. OneParty(j, u) /\ Head(u) \in OurParty => Head(u) = Mons(j.party) /\ NoParty(j, Tail(u))
  <2> SUFFICES ASSUME OneParty(j, u), Head(u) \in OurParty
               PROVE  Head(u) = Mons(j.party) /\ NoParty(j, Tail(u))
    OBVIOUS
  <2>1. Head(u) \notin OurParty \ {Mons(j.party)}
    BY <1>2 DEF OneParty
  <2> QED
    BY <1>2, <2>1 DEF OneParty, NoParty
<1> QED
  BY <1>2, <1>3, <1>4, <1>5

\* A slot of no concern goes out.
LEMMA UpFills ==
    ASSUME NEW j, NEW u \in Seq(Slot), NEW s \in Filler
    PROVE  /\ UpFlows(j, u, j, Append(u, s)) /\ Append(u, s) \in Seq(Slot)
           /\ \A t \in Slot : UpFlows(j, Append(u, t), j, Append(u, s))
<1>1. s \in Slot /\ \A W : W \subseteq Told => s \notin W
  BY SlotsApart
<1> HIDE DEF Slot, Filler, Told
<1>2. \A W : s \notin W => /\ NoneUp(j, u, W) => NoneUp(j, Append(u, s), W)
                           /\ OneUp(j, u, W) => OneUp(j, Append(u, s), W)
  BY <1>1, PipeAdd DEF NoneUp, OneUp
<1>3. \A t \in Slot : \A W : /\ NoneUp(j, Append(u, t), W) => NoneUp(j, u, W)
                             /\ OneUp(j, Append(u, t), W) => OneUp(j, u, W)
  BY PipeAdd DEF NoneUp, OneUp
<1>4. Append(u, s) \in Seq(Slot)
  BY <1>1, AppendIs
<1> QED
  BY <1>1, <1>2, <1>3, <1>4 DEF UpFlows

-----------------------------------------------------------------------------
(* The console hears a slot.                                               *)

LEMMA WaitsIs ==
    ASSUME NEW l, NEW s, s.op = "block", Waits(l, s)
    PROVE  /\ l.reply = "none" /\ s.cmd # "zero"
           /\ s.cmd = "link_player" => l.at = "link"
           /\ s.cmd = "card" => l.at = "card"
           /\ s.cmd = "party" => l.at = "party"
           /\ s.cmd = "ribbons" => l.at = "ribbons"
           /\ s.cmd \in {"READY_TO_TRADE", "REQUEST_CANCEL"} => l.at = "menu"
           /\ s.cmd \in {"INIT_BLOCK", "READY_CANCEL_TRADE"} => l.at = "prompt"
           /\ s.cmd = "READY_FINISH_TRADE" => l.at \in {"seam", "anim"}
<1>1. l.at \in WaitsForBlock[s.cmd] /\ l.reply = "none"
  BY DEF Waits
<1> QED
  BY <1>1 DEF WaitsForBlock

LEMMA WaitsKey ==
    ASSUME NEW l, NEW s, Waits(l, s)
    PROVE  /\ s.op = "key" /\ s.key = "READY" => l.at = "room"
           /\ s.op = "key" /\ s.key = "EXIT" => l.at = "exiting"
           /\ s.op = "close" => l.at \in {"closing", "gone"}
<1>1. s.op = "key" => l.at \in [EMPTY |-> Places, READY |-> {"room"}, EXIT |-> {"exiting"}][s.key]
  BY DEF Waits
<1>2. s.op = "close" => l.at \in {"closing", "gone"}
  BY DEF Waits
<1>3. s.op = "key" /\ s.key = "READY" => l.at = "room"
  BY <1>1
<1>4. s.op = "key" /\ s.key = "EXIT" => l.at = "exiting"
  BY <1>1
<1> QED
  BY <1>2, <1>3, <1>4

\* Nothing of a trade, and no count, has changed.
LEMMA Adjusted ==
    ASSUME NEW j, NEW l, NEW d, NEW u, InvOf(j, l, d, u), NEW m, DOMAIN m = LeaderFields,
           AlikeThere(l, m), m.out = l.out, m.count = l.count, m.todo = l.todo,
           m.repeat = l.repeat \/ (m.repeat \in Nat /\ l.count > 0), m.echo \in Seq(Slot)
    PROVE  InvOf(j, m, d, u)
<1>1. DownFlows(l, d, m, d)
  BY DEF DownFlows, NoneDown, OneDown
<1>2. Stage(j, m, d, u)
  BY <1>1, SameFlows, StageKept DEF InvOf
<1>3. IsLeader(m)
  BY DEF InvOf, IsLeader, AlikeThere
<1> QED
  BY <1>2, <1>3 DEF InvOf

LEMMA Dropped ==
    ASSUME NEW j, NEW l, NEW d, NEW u, InvOf(j, l, d, u), u # << >>
    PROVE  InvOf(j, l, d, Tail(u))
<1>1. u \in Seq(Slot) /\ Tail(u) \in Seq(Slot)
  BY TailIs DEF InvOf
<1>2. UpFlows(j, u, j, Tail(u))
  BY <1>1, UpLands
<1>3. Stage(j, l, d, Tail(u))
  BY <1>2, SameFlows, StageKept DEF InvOf
<1> QED
  BY <1>1, <1>3 DEF InvOf

\* A word that moves the console on outside a trade.
LEMMA SpeaksOn ==
    ASSUME NEW l, IsLeader(l), NEW w \in SpokenWord, NEW m, DOMAIN m = LeaderFields,
           m.out = Append(l.out, w), m.party = l.party, m.round = l.round, m.count = l.count,
           m.repeat = l.repeat, m.echo = l.echo, m.finish = l.finish, l.finish => m.at \in InTrade,
           m.todo \in Nat, m.todo > 0 => m.at \in {"warp0", "warp1", "seat", "seam", "saving", "left"},
           m.at \notin {"room", "menu", "prompt"} => m.choice = "none" /\ m.reply = "none",
           m.at = "room" => m.reply \in {"none", "READY"}
    PROVE  IsLeader(m)
<1>1. l.out \in Seq(SpokenWord)
  BY DEF IsLeader
<1>2. m.out \in Seq(SpokenWord)
  BY <1>1, AppendIs
<1> HIDE DEF SpokenWord, LeaderFields
<1> QED
  BY <1>2 DEF IsLeader

LEMMA PlainSays ==
    /\ {Block("link_player"), Block("card"), Req("card"), Req("ribbons"), Close, Disconnect, Idle, Busy,
        Key("EMPTY"), Key("READY"), Key("EXIT")} \subseteq PlainWord
    /\ PlainWord \subseteq SpokenWord /\ SpokenWord \subseteq LeaderWord
    /\ Req("200") \in Pull /\ Block("ribbons") \in Ribbons
    /\ Pull \subseteq SpokenWord /\ Ribbons \subseteq SpokenWord /\ TheirParty \subseteq SpokenWord
    /\ TradeWord \subseteq SpokenWord
BY DEF PlainWord, Keys, SpokenWord, LeaderWord, Pull, Ribbons

\* What a block does to the console.
LEMMA OnBlockIs ==
    ASSUME NEW l, NEW b
    PROVE  /\ b.cmd = "link_player" => onBlock(l, b) = says(passes(goes(l, "warp0"), 1), Block("link_player"))
           /\ b.cmd = "card" => onBlock(l, b) = says(passes(goes(l, "warp1"), 1), Block("card"))
           /\ b.cmd = "party" =>
                onBlock(l, b) = [says(goes(l, "partied"), Mons(l.party)) EXCEPT !.view = b.mons]
           /\ b.cmd = "ribbons" => onBlock(l, b) = says(goes(l, "menu"), Block("ribbons"))
           /\ b.cmd = "READY_TO_TRADE" => onBlock(l, b) = [l EXCEPT !.reply = "trade", !.theirs = b.cursor]
           /\ b.cmd = "REQUEST_CANCEL" => onBlock(l, b) = [l EXCEPT !.reply = "cancel"]
           /\ b.cmd = "INIT_BLOCK" => onBlock(l, b) = [l EXCEPT !.reply = "yes"]
           /\ b.cmd = "READY_CANCEL_TRADE" => onBlock(l, b) = [l EXCEPT !.reply = "no"]
           /\ b.cmd = "READY_FINISH_TRADE" => onBlock(l, b) = [l EXCEPT !.finish = TRUE]
BY DEF onBlock

LEMMA HearsLinkPlayer ==
    ASSUME NEW j, NEW l, NEW d, NEW u, InvOf(j, l, d, u), u # << >>,
           Head(u) = Block("link_player"), l.at = "link"
    PROVE  InvOf(j, onBlock(l, Head(u)), d, Tail(u))
<1> DEFINE m == onBlock(l, Head(u))
<1>1. IsLeader(l) /\ l.out \in Seq(SpokenWord) /\ u \in Seq(Slot) /\ DOMAIN l = LeaderFields
      /\ l.choice = "none" /\ l.reply = "none" /\ ~l.finish
  BY DEF InvOf, IsLeader, InTrade
<1>2. /\ DOMAIN m = LeaderFields /\ m.at = "warp0" /\ m.todo = 1
      /\ m.out = Append(l.out, Block("link_player"))
      /\ m.party = l.party /\ m.round = l.round /\ m.count = l.count /\ m.repeat = l.repeat
      /\ m.echo = l.echo /\ m.finish = l.finish /\ m.choice = l.choice /\ m.reply = l.reply
      /\ m.view = l.view
  <2>1. m = says(passes(goes(l, "warp0"), 1), Block("link_player"))
    <3>1. Head(u).cmd = "link_player"
      BY DEF Block
    <3> QED
      BY <3>1, OnBlockIs
  <2> HIDE DEF m
  <2> QED
    BY <1>1, <2>1 DEF says, passes, goes, LeaderFields
<1> HIDE DEF m
<1>3. IsLeader(m)
  BY <1>1, <1>2, PlainSays, SpeaksOn
<1>4. DownFlows(l, d, m, d)
  BY <1>1, <1>2, PlainSays, SaysPlain
<1>5. UpFlows(j, u, j, Tail(u)) /\ (NoneUp(j, u, {Block("link_player")}) => Head(u) \notin {Block("link_player")})
  BY <1>1, UpLands
<1>6. Apart(j, l, d, u)
  BY DEF InvOf, Stage, Choosing, Agreed, Owing, Leaving, Away, InTrade
<1>7. /\ \A A : Up(j, u, A) => Up(j, Tail(u), A)
      /\ NoParty(j, u) => NoParty(j, Tail(u))
  BY <1>5, UpKept
<1>8. /\ \A A : Down(l, d, A) => Down(m, d, A)
      /\ NoPull(l, d) => NoPull(m, d)
      /\ NoView(l, d) => NoView(m, d)
      /\ NoneDown(l, d, Ribbons) => NoneDown(m, d, Ribbons)
  BY <1>4, DownKept
<1>9. Asked(j, m, d, Tail(u))
  <2>1. NoPull(l, d) /\ NoParty(j, u)
    BY <1>5, <1>6 DEF Apart, Asked
  <2> QED
    BY <1>2, <1>7, <1>8, <2>1 DEF Asked
<1>10. Shown(j, m, d)
  BY <1>2, <1>6, <1>8 DEF Apart, Shown, Before
<1>11. Apart(j, m, d, Tail(u))
  BY <1>2, <1>6, <1>7, <1>8, <1>9, <1>10 DEF Apart, SameRound, Before, Still
<1>12. Tail(u) \in Seq(Slot)
  BY <1>1, TailIs
<1> QED
  BY <1>2, <1>3, <1>11, <1>12 DEF InvOf, Stage, m

\* On the way to the menu, and on the way out of it, from place to place.
LEMMA ApartMoves ==
    ASSUME NEW j, NEW l, NEW d, NEW u, NEW m, NEW e, NEW v, Apart(j, l, d, u),
           UpFlows(j, u, j, v), DownFlows(l, d, m, e),
           m.round = l.round, m.view = l.view, m.party = l.party,
           m.at \in Before \cup Lent, l.at \notin {"link", "party"}, m.at \notin {"link", "party"},
           l.at \in Before <=> m.at \in Before
    PROVE  Apart(j, m, e, v)
<1>1. /\ \A A : Up(j, u, A) => Up(j, v, A)
      /\ NoParty(j, u) => NoParty(j, v)
  BY UpKept
<1>2. /\ \A A : Down(l, d, A) => Down(m, e, A)
      /\ NoPull(l, d) => NoPull(m, e)
      /\ NoView(l, d) => NoView(m, e)
      /\ OneView(l, d) => OneView(m, e)
      /\ NoneDown(l, d, Ribbons) => NoneDown(m, e, Ribbons)
  BY DownKept
<1>3. Asked(j, m, e, v)
  BY <1>1, <1>2 DEF Apart, Asked
<1>4. Shown(j, m, e)
  BY <1>2 DEF Apart, Shown
<1> QED
  BY <1>1, <1>2, <1>3, <1>4 DEF Apart, SameRound

LEMMA LeavingMoves ==
    ASSUME NEW j, NEW l, NEW d, NEW u, NEW m, NEW e, NEW v, Leaving(j, l, d, u),
           DownFlows(l, d, m, e), m.round = l.round, m.at \in Away
    PROVE  Leaving(j, m, e, v)
<1>1. NoneDown(m, e, {Block("CONFIRM_FINISH_TRADE")})
  BY DownKept DEF Leaving
<1> QED
  BY <1>1 DEF Leaving, SameRound

\* Where the console is says much of the stage.
LEMMA StageAt ==
    ASSUME NEW j, NEW l, NEW d, NEW u, Stage(j, l, d, u)
    PROVE  /\ l.at \in (Before \ {"saving", "party"}) \cup Lent => Apart(j, l, d, u)
           /\ l.at \in {"saving", "party"} => Apart(j, l, d, u) \/ Owing(j, l, d, u)
           /\ l.at = "menu" => Choosing(j, l, d, u)
           /\ l.at \in {"prompt", "seam", "anim"} => Agreed(j, l, d, u)
           /\ l.at \in Away => Leaving(j, l, d, u)
BY DEF Stage, Apart, Choosing, Agreed, Owing, Leaving, Before, Lent, Away, InTrade

LEMMA HearsCard ==
    ASSUME NEW j, NEW l, NEW d, NEW u, InvOf(j, l, d, u), u # << >>,
           Head(u).cmd = "card", l.at = "card"
    PROVE  InvOf(j, onBlock(l, Head(u)), d, Tail(u))
<1> DEFINE m == onBlock(l, Head(u))
<1>1. IsLeader(l) /\ l.out \in Seq(SpokenWord) /\ u \in Seq(Slot) /\ DOMAIN l = LeaderFields
      /\ l.choice = "none" /\ l.reply = "none" /\ ~l.finish
  BY DEF InvOf, IsLeader, InTrade
<1>2. m = says(passes(goes(l, "warp1"), 1), Block("card"))
  BY OnBlockIs
<1> HIDE DEF m
<1>3. /\ DOMAIN m = LeaderFields /\ m.at = "warp1" /\ m.todo = 1
      /\ m.out = Append(l.out, Block("card"))
      /\ m.party = l.party /\ m.round = l.round /\ m.count = l.count /\ m.repeat = l.repeat
      /\ m.echo = l.echo /\ m.finish = l.finish /\ m.choice = l.choice /\ m.reply = l.reply
      /\ m.view = l.view
  BY <1>1, <1>2 DEF says, passes, goes, LeaderFields
<1>4. IsLeader(m)
  BY <1>1, <1>3, PlainSays, SpeaksOn
<1>5. DownFlows(l, d, m, d)
  BY <1>1, <1>3, PlainSays, SaysPlain
<1>6. UpFlows(j, u, j, Tail(u)) /\ Tail(u) \in Seq(Slot)
  BY <1>1, UpLands, TailIs
<1>7. Apart(j, l, d, u)
  BY StageAt DEF InvOf, Before
<1>8. Apart(j, m, d, Tail(u))
  BY <1>3, <1>5, <1>6, <1>7, ApartMoves DEF Before
<1> QED
  BY <1>3, <1>4, <1>6, <1>8 DEF InvOf, Stage, m

\* The party of the joiner, and the console's in return.
LEMMA HearsParty ==
    ASSUME NEW j, NEW l, NEW d, NEW u, InvOf(j, l, d, u), u # << >>,
           Head(u) \in OurParty, l.at = "party"
    PROVE  InvOf(j, onBlock(l, Head(u)), d, Tail(u))
<1> DEFINE m == onBlock(l, Head(u))
<1>1. IsLeader(l) /\ l.out \in Seq(SpokenWord) /\ u \in Seq(Slot) /\ DOMAIN l = LeaderFields
      /\ l.choice = "none" /\ l.reply = "none" /\ ~l.finish /\ l.todo \in Nat /\ ~(l.todo > 0)
      /\ l.party \in LeaderParty
  BY DEF InvOf, IsLeader, InTrade
<1>2. m = [says(goes(l, "partied"), Mons(l.party)) EXCEPT !.view = Head(u).mons]
  BY SlotKinds, OnBlockIs
<1> HIDE DEF m
<1>3. /\ DOMAIN m = LeaderFields /\ m.at = "partied" /\ m.todo = l.todo
      /\ m.out = Append(l.out, Mons(l.party))
      /\ m.party = l.party /\ m.round = l.round /\ m.count = l.count /\ m.repeat = l.repeat
      /\ m.echo = l.echo /\ m.finish = l.finish /\ m.choice = l.choice /\ m.reply = l.reply
      /\ m.view = Head(u).mons
  BY <1>1, <1>2 DEF says, goes, LeaderFields
<1>4. Mons(l.party) \in TheirParty /\ Mons(l.party) \in Watched \ TradeWord
  <2>1. Mons(l.party) \in TheirParty
    BY <1>1 DEF TheirParty
  <2> QED
    BY <2>1, WordsApart DEF Watched
<1>5. IsLeader(m)
  BY <1>1, <1>3, <1>4, PlainSays, SpeaksOn
<1>6. /\ \A A : Down(l, d, A) => Down(m, d, A)
      /\ NoPull(l, d) => NoPull(m, d)
      /\ NoView(l, d) => OneView(m, d)
      /\ NoneDown(l, d, Ribbons) => NoneDown(m, d, Ribbons)
  BY <1>1, <1>3, <1>4, SaysOther
<1>7. /\ UpFlows(j, u, j, Tail(u)) /\ Tail(u) \in Seq(Slot)
      /\ \A W : NoneUp(j, u, W) => Head(u) \notin W
      /\ OneParty(j, u) => Head(u) = Mons(j.party) /\ NoParty(j, Tail(u))
  BY <1>1, UpLands, TailIs
<1>8. Apart(j, l, d, u) /\ NoPull(l, d) /\ OneParty(j, u)
  BY <1>7, StageAt DEF InvOf, Owing, Apart, Asked, NoParty
<1>9. m.view = j.party
  BY <1>3, <1>7, <1>8 DEF Mons
<1>10. j.host_party = << >> /\ NoView(l, d)
  BY <1>8 DEF Apart, Shown, Before
<1>11. Up(j, Tail(u), {})
  BY <1>7, <1>8, UpKept DEF Apart
<1>12. Asked(j, m, d, Tail(u)) /\ Shown(j, m, d)
  BY <1>3, <1>6, <1>7, <1>8, <1>9, <1>10 DEF Asked, Shown, Before
<1>13. Apart(j, m, d, Tail(u))
  BY <1>3, <1>6, <1>8, <1>11, <1>12 DEF Apart, Lent, SameRound
<1> QED
  BY <1>3, <1>5, <1>7, <1>13 DEF InvOf, Stage, m

LEMMA HearsRibbons ==
    ASSUME NEW j, NEW l, NEW d, NEW u, InvOf(j, l, d, u), u # << >>,
           Head(u).cmd = "ribbons", l.at = "ribbons"
    PROVE  InvOf(j, onBlock(l, Head(u)), d, Tail(u))
<1> DEFINE m == onBlock(l, Head(u))
<1>1. IsLeader(l) /\ l.out \in Seq(SpokenWord) /\ u \in Seq(Slot) /\ DOMAIN l = LeaderFields
      /\ l.choice = "none" /\ l.reply = "none" /\ ~l.finish /\ l.todo \in Nat /\ ~(l.todo > 0)
  BY DEF InvOf, IsLeader, InTrade
<1>2. m = says(goes(l, "menu"), Block("ribbons"))
  BY OnBlockIs
<1> HIDE DEF m
<1>3. /\ DOMAIN m = LeaderFields /\ m.at = "menu" /\ m.todo = l.todo
      /\ m.out = Append(l.out, Block("ribbons"))
      /\ m.party = l.party /\ m.round = l.round /\ m.count = l.count /\ m.repeat = l.repeat
      /\ m.echo = l.echo /\ m.finish = l.finish /\ m.choice = l.choice /\ m.reply = l.reply
      /\ m.view = l.view
  BY <1>1, <1>2 DEF says, goes, LeaderFields
<1>4. Block("ribbons") \in Ribbons /\ Block("ribbons") \in Watched \ TradeWord
  BY PlainSays, WordsApart DEF Watched
<1>5. IsLeader(m)
  BY <1>1, <1>3, <1>4, PlainSays, SpeaksOn
<1>6. /\ \A A : Down(l, d, A) => Down(m, d, A)
      /\ NoPull(l, d) => NoPull(m, d)
      /\ NoView(l, d) => NoView(m, d)
      /\ OneView(l, d) => OneView(m, d)
      /\ NoneDown(l, d, Ribbons) => OneDown(m, d, Ribbons)
  BY <1>1, <1>3, <1>4, SaysOther
<1>7. UpFlows(j, u, j, Tail(u)) /\ Tail(u) \in Seq(Slot)
  BY <1>1, UpLands, TailIs
<1>8. Apart(j, l, d, u) /\ NoPull(l, d) /\ NoParty(j, u)
  BY StageAt DEF InvOf, Before, Lent, Apart, Asked
<1>9. Up(j, Tail(u), {}) /\ NoParty(j, Tail(u))
  BY <1>7, <1>8, UpKept DEF Apart
<1>10. Shown(j, m, d)
  BY <1>3, <1>6, <1>8 DEF Shown, Before, Apart
<1>11. AtMenu(j, m, d, Tail(u))
  BY <1>1, <1>3, <1>6, <1>8, <1>9 DEF AtMenu, Apart
<1>12. Choosing(j, m, d, Tail(u))
  BY <1>1, <1>3, <1>6, <1>8, <1>9, <1>10, <1>11 DEF Choosing, Apart, SameRound
<1> QED
  BY <1>3, <1>5, <1>7, <1>12 DEF InvOf, Stage, m

\* A move of the joiner.
LEMMA HearsMove ==
    ASSUME NEW j, NEW l, NEW d, NEW u, InvOf(j, l, d, u), u # << >>,
           Head(u) \in Move, Waits(l, Head(u))
    PROVE  InvOf(j, onBlock(l, Head(u)), d, Tail(u))
<1> DEFINE s == Head(u)
           m == onBlock(l, s)
           v == Tail(u)
<1>1. IsLeader(l) /\ u \in Seq(Slot) /\ DOMAIN l = LeaderFields
      /\ Stage(j, l, d, u)
  BY DEF InvOf, IsLeader
<1>2. s.op = "block" /\ s.cmd \in MoveCmds
  BY SlotKinds
<1>3. /\ UpFlows(j, u, j, v) /\ v \in Seq(Slot)
      /\ \A A : Up(j, u, A) => s \in A /\ Up(j, v, {})
  BY <1>1, UpLands, TailIs
<1>4. /\ NoParty(j, u) => NoParty(j, v)
  BY <1>3, UpKept
<1>5. /\ s.cmd = "READY_TO_TRADE" => s = Select("READY_TO_TRADE", s.cursor)
      /\ s.cmd # "READY_TO_TRADE" => s = Block(s.cmd)
  BY MoveIs
<1>6. l.reply = "none" /\ (s.cmd \in {"READY_TO_TRADE", "REQUEST_CANCEL"} => l.at = "menu")
      /\ (s.cmd \in {"INIT_BLOCK", "READY_CANCEL_TRADE"} => l.at = "prompt")
      /\ (s.cmd = "READY_FINISH_TRADE" => l.at \in {"seam", "anim"})
  BY <1>2, WaitsIs
<1>7. \A c, x : Block(c).cmd = c /\ Select(c, x).cmd = c /\ Select(c, x).cursor = x
  BY DEF Block, Select
<1> HIDE DEF s, v
<1>8. /\ s.cmd = "READY_TO_TRADE" => m = [l EXCEPT !.reply = "trade", !.theirs = s.cursor]
      /\ s.cmd = "REQUEST_CANCEL" => m = [l EXCEPT !.reply = "cancel"]
      /\ s.cmd = "INIT_BLOCK" => m = [l EXCEPT !.reply = "yes"]
      /\ s.cmd = "READY_CANCEL_TRADE" => m = [l EXCEPT !.reply = "no"]
      /\ s.cmd = "READY_FINISH_TRADE" => m = [l EXCEPT !.finish = TRUE]
  BY OnBlockIs
<1> HIDE DEF m
<1>9. /\ DOMAIN m = LeaderFields /\ m.at = l.at /\ m.out = l.out /\ m.party = l.party /\ m.view = l.view
      /\ m.mine = l.mine /\ m.round = l.round /\ m.count = l.count /\ m.repeat = l.repeat
      /\ m.echo = l.echo /\ m.todo = l.todo /\ m.choice = l.choice
      /\ s.cmd # "READY_TO_TRADE" => m.theirs = l.theirs
      /\ s.cmd # "READY_FINISH_TRADE" => m.finish = l.finish
      /\ s.cmd = "READY_TO_TRADE" => m.reply = "trade" /\ m.theirs = s.cursor
      /\ s.cmd = "REQUEST_CANCEL" => m.reply = "cancel"
      /\ s.cmd = "INIT_BLOCK" => m.reply = "yes"
      /\ s.cmd = "READY_CANCEL_TRADE" => m.reply = "no"
      /\ s.cmd = "READY_FINISH_TRADE" => m.reply = l.reply /\ m.finish
  <2> USE <1>1, <1>8 DEF LeaderFields
  <2>1. CASE s.cmd = "READY_TO_TRADE"
    BY <2>1
  <2>2. CASE s.cmd = "REQUEST_CANCEL"
    BY <2>2
  <2>3. CASE s.cmd = "INIT_BLOCK"
    BY <2>3
  <2>4. CASE s.cmd = "READY_CANCEL_TRADE"
    BY <2>4
  <2>5. CASE s.cmd = "READY_FINISH_TRADE"
    BY <2>5
  <2> QED
    BY <1>2, <2>1, <2>2, <2>3, <2>4, <2>5 DEF MoveCmds
<1>10. DownFlows(l, d, m, d)
  BY <1>9 DEF DownFlows, NoneDown, OneDown
<1>11. /\ \A A : Down(l, d, A) => Down(m, d, A)
       /\ NoPull(l, d) => NoPull(m, d)
       /\ NoView(l, d) => NoView(m, d)
       /\ OneView(l, d) => OneView(m, d)
       /\ NoneDown(l, d, Ribbons) => NoneDown(m, d, Ribbons)
       /\ OneDown(l, d, Ribbons) => OneDown(m, d, Ribbons)
  BY <1>9, <1>10, DownKept
<1>12. IsLeader(m)
  <2>1. m.finish => m.at \in InTrade
    BY <1>1, <1>2, <1>6, <1>9 DEF IsLeader, MoveCmds, InTrade
  <2>2. m.at \notin {"room", "menu", "prompt"} => m.choice = "none" /\ m.reply = "none"
    BY <1>1, <1>2, <1>6, <1>9 DEF IsLeader, MoveCmds
  <2>3. m.at = "room" => m.reply \in {"none", "READY"}
    BY <1>1, <1>2, <1>6, <1>9 DEF IsLeader, MoveCmds
  <2> QED
    BY <1>1, <1>9, <2>1, <2>2, <2>3 DEF IsLeader
<1>13. ASSUME l.at = "menu" PROVE Stage(j, m, d, v)
  <2>1. Choosing(j, l, d, u)
    BY <1>1, <1>13, StageAt
  <2>2. s.cmd \in {"READY_TO_TRADE", "REQUEST_CANCEL"}
    BY <1>2, <1>6, <1>13 DEF MoveCmds
  <2>3. AtMenu(j, m, d, v)
    <3>1. CASE s.cmd = "READY_TO_TRADE"
      <4>1. /\ l.reply = "none" /\ Down(l, d, {}) /\ s = offer(j) /\ Up(j, v, {}) /\ ~j.cancelled
            /\ Promised(j, l)
        BY <1>3, <1>6, <1>7, <2>1, <3>1 DEF Choosing, AtMenu, offer
      <4>2. m.theirs = Offered[j.round + 1]
        BY <1>7, <1>9, <3>1, <4>1 DEF offer
      <4>3. Promised(j, m)
        BY <1>9, <4>1 DEF Promised
      <4> QED
        BY <1>9, <1>11, <3>1, <4>1, <4>2, <4>3 DEF AtMenu
    <3>2. CASE s.cmd = "REQUEST_CANCEL"
      <4>1. Down(l, d, {}) /\ Up(j, v, {}) /\ j.selected
        BY <1>3, <1>6, <1>7, <2>1, <3>2 DEF Choosing, AtMenu, offer
      <4> QED
        BY <1>9, <1>11, <3>2, <4>1 DEF AtMenu
    <3> QED
      BY <2>2, <3>1, <3>2
  <2>4. Shown(j, m, d)
    BY <1>9, <1>11, <2>1 DEF Choosing, Shown
  <2> QED
    BY <1>4, <1>9, <1>11, <2>1, <2>3, <2>4 DEF Choosing, SameRound, Stage
<1>14. ASSUME l.at \in {"prompt", "seam", "anim"} PROVE Stage(j, m, d, v)
  <2>1. Agreed(j, l, d, u)
    BY <1>1, <1>14, StageAt
  <2>2. /\ Promised(j, m) /\ SameRound(j, m)
        /\ NoPull(m, d) /\ NoParty(j, v) /\ NoView(m, d) /\ NoneDown(m, d, Ribbons)
        /\ m.mine \in DOMAIN LeaderMons
    BY <1>4, <1>9, <1>11, <2>1 DEF Agreed, Promised, SameRound
  <2>3. m.theirs = Offered[j.round + 1]
    BY <1>6, <1>9, <1>14, <2>1 DEF Agreed
  <2>4. CASE l.at = "prompt"
    <3>1. s.cmd \in {"INIT_BLOCK", "READY_CANCEL_TRADE"}
      BY <1>2, <1>6, <2>4 DEF MoveCmds
    <3>2. Answering(j, l, d, u) /\ ~j.anim
      BY <2>1, <2>4 DEF Agreed, InTrade
    <3>3. Answering(j, m, d, v)
      <4>1. CASE s.cmd = "INIT_BLOCK"
        BY <1>3, <1>6, <1>7, <1>9, <1>11, <3>2, <4>1 DEF Answering
      <4>2. CASE s.cmd = "READY_CANCEL_TRADE"
        BY <1>3, <1>6, <1>7, <1>9, <1>11, <3>2, <4>2 DEF Answering
      <4> QED
        BY <3>1, <4>1, <4>2
    <3> QED
      BY <1>9, <2>2, <2>3, <2>4, <3>2, <3>3 DEF Agreed, Stage
  <2>5. CASE l.at \in {"seam", "anim"}
    <3>1. s.cmd = "READY_FINISH_TRADE"
      BY <1>2, <1>6, <2>5 DEF MoveCmds
    <3>2. /\ Watching(j, l, d, u) /\ j.host_cursor = l.mine /\ ~j.cancel_wait /\ ~j.cancelled
          /\ l.at \in InTrade
      BY <2>1, <2>5 DEF Agreed, InTrade
    <3>3. Watching(j, m, d, v)
      BY <1>3, <1>7, <1>9, <1>11, <3>1, <3>2 DEF Watching
    <3> QED
      BY <1>9, <2>2, <2>3, <3>2, <3>3 DEF Agreed, Stage
  <2> QED
    BY <1>14, <2>4, <2>5
<1>15. Stage(j, m, d, v)
  <2>1. l.at \in {"menu", "prompt", "seam", "anim"}
    BY <1>2, <1>6 DEF MoveCmds
  <2> QED
    BY <1>13, <1>14, <2>1
<1> QED
  BY <1>3, <1>9, <1>12, <1>15 DEF InvOf, m, s, v

LEMMA BlockKeeps ==
    ASSUME NEW l, DOMAIN l = LeaderFields, NEW b, b.cmd \in MoveCmds \cup {"link_player", "card", "party", "ribbons"}
    PROVE  /\ onBlock(l, b).party = l.party /\ onBlock(l, b).round = l.round
<1> DEFINE m == onBlock(l, b)
<1>1. \/ m = says(passes(goes(l, "warp0"), 1), Block("link_player"))
      \/ m = says(passes(goes(l, "warp1"), 1), Block("card"))
      \/ m = [says(goes(l, "partied"), Mons(l.party)) EXCEPT !.view = b.mons]
      \/ m = says(goes(l, "menu"), Block("ribbons"))
      \/ m = [l EXCEPT !.reply = "trade", !.theirs = b.cursor]
      \/ \E r : m = [l EXCEPT !.reply = r]
      \/ m = [l EXCEPT !.finish = TRUE]
  BY OnBlockIs DEF MoveCmds
<1> HIDE DEF m
<1>2. m.party = l.party /\ m.round = l.round
  BY <1>1 DEF LeaderFields, says, passes, goes
<1> QED
  BY <1>2 DEF m

\* A block that lands on a console that waits for it.
LEMMA HearsBlock ==
    ASSUME NEW j, NEW l, NEW d, NEW u, InvOf(j, l, d, u), u # << >>,
           Head(u).op = "block", Waits(l, Head(u))
    PROVE  /\ InvOf(j, onBlock(l, Head(u)), d, Tail(u))
           /\ onBlock(l, Head(u)).party = l.party /\ onBlock(l, Head(u)).round = l.round
<1> DEFINE s == Head(u)
<1>1. s \in Slot /\ DOMAIN l = LeaderFields
  BY TailIs DEF InvOf, IsLeader
<1>2. \/ s \in Move /\ s.cmd \in MoveCmds
      \/ s \in OurParty /\ s.cmd = "party"
      \/ s \in PlainBlock /\ s.cmd \in {"link_player", "card", "ribbons", "zero"} /\ s = Block(s.cmd)
  BY <1>1, SlotIs
<1>3. /\ s.cmd # "zero"
      /\ s.cmd = "link_player" => l.at = "link"
      /\ s.cmd = "card" => l.at = "card"
      /\ s.cmd = "party" => l.at = "party"
      /\ s.cmd = "ribbons" => l.at = "ribbons"
  BY WaitsIs
<1>4. onBlock(l, s).party = l.party /\ onBlock(l, s).round = l.round
  <2>1. s.cmd \in MoveCmds \cup {"link_player", "card", "party", "ribbons"}
    BY <1>2, <1>3
  <2> QED
    BY <1>1, <2>1, BlockKeeps
<1>5. CASE s \in Move
  BY <1>4, <1>5, HearsMove
<1>6. CASE s \in OurParty /\ s.cmd = "party"
  BY <1>3, <1>4, <1>6, HearsParty
<1>7. CASE s \in PlainBlock /\ s.cmd = "link_player" /\ s = Block("link_player")
  BY <1>3, <1>4, <1>7, HearsLinkPlayer
<1>8. CASE s \in PlainBlock /\ s.cmd = "card"
  BY <1>3, <1>4, <1>8, HearsCard
<1>9. CASE s \in PlainBlock /\ s.cmd = "ribbons"
  BY <1>3, <1>4, <1>9, HearsRibbons
<1> QED
  BY <1>2, <1>3, <1>5, <1>6, <1>7, <1>8, <1>9

\* A key: the joiner sits down, or answers the way out.
LEMMA HearsKey ==
    ASSUME NEW j, NEW l, NEW d, NEW u, InvOf(j, l, d, u), NEW k \in {"EMPTY", "READY", "EXIT"},
           k = "READY" => l.at = "room", k = "EXIT" => l.at = "exiting"
    PROVE  /\ InvOf(j, onKey(l, k), d, u)
           /\ onKey(l, k).party = l.party /\ onKey(l, k).round = l.round
<1> DEFINE m == onKey(l, k)
<1>1. IsLeader(l) /\ l.out \in Seq(SpokenWord) /\ DOMAIN l = LeaderFields /\ Stage(j, l, d, u)
  BY DEF InvOf, IsLeader
<1>2. CASE k = "READY"
  <2>1. m = [l EXCEPT !.reply = "READY"]
    BY <1>2 DEF onKey
  <2> HIDE DEF m
  <2>2. /\ DOMAIN m = LeaderFields /\ m.at = l.at /\ m.out = l.out /\ m.party = l.party
        /\ m.view = l.view /\ m.mine = l.mine /\ m.round = l.round /\ m.count = l.count
        /\ m.repeat = l.repeat /\ m.echo = l.echo /\ m.todo = l.todo /\ m.choice = l.choice
        /\ m.finish = l.finish /\ m.reply = "READY"
    BY <1>1, <2>1 DEF LeaderFields
  <2>3. DownFlows(l, d, m, d)
    BY <2>2 DEF DownFlows, NoneDown, OneDown
  <2>4. Apart(j, l, d, u)
    BY <1>1, <1>2, StageAt DEF Before
  <2>5. Apart(j, m, d, u)
    BY <1>2, <2>2, <2>3, <2>4, SameFlows, ApartMoves DEF Before
  <2>6. IsLeader(m)
    BY <1>1, <1>2, <2>2 DEF IsLeader
  <2> QED
    BY <2>2, <2>5, <2>6 DEF InvOf, Stage, m
<1>3. CASE k = "EXIT"
  <2>1. m = says(goes(l, "closing"), Close)
    BY <1>3 DEF onKey
  <2> HIDE DEF m
  <2>2. /\ DOMAIN m = LeaderFields /\ m.at = "closing" /\ m.out = Append(l.out, Close)
        /\ m.party = l.party /\ m.round = l.round /\ m.count = l.count
        /\ m.repeat = l.repeat /\ m.echo = l.echo /\ m.todo = l.todo /\ m.choice = l.choice
        /\ m.finish = l.finish /\ m.reply = l.reply
    BY <1>1, <2>1 DEF LeaderFields, says, goes
  <2>3. DownFlows(l, d, m, d)
    BY <1>1, <2>2, PlainSays, SaysPlain
  <2>4. Leaving(j, l, d, u)
    BY <1>1, <1>3, StageAt DEF Away
  <2>5. Leaving(j, m, d, u)
    BY <2>2, <2>3, <2>4, LeavingMoves DEF Away
  <2>6. ~l.finish /\ l.choice = "none" /\ l.reply = "none" /\ l.todo \in Nat /\ ~(l.todo > 0)
    BY <1>1, <1>3 DEF IsLeader, InTrade
  <2>7. IsLeader(m)
    BY <1>1, <2>2, <2>6, PlainSays, SpeaksOn
  <2> QED
    BY <2>2, <2>5, <2>7 DEF InvOf, Stage, m
<1>4. CASE k = "EMPTY"
  BY <1>4 DEF onKey
<1> QED
  BY <1>2, <1>3, <1>4

LEMMA HearsClose ==
    ASSUME NEW j, NEW l, NEW d, NEW u, InvOf(j, l, d, u), l.at \in {"closing", "gone"}
    PROVE  LET m == IF l.at = "gone" THEN l ELSE says(goes(l, "gone"), Disconnect)
           IN  InvOf(j, m, d, u) /\ m.party = l.party /\ m.round = l.round
<1>1. IsLeader(l) /\ l.out \in Seq(SpokenWord) /\ DOMAIN l = LeaderFields /\ Stage(j, l, d, u)
  BY DEF InvOf, IsLeader
<1> DEFINE m == says(goes(l, "gone"), Disconnect)
<1>2. /\ DOMAIN m = LeaderFields /\ m.at = "gone" /\ m.out = Append(l.out, Disconnect)
      /\ m.party = l.party /\ m.round = l.round /\ m.count = l.count
      /\ m.repeat = l.repeat /\ m.echo = l.echo /\ m.todo = l.todo /\ m.choice = l.choice
      /\ m.finish = l.finish /\ m.reply = l.reply
  BY <1>1 DEF LeaderFields, says, goes
<1> HIDE DEF m
<1>3. DownFlows(l, d, m, d)
  BY <1>1, <1>2, PlainSays, SaysPlain
<1>4. Leaving(j, l, d, u)
  BY <1>1, StageAt DEF Away
<1>5. Leaving(j, m, d, u)
  BY <1>2, <1>3, <1>4, LeavingMoves DEF Away
<1>6. ~l.finish /\ l.choice = "none" /\ l.reply = "none" /\ l.todo \in Nat /\ ~(l.todo > 0)
  BY <1>1 DEF IsLeader, InTrade
<1>7. IsLeader(m)
  BY <1>1, <1>2, <1>6, PlainSays, SpeaksOn
<1>8. InvOf(j, m, d, u) /\ m.party = l.party /\ m.round = l.round
  BY <1>2, <1>5, <1>7 DEF InvOf, Stage
<1> QED
  BY <1>8 DEF m

LEMMA Takes ==
    ASSUME NEW j, NEW l, NEW d, NEW u, InvOf(j, l, d, u), u # << >>
    PROVE  LET m == takes(l, Head(u))
           IN  InvOf(j, m, d, Tail(u)) /\ m.party = l.party /\ m.round = l.round
<1> DEFINE s == Head(u)
           m == takes(l, s)
<1>1. s \in Slot /\ IsLeader(l) /\ DOMAIN l = LeaderFields
  BY TailIs DEF InvOf, IsLeader
<1>2. /\ s.op = "key" => s.key \in {"EMPTY", "READY", "EXIT"}
      /\ s.op # "block" => s.op \in {"close", "idle", "busy", "key", "standby"}
  BY <1>1, SlotIs
<1>3. InvOf(j, l, d, Tail(u))
  BY Dropped
<1>4. CASE ~Waits(l, s)
  BY <1>3, <1>4 DEF takes
<1>5. CASE Waits(l, s) /\ s.op = "block"
  <2>1. m = onBlock(l, s)
    BY <1>5 DEF takes
  <2> QED
    BY <1>5, <2>1, HearsBlock
<1>6. CASE Waits(l, s) /\ s.op = "key"
  <2>1. m = onKey(l, s.key)
    BY <1>6 DEF takes
  <2>2. (s.key = "READY" => l.at = "room") /\ (s.key = "EXIT" => l.at = "exiting")
    BY <1>6, WaitsKey
  <2> QED
    BY <1>2, <1>3, <1>6, <2>1, <2>2, HearsKey
<1>7. CASE Waits(l, s) /\ s.op = "close"
  <2>1. m = IF l.at = "gone" THEN l ELSE says(goes(l, "gone"), Disconnect)
    BY <1>7 DEF takes
  <2>2. l.at \in {"closing", "gone"}
    BY <1>7, WaitsKey
  <2> QED
    BY <1>3, <2>1, <2>2, HearsClose
<1>8. CASE Waits(l, s) /\ s.op = "standby"
  <2>1. m = [l EXCEPT !.ready = @ \/ s.count = l.count]
    BY <1>8 DEF takes
  <2> HIDE DEF m, s
  <2>2. DOMAIN m = LeaderFields /\ AlikeThere(l, m) /\ m.out = l.out /\ m.count = l.count
        /\ m.todo = l.todo /\ m.repeat = l.repeat /\ m.echo = l.echo
    BY <1>1, <2>1 DEF LeaderFields, AlikeThere
  <2>3. l.echo \in Seq(Slot)
    BY <1>1 DEF IsLeader
  <2>4. InvOf(j, m, d, Tail(u))
    BY <1>3, <2>2, <2>3, Adjusted
  <2> QED
    BY <2>2, <2>4 DEF m, s, AlikeThere
<1>9. CASE Waits(l, s) /\ s.op \in {"idle", "busy"}
  BY <1>3, <1>9 DEF takes
<1> QED
  BY <1>2, <1>4, <1>5, <1>6, <1>7, <1>8, <1>9

LEMMA Hears ==
    ASSUME NEW j, NEW l, NEW d, NEW u, InvOf(j, l, d, u), u # << >>
    PROVE  LET m == heard(l, Head(u))
           IN  InvOf(j, m, d, Tail(u)) /\ m.party = l.party /\ m.round = l.round
<1> DEFINE s == Head(u)
           c == counts(l, s)
           t == takes(c, s)
           m == heard(l, s)
<1>1. s \in Slot /\ DOMAIN l = LeaderFields /\ l.echo \in Seq(Slot)
  BY TailIs DEF InvOf, IsLeader
<1>2. DOMAIN c = LeaderFields /\ AlikeThere(l, c) /\ c.out = l.out /\ c.count = l.count
      /\ c.todo = l.todo /\ c.repeat = l.repeat /\ c.echo = l.echo
  <2>1. \E q : c = [l EXCEPT !.quiet = q]
    BY DEF counts
  <2> HIDE DEF c, s
  <2> QED
    BY <1>1, <2>1 DEF LeaderFields, AlikeThere
<1>3. InvOf(j, c, d, u)
  BY <1>1, <1>2, Adjusted
<1>4. InvOf(j, t, d, Tail(u)) /\ t.party = c.party /\ t.round = c.round
  BY <1>3, Takes
<1>5. m = [t EXCEPT !.echo = IF s = Idle THEN @ ELSE Append(@, s)]
  BY DEF heard
<1> HIDE DEF c, t, m, s
<1>6. DOMAIN t = LeaderFields /\ t.echo \in Seq(Slot)
  BY <1>4 DEF InvOf, IsLeader
<1>7. DOMAIN m = LeaderFields /\ AlikeThere(t, m) /\ m.out = t.out /\ m.count = t.count
      /\ m.todo = t.todo /\ m.repeat = t.repeat
      /\ (m.echo = t.echo \/ m.echo = Append(t.echo, s))
  BY <1>5, <1>6 DEF LeaderFields, AlikeThere
<1>8. m.echo \in Seq(Slot)
  BY <1>1, <1>6, <1>7, AppendIs
<1>9. InvOf(j, m, d, Tail(u))
  BY <1>4, <1>7, <1>8, Adjusted
<1>10. m.party = l.party /\ m.round = l.round
  BY <1>2, <1>4, <1>7 DEF AlikeThere
<1> QED
  BY <1>9, <1>10 DEF m, s

-----------------------------------------------------------------------------
(* A frame of the console: first, where it goes.                           *)

\* What does not change when the console moves on.
Goes(l, m) ==
    /\ DOMAIN m = LeaderFields /\ m.party = l.party /\ m.round = l.round /\ m.view = l.view
    /\ m.mine = l.mine /\ m.theirs = l.theirs /\ m.count = l.count /\ m.repeat = l.repeat
    /\ m.echo = l.echo /\ m.finish = l.finish

\* Both ends have moved at the menu.
LEMMA DecidesMenu ==
    ASSUME NEW j, NEW l, NEW d, NEW u, InvOf(j, l, d, u),
           l.at = "menu", l.choice # "none", l.reply # "none"
    PROVE  InvOf(j, decided(l), d, u) /\ Goes(l, decided(l))
<1> DEFINE m == decided(l)
<1>1. IsLeader(l) /\ l.out \in Seq(SpokenWord) /\ DOMAIN l = LeaderFields /\ ~l.finish
      /\ l.todo \in Nat /\ ~(l.todo > 0)
  BY DEF InvOf, IsLeader, InTrade
<1>2. Choosing(j, l, d, u)
  BY StageAt DEF InvOf
<1>3. /\ l.choice \in {"trade", "cancel"} /\ l.reply \in {"trade", "cancel"}
      /\ Down(l, d, {}) /\ Up(j, u, {}) /\ j.selected
      /\ l.reply = "trade" => /\ ~j.cancelled /\ Promised(j, l) /\ l.theirs = Offered[j.round + 1]
  BY <1>2 DEF Choosing, AtMenu, Promised
<1>4. CASE l.choice = "trade" /\ l.reply = "trade"
  <2> DEFINE w == Select("SET_MONS_TO_TRADE", l.mine)
  <2>1. m = settles(l, "prompt", w)
    BY <1>4 DEF decided
  <2> HIDE DEF m, w
  <2>2. /\ Goes(l, m) /\ m.at = "prompt" /\ m.out = Append(l.out, w) /\ m.todo = l.todo
        /\ m.choice = "none" /\ m.reply = "none"
    BY <1>1, <2>1 DEF settles, says, goes, LeaderFields, Goes
  <2>3. Promised(j, l) /\ l.theirs = Offered[j.round + 1] /\ ~j.cancelled
    BY <1>3, <1>4
  <2>4. l.mine \in DOMAIN LeaderMons
    BY <1>2, <1>4, <2>3 DEF Choosing, SameRound, Promised, InvOf, IsJoiner
  <2>5. w \in TradeWord
    BY <2>4, TradeWords DEF w
  <2>6. IsLeader(m)
    BY <1>1, <2>2, <2>5, PlainSays, SpeaksOn DEF Goes
  <2>7. j.host_party = l.party /\ j.host_party # << >>
    <3>1. l.party \in LeaderParty /\ j.host_party = l.party
      BY <1>1, <2>3 DEF IsLeader, Promised
    <3>2. DOMAIN l.party = DOMAIN LeaderMons
      BY <3>1 DEF LeaderParty
    <3>3. DOMAIN << >> = {}
      OBVIOUS
    <3> QED
      BY <2>4, <3>1, <3>2, <3>3
  <2>8. NoView(l, d)
    BY <1>2, <2>7 DEF Choosing, Shown
  <2>9. /\ \A A : w \in A => Down(m, d, A)
        /\ NoPull(m, d) /\ NoView(m, d) /\ NoneDown(m, d, Ribbons)
    BY <1>1, <1>2, <1>3, <2>2, <2>3, <2>5, <2>8, SaysTrade DEF Choosing, Promised
  <2>10. Down(m, d, {Select("SET_MONS_TO_TRADE", m.mine)})
    BY <2>2, <2>9 DEF w, Goes
  <2>11. Answering(j, m, d, u)
    BY <1>2, <1>3, <2>2, <2>3, <2>10 DEF Answering, Choosing, Still
  <2>12. Promised(j, m) /\ SameRound(j, m) /\ m.mine \in DOMAIN LeaderMons
         /\ m.theirs = Offered[j.round + 1]
    BY <1>2, <2>2, <2>3, <2>4 DEF Goes, Promised, SameRound, Choosing
  <2>13. Agreed(j, m, d, u)
    BY <1>2, <2>2, <2>9, <2>11, <2>12 DEF Agreed, Choosing, Still
  <2> QED
    BY <2>2, <2>6, <2>13 DEF InvOf, Stage, m, Goes
<1>5. ASSUME NEW cmd \in {"PARTNER_CANCEL_TRADE", "PLAYER_CANCEL_TRADE"},
             m = settles(l, "menu", Block(cmd))
      PROVE  InvOf(j, m, d, u) /\ Goes(l, m)
  <2> DEFINE w == Block(cmd)
  <2>1. m = settles(l, "menu", w)
    BY <1>5
  <2> HIDE DEF m, w
  <2>2. /\ Goes(l, m) /\ m.at = "menu" /\ m.out = Append(l.out, w) /\ m.todo = l.todo
        /\ m.choice = "none" /\ m.reply = "none"
    BY <1>1, <2>1 DEF settles, says, goes, LeaderFields, Goes
  <2>3. w \in TradeWord
    BY DEF w, TradeWord, CancelWord
  <2>4. IsLeader(m)
    BY <1>1, <2>2, <2>3, PlainSays, SpeaksOn DEF Goes
  <2>5. /\ \A A : w \in A => Down(m, d, A)
        /\ NoPull(m, d) /\ (NoView(l, d) => NoView(m, d)) /\ (OneView(l, d) => OneView(m, d))
        /\ (NoneDown(l, d, Ribbons) => NoneDown(m, d, Ribbons))
        /\ (OneDown(l, d, Ribbons) => OneDown(m, d, Ribbons))
    BY <1>1, <1>2, <1>3, <2>2, <2>3, SaysTrade DEF Choosing, Goes
  <2>6. Down(m, d, {Block("PARTNER_CANCEL_TRADE"), Block("PLAYER_CANCEL_TRADE")})
    BY <2>5 DEF w
  <2>7. AtMenu(j, m, d, u)
    BY <1>3, <2>2, <2>6 DEF AtMenu
  <2>8. Shown(j, m, d)
    BY <1>2, <2>2, <2>5 DEF Choosing, Shown, Goes
  <2>9. Choosing(j, m, d, u)
    BY <1>2, <2>2, <2>5, <2>7, <2>8 DEF Choosing, Goes, SameRound
  <2> QED
    BY <2>2, <2>4, <2>9 DEF InvOf, Stage, Goes
<1>6. CASE l.choice = "trade" /\ l.reply = "cancel"
  <2>1. m = settles(l, "menu", Block("PARTNER_CANCEL_TRADE"))
    BY <1>6 DEF decided
  <2> QED
    BY <1>5, <2>1
<1>7. CASE l.choice = "cancel" /\ l.reply = "trade"
  <2>1. m = settles(l, "menu", Block("PLAYER_CANCEL_TRADE"))
    BY <1>7 DEF decided
  <2> QED
    BY <1>5, <2>1
<1>8. CASE l.choice = "cancel" /\ l.reply = "cancel"
  <2> DEFINE w == Block("BOTH_CANCEL_TRADE")
  <2>1. m = settles(passes(l, 2), "left", w)
    BY <1>8 DEF decided
  <2> HIDE DEF m, w
  <2>2. /\ Goes(l, m) /\ m.at = "left" /\ m.out = Append(l.out, w) /\ m.todo = 2
        /\ m.choice = "none" /\ m.reply = "none"
    BY <1>1, <2>1 DEF settles, says, goes, passes, LeaderFields, Goes
  <2>3. w \in TradeWord /\ w # Block("CONFIRM_FINISH_TRADE")
    <3>1. Block("BOTH_CANCEL_TRADE").cmd # Block("CONFIRM_FINISH_TRADE").cmd
      BY DEF Block
    <3> QED
      BY <3>1 DEF w, TradeWord, CancelWord
  <2>4. IsLeader(m)
    BY <1>1, <2>2, <2>3, PlainSays, SpeaksOn DEF Goes
  <2>5. NoneDown(m, d, {Block("CONFIRM_FINISH_TRADE")})
    BY <1>1, <1>3, <2>2, <2>3, SaysTrade
  <2>6. Leaving(j, m, d, u)
    BY <1>2, <2>2, <2>5 DEF Leaving, Choosing, Goes, SameRound, Away
  <2> QED
    BY <2>2, <2>4, <2>6 DEF InvOf, Stage, m, Goes
<1> QED
  BY <1>3, <1>4, <1>6, <1>7, <1>8

\* Both ends have answered at the prompt.
LEMMA DecidesPrompt ==
    ASSUME NEW j, NEW l, NEW d, NEW u, InvOf(j, l, d, u),
           l.at = "prompt", l.choice # "none", l.reply # "none"
    PROVE  InvOf(j, decided(l), d, u) /\ Goes(l, decided(l))
<1> DEFINE m == decided(l)
<1>1. IsLeader(l) /\ l.out \in Seq(SpokenWord) /\ DOMAIN l = LeaderFields /\ ~l.finish
      /\ l.todo \in Nat /\ ~(l.todo > 0)
  BY DEF InvOf, IsLeader, InTrade
<1>2. Agreed(j, l, d, u)
  BY StageAt DEF InvOf
<1>3. Answering(j, l, d, u) /\ ~j.anim
  BY <1>2 DEF Agreed, InTrade
<1>4. /\ Down(l, d, {}) /\ Up(j, u, {}) /\ ~j.cancel_wait
      /\ l.reply \in {"yes", "no"}
      /\ l.reply = "yes" => j.host_cursor = l.mine /\ ~j.cancelled
  BY <1>3 DEF Answering
<1>5. CASE l.choice = "yes" /\ l.reply = "yes"
  <2> DEFINE w == Block("START_TRADE")
  <2>1. m = settles(passes(l, 1), "seam", w)
    BY <1>5 DEF decided
  <2> HIDE DEF m, w
  <2>2. /\ Goes(l, m) /\ m.at = "seam" /\ m.out = Append(l.out, w) /\ m.todo = 1
        /\ m.choice = "none" /\ m.reply = "none"
    BY <1>1, <2>1 DEF settles, says, goes, passes, LeaderFields, Goes
  <2>3. w \in TradeWord
    BY DEF w, TradeWord, SwapWord
  <2>4. IsLeader(m)
    BY <1>1, <2>2, <2>3, PlainSays, SpeaksOn DEF Goes
  <2>5. /\ \A A : w \in A => Down(m, d, A)
        /\ NoPull(m, d) /\ NoView(m, d) /\ NoneDown(m, d, Ribbons)
    BY <1>1, <1>2, <1>4, <2>2, <2>3, SaysTrade DEF Agreed
  <2>6. Down(m, d, {Block("START_TRADE")})
    BY <2>5 DEF w
  <2>7. Watching(j, m, d, u)
    BY <1>1, <1>3, <1>4, <2>2, <2>6 DEF Watching, Goes
  <2>8. Agreed(j, m, d, u)
    BY <1>2, <1>4, <1>5, <2>2, <2>5, <2>7 DEF Agreed, Goes, InTrade, Promised, SameRound
  <2> QED
    BY <2>2, <2>4, <2>8 DEF InvOf, Stage, m, Goes
<1>6. CASE ~(l.choice = "yes" /\ l.reply = "yes")
  <2> DEFINE w == Block("PLAYER_CANCEL_TRADE")
  <2>1. m = settles(l, "menu", w)
    BY <1>4, <1>6 DEF decided
  <2> HIDE DEF m, w
  <2>2. /\ Goes(l, m) /\ m.at = "menu" /\ m.out = Append(l.out, w) /\ m.todo = l.todo
        /\ m.choice = "none" /\ m.reply = "none"
    BY <1>1, <2>1 DEF settles, says, goes, LeaderFields, Goes
  <2>3. w \in TradeWord
    BY DEF w, TradeWord, CancelWord
  <2>4. IsLeader(m)
    BY <1>1, <2>2, <2>3, PlainSays, SpeaksOn DEF Goes
  <2>5. /\ \A A : w \in A => Down(m, d, A)
        /\ NoPull(m, d) /\ NoView(m, d) /\ NoneDown(m, d, Ribbons)
    BY <1>1, <1>2, <1>4, <2>2, <2>3, SaysTrade DEF Agreed
  <2>6. Down(m, d, {Block("PARTNER_CANCEL_TRADE"), Block("PLAYER_CANCEL_TRADE")})
    BY <2>5 DEF w
  <2>7. AtMenu(j, m, d, u)
    BY <1>2, <1>4, <2>2, <2>6 DEF AtMenu, Agreed, Promised
  <2>8. Shown(j, m, d)
    BY <1>2, <2>2, <2>5 DEF Agreed, Promised, Shown, Goes, Before
  <2>9. OneDown(m, d, Ribbons)
    BY <2>5, NoneIsOne DEF NoneDown, OneDown
  <2>10. Choosing(j, m, d, u)
    BY <1>2, <1>3, <1>4, <2>2, <2>5, <2>7, <2>8, <2>9 DEF Choosing, Agreed, Goes, SameRound, Still
  <2> QED
    BY <2>2, <2>4, <2>10 DEF InvOf, Stage, m, Goes
<1> QED
  BY <1>5, <1>6

\* What it asks for where it comes to.
LEMMA ArrivesIs ==
    ASSUME NEW l, DOMAIN l = LeaderFields, NEW place
    PROVE  /\ Goes(l, arrives(l, place)) /\ arrives(l, place).at = place
           /\ arrives(l, place).todo = l.todo
           /\ arrives(l, place).choice = l.choice /\ arrives(l, place).reply = l.reply
           /\ place = "card" => arrives(l, place).out = Append(l.out, Req("card"))
           /\ place = "party" => arrives(l, place).out = Append(l.out, Req("200"))
           /\ place = "ribbons" => arrives(l, place).out = Append(l.out, Req("ribbons"))
           /\ place \notin {"card", "party", "ribbons"} => arrives(l, place).out = l.out
<1> DEFINE m == arrives(l, place)
<1>1. /\ place = "card" => m = says(goes(l, place), Req("card"))
      /\ place = "party" => m = says(goes(l, place), Req("200"))
      /\ place = "ribbons" => m = says(goes(l, place), Req("ribbons"))
      /\ place \notin {"card", "party", "ribbons"} => m = goes(l, place)
  BY DEF arrives
<1> HIDE DEF m
<1>2. CASE place = "card"
  BY <1>1, <1>2 DEF says, goes, LeaderFields, Goes, m
<1>3. CASE place = "party"
  BY <1>1, <1>3 DEF says, goes, LeaderFields, Goes, m
<1>4. CASE place = "ribbons"
  BY <1>1, <1>4 DEF says, goes, LeaderFields, Goes, m
<1>5. CASE place \notin {"card", "party", "ribbons"}
  BY <1>1, <1>5 DEF goes, LeaderFields, Goes, m
<1> QED
  BY <1>2, <1>3, <1>4, <1>5

\* It comes to where it asks for the party of the joiner.
LEMMA ComesToParty ==
    ASSUME NEW j, NEW l, NEW d, NEW u, InvOf(j, l, d, u), l.at \in {"seated", "saving"},
           NEW m, Goes(l, m), m.at = "party", m.out = Append(l.out, Req("200"))
    PROVE  Stage(j, m, d, u)
<1>1. l.out \in Seq(SpokenWord) /\ Stage(j, l, d, u)
  BY DEF InvOf, IsLeader
<1>2. Req("200") \in Pull /\ Req("200") \in Watched \ TradeWord
  BY PlainSays, WordsApart DEF Watched
<1>3. /\ \A A : Down(l, d, A) => Down(m, d, A)
      /\ NoPull(l, d) => OnePull(m, d)
      /\ NoView(l, d) => NoView(m, d)
      /\ NoneDown(l, d, Ribbons) => NoneDown(m, d, Ribbons)
  BY <1>1, <1>2, SaysOther
<1>4. ASSUME Apart(j, l, d, u) PROVE Apart(j, m, d, u)
  <2>1. NoPull(l, d) /\ NoParty(j, u)
    BY <1>4 DEF Apart, Asked
  <2>2. Asked(j, m, d, u)
    BY <1>3, <2>1 DEF Asked
  <2>3. Shown(j, m, d)
    BY <1>3, <1>4 DEF Apart, Shown, Before
  <2> QED
    BY <1>3, <1>4, <2>2, <2>3 DEF Apart, Before, Goes, SameRound
<1>5. ASSUME Owing(j, l, d, u) PROVE Owing(j, m, d, u)
  <2>1. l.at = "saving" /\ NoPull(l, d)
    BY <1>5 DEF Owing
  <2> QED
    BY <1>3, <1>5, <2>1 DEF Owing, Goes
<1> QED
  BY <1>1, <1>4, <1>5, StageAt DEF Stage, Before

LEMMA GoesOn ==
    ASSUME NEW j, NEW l, NEW d, NEW u, InvOf(j, l, d, u)
    PROVE  InvOf(j, goes_on(l), d, u) /\ Goes(l, goes_on(l))
<1> DEFINE m == goes_on(l)
<1>1. IsLeader(l) /\ l.out \in Seq(SpokenWord) /\ DOMAIN l = LeaderFields /\ l.todo \in Nat
      /\ Stage(j, l, d, u)
  BY DEF InvOf, IsLeader
<1>2. CASE m = l
  BY <1>1, <1>2 DEF Goes
<1>3. CASE l.at = "seated" /\ l.quiet = SeatIdle
  <2>1. m = arrives(l, "party")
    BY <1>3 DEF goes_on
  <2> HIDE DEF m
  <2>2. Goes(l, m) /\ m.at = "party" /\ m.out = Append(l.out, Req("200")) /\ m.todo = l.todo
        /\ m.choice = l.choice /\ m.reply = l.reply
    BY <1>1, <2>1, ArrivesIs
  <2>3. Stage(j, m, d, u)
    BY <1>3, <2>2, ComesToParty
  <2>4. ~l.finish /\ l.choice = "none" /\ l.reply = "none" /\ ~(l.todo > 0)
    BY <1>1, <1>3 DEF IsLeader, InTrade
  <2>5. IsLeader(m)
    BY <1>1, <2>2, <2>4, PlainSays, SpeaksOn DEF Goes
  <2> QED
    BY <2>2, <2>3, <2>5 DEF InvOf, m, Goes
<1>4. CASE l.at = "partied" /\ l.quiet = Settle
  <2>1. m = arrives(l, "ribbons")
    BY <1>4 DEF goes_on
  <2> HIDE DEF m
  <2>2. Goes(l, m) /\ m.at = "ribbons" /\ m.out = Append(l.out, Req("ribbons")) /\ m.todo = l.todo
        /\ m.choice = l.choice /\ m.reply = l.reply
    BY <1>1, <2>1, ArrivesIs
  <2>3. DownFlows(l, d, m, d)
    BY <1>1, <2>2, PlainSays, SaysPlain
  <2>4. Apart(j, l, d, u)
    BY <1>1, <1>4, StageAt DEF Lent
  <2>5. Apart(j, m, d, u)
    BY <1>4, <2>2, <2>3, <2>4, SameFlows, ApartMoves DEF Goes, Before, Lent
  <2>6. ~l.finish /\ l.choice = "none" /\ l.reply = "none" /\ ~(l.todo > 0)
    BY <1>1, <1>4 DEF IsLeader, InTrade
  <2>7. IsLeader(m)
    BY <1>1, <2>2, <2>6, PlainSays, SpeaksOn DEF Goes
  <2> QED
    BY <2>2, <2>5, <2>7 DEF InvOf, Stage, m, Goes
<1>5. CASE l.at = "room" /\ l.choice = "READY" /\ l.reply = "READY"
  <2>1. m = [passes(goes(l, "seat"), 2) EXCEPT !.choice = "none", !.reply = "none"]
    BY <1>5 DEF goes_on
  <2> HIDE DEF m
  <2>2. Goes(l, m) /\ m.at = "seat" /\ m.out = l.out /\ m.todo = 2
        /\ m.choice = "none" /\ m.reply = "none"
    BY <1>1, <2>1 DEF passes, goes, LeaderFields, Goes
  <2>3. DownFlows(l, d, m, d)
    BY <2>2 DEF DownFlows, NoneDown, OneDown
  <2>4. Apart(j, l, d, u)
    BY <1>1, <1>5, StageAt DEF Before
  <2>5. Apart(j, m, d, u)
    BY <1>5, <2>2, <2>3, <2>4, SameFlows, ApartMoves DEF Goes, Before
  <2>6. ~l.finish
    BY <1>1, <1>5 DEF IsLeader, InTrade
  <2>7. IsLeader(m)
    BY <1>1, <2>2, <2>6 DEF Goes, IsLeader
  <2> QED
    BY <2>2, <2>5, <2>7 DEF InvOf, Stage, m, Goes
<1>6. CASE l.at \in {"menu", "prompt"} /\ l.choice # "none" /\ l.reply # "none"
  <2>1. m = decided(l)
    BY <1>6 DEF goes_on
  <2> QED
    BY <1>6, <2>1, DecidesMenu, DecidesPrompt
<1>7. \/ m = l
      \/ l.at = "seated" /\ l.quiet = SeatIdle
      \/ l.at = "partied" /\ l.quiet = Settle
      \/ l.at = "room" /\ l.choice = "READY" /\ l.reply = "READY"
      \/ l.at \in {"menu", "prompt"} /\ l.choice # "none" /\ l.reply # "none"
  BY DEF goes_on
<1> QED
  BY <1>2, <1>3, <1>4, <1>5, <1>6, <1>7

-----------------------------------------------------------------------------
(* ... and then, what it says.                                             *)

\* A frame without a word that matters.
LEMMA Airs ==
    ASSUME NEW j, NEW l, NEW d, NEW u, InvOf(j, l, d, u), NEW f \in FrameSet,
           f.own \notin Watched, f.own.op = "standby" => f.own.count < l.count
    PROVE  InvOf(j, l, Append(d, f), u)
<1>1. d \in Seq(FrameSet) /\ l.out \in Seq(SpokenWord) /\ Passed(d, l.count)
  BY DEF InvOf, IsLeader
<1>2. owns(Append(d, f)) = Append(owns(d), f.own) /\ Append(d, f) \in Seq(FrameSet)
      /\ f.own \in LeaderWord /\ owns(d) \in Seq(LeaderWord)
  BY <1>1, OwnsAppend, OwnsIs
<1>3. DownFlows(l, d, l, Append(d, f))
  <2>1. \A W : f.own \notin W =>
            /\ NoneIn(owns(d), l.out, << >>, W) => NoneIn(Append(owns(d), f.own), l.out, << >>, W)
            /\ OneIn(owns(d), l.out, << >>, W) => OneIn(Append(owns(d), f.own), l.out, << >>, W)
    BY <1>2, PipeAdd
  <2>2. \A W : W \subseteq Watched => f.own \notin W
    OBVIOUS
  <2> HIDE DEF owns, Watched
  <2> QED
    BY <1>2, <2>1, <2>2 DEF DownFlows, NoneDown, OneDown
<1>4. Stage(j, l, Append(d, f), u)
  BY <1>3, SameFlows, StageKept DEF InvOf
<1>5. Passed(Append(d, f), l.count)
  <2>1. /\ Len(d) \in Nat /\ Len(Append(d, f)) = Len(d) + 1
        /\ \A n \in 1 .. Len(d) : Append(d, f)[n] = d[n]
        /\ Append(d, f)[Len(d) + 1] = f
    BY <1>1, AppendIs
  <2>2. \A n \in 1 .. Len(d) + 1 : n \in 1 .. Len(d) \/ n = Len(d) + 1
    BY <2>1
  <2> QED
    BY <1>1, <2>1, <2>2 DEF Passed
<1> QED
  BY <1>2, <1>4, <1>5 DEF InvOf

\* A word goes out.
LEMMA Spoken ==
    ASSUME NEW j, NEW l, NEW d, NEW u, InvOf(j, l, d, u), l.out # << >>, NEW f \in FrameSet,
           f.own = Head(l.out), NEW m, DOMAIN m = LeaderFields, AlikeThere(l, m), m.out = Tail(l.out),
           m.count = l.count, m.todo = l.todo, m.repeat = l.repeat, m.echo = l.echo
    PROVE  InvOf(j, m, Append(d, f), u)
<1>1. d \in Seq(FrameSet) /\ l.out \in Seq(SpokenWord) /\ Passed(d, l.count) /\ IsLeader(l)
  BY DEF InvOf, IsLeader
<1>2. owns(Append(d, f)) = Append(owns(d), f.own) /\ Append(d, f) \in Seq(FrameSet)
      /\ f.own \in LeaderWord /\ owns(d) \in Seq(LeaderWord)
  BY <1>1, OwnsAppend, OwnsIs
<1>3. l.out \in Seq(LeaderWord) /\ m.out \in Seq(SpokenWord)
      /\ Head(l.out) \in SpokenWord
  <2>1. SpokenWord \subseteq LeaderWord
    BY PlainSays
  <2> HIDE DEF SpokenWord, LeaderWord
  <2>2. l.out \in Seq(LeaderWord)
    BY <1>1, <2>1, SeqDef
  <2> QED
    BY <1>1, <2>2, TailIs
<1>4. DownFlows(l, d, m, Append(d, f))
  <2>1. \A W : /\ NoneIn(owns(d), l.out, << >>, W) =>
                      NoneIn(Append(owns(d), Head(l.out)), Tail(l.out), << >>, W)
               /\ OneIn(owns(d), l.out, << >>, W) =>
                      OneIn(Append(owns(d), Head(l.out)), Tail(l.out), << >>, W)
    BY <1>2, <1>3, PipeSend
  <2> HIDE DEF owns, Watched
  <2> QED
    BY <1>2, <2>1 DEF DownFlows, NoneDown, OneDown
<1>5. Stage(j, m, Append(d, f), u)
  BY <1>4, SameFlows, StageKept DEF InvOf
<1>6. Passed(Append(d, f), l.count)
  <2>1. /\ Len(d) \in Nat /\ Len(Append(d, f)) = Len(d) + 1
        /\ \A n \in 1 .. Len(d) : Append(d, f)[n] = d[n]
        /\ Append(d, f)[Len(d) + 1] = f
    BY <1>1, AppendIs
  <2>2. \A n \in 1 .. Len(d) + 1 : n \in 1 .. Len(d) \/ n = Len(d) + 1
    BY <2>1
  <2>3. f.own.op # "standby"
    <3>1. f.own \in SpokenWord
      BY <1>3
    <3> QED
      BY <3>1, WordKinds DEF SpokenWord
  <2> QED
    BY <1>1, <2>1, <2>2, <2>3 DEF Passed
<1>7. IsLeader(m)
  BY <1>1, <1>3 DEF IsLeader, AlikeThere
<1> QED
  BY <1>2, <1>5, <1>6, <1>7 DEF InvOf

\* A count is passed.
LEMMA Passes ==
    ASSUME NEW j, NEW l, NEW d, NEW u, InvOf(j, l, d, u), AtBarrier(l), NEW r \in Nat
    PROVE  /\ InvOf(j, pass(l, r), d, u) /\ pass(l, r).party = l.party /\ pass(l, r).round = l.round
           /\ pass(l, r).count = l.count + 1 /\ pass(l, r).echo = l.echo
<1> DEFINE p == [l EXCEPT !.count = @ + 1, !.ready = FALSE, !.todo = @ - 1, !.repeat = r, !.write = 0]
           m == pass(l, r)
<1>1. /\ IsLeader(l) /\ l.out = << >> /\ DOMAIN l = LeaderFields /\ l.todo \in Nat /\ l.todo > 0
      /\ l.count \in Nat /\ Stage(j, l, d, u) /\ BarOk(j.bar, l.count) /\ Passed(d, l.count)
      /\ l.out \in Seq(SpokenWord) /\ d \in Seq(FrameSet) /\ l.round \in Nat /\ l.party \in LeaderParty
      /\ l.echo \in Seq(Slot)
  BY DEF InvOf, IsLeader, AtBarrier, Silent
<1>2. /\ DOMAIN p = LeaderFields /\ AlikeThere(l, p) /\ p.out = l.out /\ p.count = l.count + 1
      /\ p.todo = l.todo - 1 /\ p.repeat = r /\ p.echo = l.echo
  BY <1>1 DEF LeaderFields, AlikeThere
<1>3. l.at \in {"warp0", "warp1", "seat", "seam", "saving", "left"} /\ l.choice = "none" /\ l.reply = "none"
  BY <1>1 DEF IsLeader
<1>4. m = IF p.todo = 0 THEN arrives(p, AfterBarrier[p.at]) ELSE p
  BY DEF pass
<1> HIDE DEF p, m
<1>5. IsLeader(p)
  BY <1>1, <1>2, <1>3 DEF IsLeader, AlikeThere
<1>6. BarOk(j.bar, p.count) /\ Passed(d, p.count)
  <2>1. BarOk(j.bar, p.count)
    BY <1>1, <1>2 DEF BarOk
  <2>2. Passed(d, p.count)
    <3> SUFFICES ASSUME NEW i \in 1 .. Len(d), d[i].own.op = "standby"
                 PROVE  d[i].own.count < p.count
      BY DEF Passed
    <3>1. d[i].own.count < l.count
      BY <1>1 DEF Passed
    <3>2. d[i].own.count \in Nat
      BY <1>1, OwnsIs, WordIs
    <3> QED
      BY <1>1, <1>2, <3>1, <3>2
  <2> QED
    BY <2>1, <2>2
<1>7. DownFlows(l, d, p, d)
  BY <1>2 DEF DownFlows, NoneDown, OneDown
<1>8. Stage(j, p, d, u)
  BY <1>1, <1>2, <1>7, SameFlows, StageKept
<1>9. InvOf(j, p, d, u)
  BY <1>5, <1>6, <1>8 DEF InvOf
<1>10. CASE p.todo # 0
  BY <1>2, <1>4, <1>9, <1>10 DEF m, AlikeThere
<1>11. CASE p.todo = 0
  <2> DEFINE place == AfterBarrier[p.at]
  <2>1. m = arrives(p, place)
    BY <1>4, <1>11
  <2>2. /\ l.at = "warp0" => place = "card"
        /\ l.at = "warp1" => place = "room"
        /\ l.at = "seat" => place = "seated"
        /\ l.at = "seam" => place = "anim"
        /\ l.at = "saving" => place = "party"
        /\ l.at = "left" => place = "field"
    BY <1>2 DEF AfterBarrier, AlikeThere
  <2> HIDE DEF place
  <2>3. /\ Goes(p, m) /\ m.at = place /\ m.todo = p.todo /\ m.choice = p.choice /\ m.reply = p.reply
        /\ place = "card" => m.out = Append(p.out, Req("card"))
        /\ place = "party" => m.out = Append(p.out, Req("200"))
        /\ place \notin {"card", "party", "ribbons"} => m.out = p.out
    BY <1>2, <2>1, ArrivesIs
  <2>4. p.at = l.at /\ p.out \in Seq(SpokenWord) /\ p.choice = "none" /\ p.reply = "none"
    BY <1>1, <1>2, <1>3 DEF AlikeThere
  <2>5. Stage(j, m, d, u)
    <3>1. CASE l.at = "warp0"
      <4>1. DownFlows(p, d, m, d)
        BY <2>2, <2>3, <2>4, <3>1, PlainSays, SaysPlain
      <4>2. Apart(j, p, d, u)
        BY <1>8, <2>4, <3>1, StageAt DEF Before
      <4>3. Apart(j, m, d, u)
        BY <2>2, <2>3, <2>4, <3>1, <4>1, <4>2, SameFlows, ApartMoves DEF Goes, Before
      <4> QED
        BY <4>3 DEF Stage
    <3>2. CASE l.at \in {"warp1", "seat"}
      <4>1. DownFlows(p, d, m, d)
        BY <2>2, <2>3, <3>2 DEF DownFlows, NoneDown, OneDown
      <4>2. Apart(j, p, d, u)
        BY <1>8, <2>4, <3>2, StageAt DEF Before
      <4>3. Apart(j, m, d, u)
        BY <2>2, <2>3, <2>4, <3>2, <4>1, <4>2, SameFlows, ApartMoves DEF Goes, Before
      <4> QED
        BY <4>3 DEF Stage
    <3>3. CASE l.at = "seam"
      <4>1. m.out = p.out
        BY <2>2, <2>3, <3>3
      <4>2. Agreed(j, p, d, u)
        BY <1>8, <2>4, <3>3, StageAt
      <4>3. DownFlows(p, d, m, d)
        BY <4>1 DEF DownFlows, NoneDown, OneDown
      <4>4. /\ \A A : Down(p, d, A) => Down(m, d, A)
            /\ NoPull(p, d) => NoPull(m, d)
            /\ NoView(p, d) => NoView(m, d)
            /\ NoneDown(p, d, Ribbons) => NoneDown(m, d, Ribbons)
        BY <4>3, DownKept
      <4>5. Watching(j, m, d, u)
        BY <2>3, <2>4, <3>3, <4>2, <4>4 DEF Agreed, Watching, Goes, InTrade
      <4>6. Agreed(j, m, d, u)
        BY <2>2, <2>3, <2>4, <3>3, <4>2, <4>4, <4>5 DEF Agreed, Goes, SameRound, Promised, InTrade
      <4> QED
        BY <4>6 DEF Stage
    <3>4. CASE l.at = "saving"
      BY <1>9, <2>2, <2>3, <2>4, <3>4, ComesToParty
    <3>5. CASE l.at = "left"
      <4>1. DownFlows(p, d, m, d)
        BY <2>2, <2>3, <3>5 DEF DownFlows, NoneDown, OneDown
      <4>2. Leaving(j, p, d, u)
        BY <1>8, <2>4, <3>5, StageAt DEF Away
      <4>3. Leaving(j, m, d, u)
        BY <2>2, <2>3, <3>5, <4>1, <4>2, LeavingMoves DEF Goes, Away
      <4> QED
        BY <4>3 DEF Stage
    <3> QED
      BY <1>3, <3>1, <3>2, <3>3, <3>4, <3>5
  <2>6. m.out \in Seq(SpokenWord)
    <3>1. \E w \in SpokenWord : m.out = Append(p.out, w) \/ m.out = p.out
      BY <1>3, <2>2, <2>3, PlainSays
    <3> QED
      BY <2>4, <3>1, AppendIs
  <2>7. IsLeader(m)
    <3>1. m.finish => m.at \in InTrade
      BY <1>3, <1>5, <2>2, <2>3, <2>4 DEF Goes, IsLeader, InTrade
    <3>2. m.todo = 0 /\ m.choice = "none" /\ m.reply = "none"
      BY <1>11, <2>3, <2>4
    <3> QED
      BY <1>5, <2>3, <2>6, <3>1, <3>2 DEF Goes, IsLeader
  <2>8. m.count = p.count /\ m.party = p.party /\ m.round = p.round /\ m.echo = p.echo
    BY <2>3 DEF Goes
  <2>9. InvOf(j, m, d, u)
    BY <1>9, <2>5, <2>7, <2>8 DEF InvOf
  <2> QED
    BY <1>2, <2>8, <2>9 DEF m, AlikeThere
<1> QED
  BY <1>10, <1>11

LEMMA MurmursIs ==
    ASSUME NEW l
    PROVE  murmurs(l).l = l /\ murmurs(l).own \in PlainWord
<1>1. murmurs(l).l = l /\ murmurs(l).own \in {Key("EMPTY"), Idle}
  BY DEF murmurs, Frame
<1> QED
  BY <1>1, PlainSays

LEMMA SpeaksIs ==
    ASSUME NEW l, DOMAIN l = LeaderFields
    PROVE  LET f == speaks(l)
           IN  /\ DOMAIN f.l = LeaderFields /\ AlikeThere(l, f.l) /\ f.l.count = l.count
               /\ f.l.todo = l.todo /\ f.l.repeat = l.repeat /\ f.l.echo = l.echo
               /\ \/ f.own = Head(l.out) /\ f.l.out = Tail(l.out)
                  \/ f.own = Busy /\ f.l.out = l.out
<1> DEFINE f == speaks(l)
<1>1. \/ f = Frame([l EXCEPT !.out = Tail(@), !.left = 0], Head(l.out))
      \/ \E n : f = Frame([l EXCEPT !.left = n], Busy)
  BY DEF speaks
<1>2. CASE f = Frame([l EXCEPT !.out = Tail(@), !.left = 0], Head(l.out))
  <2>1. f.l = [l EXCEPT !.out = Tail(@), !.left = 0] /\ f.own = Head(l.out)
    BY <1>2 DEF Frame
  <2> HIDE DEF f
  <2>2. /\ DOMAIN f.l = LeaderFields /\ AlikeThere(l, f.l) /\ f.l.count = l.count
        /\ f.l.todo = l.todo /\ f.l.repeat = l.repeat /\ f.l.echo = l.echo /\ f.l.out = Tail(l.out)
    BY <2>1 DEF LeaderFields, AlikeThere
  <2> QED
    BY <2>1, <2>2 DEF f
<1>3. ASSUME NEW n, f = Frame([l EXCEPT !.left = n], Busy)
      PROVE  /\ DOMAIN f.l = LeaderFields /\ AlikeThere(l, f.l) /\ f.l.count = l.count
             /\ f.l.todo = l.todo /\ f.l.repeat = l.repeat /\ f.l.echo = l.echo /\ f.l.out = l.out
             /\ f.own = Busy
  <2>1. f.l = [l EXCEPT !.left = n] /\ f.own = Busy
    BY <1>3 DEF Frame
  <2> HIDE DEF f
  <2> QED
    BY <2>1 DEF LeaderFields, AlikeThere
<1> QED
  BY <1>1, <1>2, <1>3

\* Every frame the console can make.
LEMMA Ticks ==
    ASSUME NEW j, NEW l, NEW d, NEW u, InvOf(j, l, d, u), NEW f \in frames(l), NEW g,
           g.own = f.own, f.own \in LeaderWord => g \in FrameSet
    PROVE  /\ InvOf(j, f.l, Append(d, g), u) /\ f.l.party = l.party /\ f.l.round = l.round
           /\ f.l.echo = l.echo
<1> DEFINE k == goes_on(l)
<1>1. InvOf(j, k, d, u) /\ Goes(l, k)
  BY GoesOn
<1>2. \/ k.repeat > 0 /\ f = Frame([k EXCEPT !.repeat = @ - 1], Standby(k.count - 1))
      \/ AtBarrier(k) /\ \E r \in 0 .. Repeats : f = Frame(pass(k, r), Standby(k.count))
      \/ AtBarrier(k) /\ f = Frame(pass(k, 0), Idle)
      \/ AtBarrier(k) /\ f = murmurs([k EXCEPT !.write = @ + 1])
      \/ Silent(k) /\ f = murmurs(k)
      \/ ~Silent(k) /\ f = speaks(k)
  <2>1. k.repeat \in Nat
    BY <1>1 DEF InvOf, IsLeader
  <2>2. /\ k.repeat > 0 => frames(l) = {Frame([k EXCEPT !.repeat = @ - 1], Standby(k.count - 1))}
        /\ k.repeat = 0 /\ AtBarrier(k) => frames(l) =
                {Frame(pass(k, r), Standby(k.count)) : r \in 0 .. Repeats}
                \cup (IF k.at \in {"warp0", "warp1"} THEN {Frame(pass(k, 0), Idle)} ELSE {})
                \cup (IF k.at = "saving" /\ k.write < SaveWrite
                       THEN {murmurs([k EXCEPT !.write = @ + 1])} ELSE {})
        /\ k.repeat = 0 /\ ~AtBarrier(k) => frames(l) = IF Silent(k) THEN {murmurs(k)} ELSE {speaks(k)}
    BY DEF frames
  <2> HIDE DEF k
  <2>3. CASE k.repeat > 0
    BY <2>2, <2>3
  <2>4. CASE k.repeat = 0 /\ AtBarrier(k)
    <3>1. \/ f \in {Frame(pass(k, r), Standby(k.count)) : r \in 0 .. Repeats}
          \/ f = Frame(pass(k, 0), Idle)
          \/ f = murmurs([k EXCEPT !.write = @ + 1])
      BY <2>2, <2>4
    <3> QED
      BY <2>4, <3>1
  <2>5. CASE k.repeat = 0 /\ ~AtBarrier(k)
    BY <2>2, <2>5
  <2> QED
    BY <2>1, <2>3, <2>4, <2>5
<1> HIDE DEF k
<1>3. /\ IsLeader(k) /\ DOMAIN k = LeaderFields /\ k.repeat \in Nat /\ k.count \in Nat
      /\ k.repeat > 0 => k.count > 0
      /\ k.echo \in Seq(Slot)
  BY <1>1 DEF InvOf, IsLeader
<1>4. k.party = l.party /\ k.round = l.round /\ k.echo = l.echo
  BY <1>1 DEF Goes
<1>5. /\ \A n \in Nat : Standby(n) \in LeaderWord /\ Standby(n) \notin Watched
                        /\ Standby(n).op = "standby" /\ Standby(n).count = n
      /\ \A w \in PlainWord : w \in LeaderWord /\ w \notin Watched /\ w.op # "standby"
      /\ Idle \in PlainWord /\ Busy \in PlainWord
  <2>1. \A n \in Nat : Standby(n) \in Standbys /\ Standby(n).op = "standby" /\ Standby(n).count = n
    BY DEF Standbys, Standby
  <2>2. \A w \in PlainWord : w.op # "standby"
    BY WordKinds
  <2> QED
    BY <2>1, <2>2, WordsApart, PlainSays
<1>6. CASE k.repeat > 0 /\ f = Frame([k EXCEPT !.repeat = @ - 1], Standby(k.count - 1))
  <2>1. f.l = [k EXCEPT !.repeat = @ - 1] /\ f.own = Standby(k.count - 1)
    BY <1>6 DEF Frame
  <2>2. DOMAIN f.l = LeaderFields /\ AlikeThere(k, f.l) /\ f.l.out = k.out /\ f.l.count = k.count
        /\ f.l.todo = k.todo /\ f.l.repeat = k.repeat - 1 /\ f.l.echo = k.echo
    BY <1>3, <2>1 DEF LeaderFields, AlikeThere
  <2>3. InvOf(j, f.l, d, u)
    BY <1>1, <1>3, <1>6, <2>2, Adjusted
  <2>4. g \in FrameSet /\ g.own \notin Watched /\ (g.own.op = "standby" => g.own.count < f.l.count)
    BY <1>3, <1>5, <1>6, <2>1, <2>2
  <2> QED
    BY <1>4, <2>2, <2>3, <2>4, Airs DEF AlikeThere
<1>7. ASSUME NEW r \in Nat, AtBarrier(k), f.l = pass(k, r), f.own \in {Standby(k.count), Idle}
      PROVE  /\ InvOf(j, f.l, Append(d, g), u) /\ f.l.party = l.party /\ f.l.round = l.round
             /\ f.l.echo = l.echo
  <2>1. /\ InvOf(j, f.l, d, u) /\ f.l.party = k.party /\ f.l.round = k.round
        /\ f.l.count = k.count + 1 /\ f.l.echo = k.echo
    BY <1>1, <1>7, Passes
  <2>2. g \in FrameSet /\ g.own \notin Watched /\ (g.own.op = "standby" => g.own.count < f.l.count)
    BY <1>3, <1>5, <1>7, <2>1
  <2> QED
    BY <1>4, <2>1, <2>2, Airs
<1>8. CASE AtBarrier(k) /\ \E r \in 0 .. Repeats : f = Frame(pass(k, r), Standby(k.count))
  <2>1. PICK r \in 0 .. Repeats : f = Frame(pass(k, r), Standby(k.count))
    BY <1>8
  <2>2. f.l = pass(k, r) /\ f.own = Standby(k.count)
    BY <2>1 DEF Frame
  <2>3. r \in Nat
    OBVIOUS
  <2> QED
    BY <1>7, <1>8, <2>2, <2>3
<1>9. CASE AtBarrier(k) /\ f = Frame(pass(k, 0), Idle)
  <2>1. f.l = pass(k, 0) /\ f.own = Idle
    BY <1>9 DEF Frame
  <2> QED
    BY <1>7, <1>9, <2>1
<1>10. ASSUME NEW m, f = murmurs(m), m = k \/ m = [k EXCEPT !.write = @ + 1]
       PROVE  /\ InvOf(j, f.l, Append(d, g), u) /\ f.l.party = l.party /\ f.l.round = l.round
              /\ f.l.echo = l.echo
  <2>1. f.l = m /\ f.own \in PlainWord
    BY <1>10, MurmursIs
  <2>2. DOMAIN m = LeaderFields /\ AlikeThere(k, m) /\ m.out = k.out /\ m.count = k.count
        /\ m.todo = k.todo /\ m.repeat = k.repeat /\ m.echo = k.echo
    BY <1>3, <1>10 DEF LeaderFields, AlikeThere
  <2>3. InvOf(j, m, d, u)
    BY <1>1, <1>3, <2>2, Adjusted
  <2>4. g \in FrameSet /\ g.own \notin Watched /\ g.own.op # "standby"
    BY <1>5, <2>1
  <2>5. InvOf(j, m, Append(d, g), u)
    BY <2>3, <2>4, Airs
  <2> QED
    BY <1>4, <2>1, <2>2, <2>5 DEF AlikeThere
<1>11. CASE ~Silent(k) /\ f = speaks(k)
  <2>1. /\ DOMAIN f.l = LeaderFields /\ AlikeThere(k, f.l) /\ f.l.count = k.count
        /\ f.l.todo = k.todo /\ f.l.repeat = k.repeat /\ f.l.echo = k.echo
        /\ \/ f.own = Head(k.out) /\ f.l.out = Tail(k.out)
           \/ f.own = Busy /\ f.l.out = k.out
    BY <1>3, <1>11, SpeaksIs
  <2>2. f.l.party = l.party /\ f.l.round = l.round /\ f.l.echo = l.echo
    BY <1>4, <2>1 DEF AlikeThere
  <2>3. CASE f.own = Head(k.out) /\ f.l.out = Tail(k.out)
    <3>1. k.out \in Seq(SpokenWord) /\ k.out # << >>
      BY <1>3, <1>11 DEF IsLeader, Silent
    <3>2. g \in FrameSet
      BY <2>3, <3>1, TailIs, PlainSays
    <3> QED
      BY <1>1, <2>1, <2>2, <2>3, <3>1, <3>2, Spoken
  <2>4. CASE f.own = Busy /\ f.l.out = k.out
    <3>1. InvOf(j, f.l, d, u)
      BY <1>1, <1>3, <2>1, <2>4, Adjusted
    <3>2. g \in FrameSet /\ g.own \notin Watched /\ g.own.op # "standby"
      BY <1>5, <2>4
    <3> QED
      BY <2>2, <3>1, <3>2, Airs
  <2> QED
    BY <2>1, <2>3, <2>4
<1> QED
  BY <1>2, <1>6, <1>8, <1>9, <1>10, <1>11

\* The party and the round of the console, and the words under way to the joiner.
LEMMA TickStep ==
    ASSUME InvOf(joiner, leader, downlink, uplink), leaderTick
    PROVE  /\ InvOf(joiner, leader', downlink', uplink)
           /\ leader'.party = leader.party /\ leader'.round = leader.round
<1> DEFINE echo(f) == IF f.l.echo = << >> THEN Idle ELSE Head(f.l.echo)
           g(f)    == [own |-> f.own, echo |-> echo(f)]
<1>1. PICK f \in frames(leader) :
          /\ leader' = [f.l EXCEPT !.echo = IF @ = << >> THEN @ ELSE Tail(@)]
          /\ downlink' = Append(downlink, g(f))
  BY DEF leaderTick
<1>2. f.own \in LeaderWord => g(f) \in FrameSet
  <2>1. f.l.echo \in Seq(Slot)
    <3>1. leader.echo \in Seq(Slot)
      BY DEF InvOf, IsLeader
    <3> DEFINE h == [own |-> f.own, echo |-> Idle]
    <3>2. h.own = f.own /\ (f.own \in LeaderWord => h \in FrameSet)
      BY SlotsApart DEF FrameSet
    <3> HIDE DEF h
    <3>3. f.l.echo = leader.echo
      BY <3>2, Ticks
    <3> QED
      BY <3>1, <3>3
  <2>2. echo(f) \in Slot
    BY <2>1, TailIs, SlotsApart
  <2> QED
    BY <2>2 DEF FrameSet
<1>3. g(f).own = f.own
  OBVIOUS
<1> HIDE DEF g
<1>4. /\ InvOf(joiner, f.l, downlink', uplink) /\ f.l.party = leader.party /\ f.l.round = leader.round
      /\ f.l.echo = leader.echo
  BY <1>1, <1>2, <1>3, Ticks
<1>5. DOMAIN f.l = LeaderFields /\ f.l.echo \in Seq(Slot)
  BY <1>4 DEF InvOf, IsLeader
<1>6. /\ DOMAIN leader' = LeaderFields /\ AlikeThere(f.l, leader') /\ leader'.out = f.l.out
      /\ leader'.count = f.l.count /\ leader'.todo = f.l.todo /\ leader'.repeat = f.l.repeat
      /\ leader'.echo = IF f.l.echo = << >> THEN << >> ELSE Tail(f.l.echo)
  BY <1>1, <1>5 DEF LeaderFields, AlikeThere
<1>7. leader'.echo \in Seq(Slot)
  BY <1>5, <1>6, TailIs
<1>8. InvOf(joiner, leader', downlink', uplink)
  BY <1>4, <1>6, <1>7, Adjusted
<1> QED
  BY <1>4, <1>6, <1>8 DEF AlikeThere

-----------------------------------------------------------------------------
(* The player of the console moves.                                        *)

\* The commit of the console: it gives the Pokemon that the joiner has on its screen.
Gives(j, l, m) ==
    LET place == Offered[j.round + 1]
    IN  /\ l.round = j.round /\ m.round = l.round + 1
        /\ l.mine \in DOMAIN LeaderMons /\ place \in DOMAIN JoinerMons
        /\ m.party = [l.party EXCEPT ![l.mine] = j.party[place]]
        /\ j.host_party[j.host_cursor] = l.party[l.mine]

LEMMA OfferedIs == \A n \in Nat : n < Trades => Offered[n + 1] \in DOMAIN JoinerMons
<1> SUFFICES ASSUME NEW n \in Nat, n < Trades PROVE Offered[n + 1] \in DOMAIN JoinerMons
  OBVIOUS
<1>1. Offered \in Seq(DOMAIN JoinerMons)
  BY JoinerAssumption
<1>2. n + 1 \in 1 .. Len(Offered)
  BY <1>1, LenProperties DEF Trades
<1> QED
  BY <1>1, <1>2, ElementOfSeq

\* Two Pokemon change hands.
LEMMA CommitsFirst ==
    ASSUME NEW j, NEW l, NEW d, NEW u, InvOf(j, l, d, u), l.at = "anim", l.finish
    PROVE  LET m == says(swapped(l), Block("CONFIRM_FINISH_TRADE"))
           IN  InvOf(j, m, d, u) /\ Gives(j, l, m)
<1> DEFINE m == says(swapped(l), Block("CONFIRM_FINISH_TRADE"))
<1>1. /\ IsLeader(l) /\ l.out \in Seq(SpokenWord) /\ DOMAIN l = LeaderFields
      /\ l.choice = "none" /\ l.reply = "none" /\ l.party \in LeaderParty /\ l.round \in Nat
      /\ IsJoiner(j) /\ j.party \in JoinerParty /\ j.round \in Nat
      /\ l.count \in Nat /\ l.repeat \in Nat /\ (l.repeat > 0 => l.count > 0) /\ l.echo \in Seq(Slot)
  BY DEF InvOf, IsLeader, IsJoiner
<1>2. /\ DOMAIN m = LeaderFields /\ m.at = "saving" /\ m.todo = SaveRounds
      /\ m.party = [l.party EXCEPT ![l.mine] = l.view[l.theirs]] /\ m.round = l.round + 1
      /\ m.out = Append(l.out, Block("CONFIRM_FINISH_TRADE")) /\ m.count = l.count
      /\ m.repeat = l.repeat /\ m.echo = l.echo /\ m.finish = FALSE
      /\ m.choice = l.choice /\ m.reply = l.reply
  BY <1>1 DEF says, swapped, passes, goes, LeaderFields
<1> HIDE DEF m
<1>3. Agreed(j, l, d, u)
  BY StageAt DEF InvOf
<1>4. /\ SameRound(j, l) /\ Promised(j, l) /\ l.theirs = Offered[j.round + 1]
      /\ l.mine \in DOMAIN LeaderMons
      /\ NoPull(l, d) /\ NoParty(j, u) /\ NoView(l, d) /\ NoneDown(l, d, Ribbons)
      /\ j.host_cursor = l.mine /\ ~j.cancel_wait /\ ~j.cancelled
      /\ Down(l, d, {}) /\ Up(j, u, {}) /\ ~j.anim /\ j.finish_sent
  BY <1>3 DEF Agreed, Watching
<1>5. l.theirs \in DOMAIN JoinerMons
  BY <1>1, <1>4, OfferedIs DEF Promised
<1>6. l.view[l.theirs] = j.party[l.theirs] /\ l.view[l.theirs] \in Mon
  BY <1>1, <1>4, <1>5 DEF Promised, JoinerParty
<1>7. m.party \in LeaderParty
  BY <1>1, <1>2, <1>6 DEF LeaderParty
<1>8. Gives(j, l, m)
  BY <1>2, <1>4, <1>5, <1>6 DEF Gives, SameRound, Promised
<1>9. Block("CONFIRM_FINISH_TRADE") \in TradeWord
  BY DEF TradeWord, SwapWord
<1>10. /\ Down(m, d, {Block("CONFIRM_FINISH_TRADE")})
       /\ NoPull(m, d) /\ NoView(m, d) /\ NoneDown(m, d, Ribbons)
  BY <1>1, <1>2, <1>4, <1>9, SaysTrade
<1>11. OnePull(m, d)
  BY <1>10, NoneIsOne DEF NoPull, OnePull, NoneDown, OneDown
<1>12. j.host_party \in LeaderParty /\ j.round < Trades /\ j.selected /\ j.lp_sent /\ j.party_sent >= 1
  BY <1>1, <1>4 DEF Promised
<1>13. Owing(j, m, d, u)
  BY <1>2, <1>4, <1>10, <1>11, <1>12 DEF Owing, SameRound, Still
<1>14. m.out \in Seq(SpokenWord)
  BY <1>1, <1>2, <1>9, PlainSays, AppendIs
<1>15. SaveRounds \in Nat
  BY LeaderAssumption
<1>16. IsLeader(m)
  BY <1>1, <1>2, <1>7, <1>14, <1>15 DEF IsLeader
<1> QED
  BY <1>2, <1>8, <1>13, <1>16 DEF InvOf, Stage, m

\* A choice at the menu, or an answer at the prompt.
LEMMA Chooses ==
    ASSUME NEW j, NEW l, NEW d, NEW u, InvOf(j, l, d, u), NEW m,
           DOMAIN m = LeaderFields, m.at = l.at, m.out = l.out, m.party = l.party, m.view = l.view,
           m.theirs = l.theirs, m.reply = l.reply, m.finish = l.finish, m.round = l.round,
           m.count = l.count, m.todo = l.todo, m.repeat = l.repeat, m.echo = l.echo,
           \/ /\ l.at = "menu" /\ m.choice \in {"trade", "cancel"}
              /\ m.choice = "trade" /\ l.round # Trades => m.mine \in DOMAIN LeaderMons
           \/ l.at = "prompt" /\ m.mine = l.mine
    PROVE  InvOf(j, m, d, u)
<1>1. IsLeader(l) /\ Stage(j, l, d, u)
  BY DEF InvOf
<1>2. DownFlows(l, d, m, d)
  BY DEF DownFlows, NoneDown, OneDown
<1>3. /\ \A A : Down(l, d, A) => Down(m, d, A)
      /\ NoPull(l, d) => NoPull(m, d)
      /\ NoView(l, d) => NoView(m, d)
      /\ OneView(l, d) => OneView(m, d)
      /\ NoneDown(l, d, Ribbons) => NoneDown(m, d, Ribbons)
      /\ OneDown(l, d, Ribbons) => OneDown(m, d, Ribbons)
  BY <1>2, DownKept
<1>4. IsLeader(m)
  BY <1>1 DEF IsLeader
<1>5. ASSUME l.at = "menu" PROVE Stage(j, m, d, u)
  <2>1. Choosing(j, l, d, u)
    BY <1>1, <1>5, StageAt
  <2>2. Promised(j, l) => Promised(j, m)
    BY DEF Promised
  <2>3. AtMenu(j, m, d, u)
    BY <1>3, <2>1, <2>2 DEF Choosing, AtMenu
  <2>4. Shown(j, m, d)
    BY <1>3, <2>1 DEF Choosing, Shown
  <2>5. m.choice \in {"none", "trade", "cancel"} /\ (m.choice = "trade" /\ m.round # Trades => m.mine \in DOMAIN LeaderMons)
    BY <1>5
  <2> QED
    BY <1>3, <1>5, <2>1, <2>3, <2>4, <2>5 DEF Choosing, SameRound, Stage
<1>6. ASSUME l.at = "prompt" PROVE Stage(j, m, d, u)
  <2>1. Agreed(j, l, d, u) /\ m.mine = l.mine
    BY <1>1, <1>6, StageAt
  <2>2. Answering(j, l, d, u) /\ ~j.anim
    BY <1>6, <2>1 DEF Agreed, InTrade
  <2>3. Answering(j, m, d, u)
    BY <1>3, <2>1, <2>2 DEF Answering
  <2>4. Promised(j, m) /\ SameRound(j, m)
    BY <2>1 DEF Agreed, Promised, SameRound
  <2> QED
    BY <1>3, <1>6, <2>1, <2>2, <2>3, <2>4 DEF Agreed, Stage
<1> QED
  BY <1>4, <1>5, <1>6 DEF InvOf

\* What its player may do, place by place.
Moved(l, m) ==
    \/ l.at = "room" /\ m = says([l EXCEPT !.choice = "READY"], Key("READY"))
    \/ l.at = "anim" /\ l.finish /\ m = says(swapped(l), Block("CONFIRM_FINISH_TRADE"))
    \/ l.at = "field" /\ m = says(goes(l, "exiting"), Key("EXIT"))
    \/ l.at = "menu" /\ l.round = Trades /\ \E c \in {"trade", "cancel"} :
          m = [l EXCEPT !.choice = c] \/ m = [l EXCEPT !.choice = c, !.extra = @ + 1]
    \/ l.at = "menu" /\ \E s \in DOMAIN LeaderMons : m = [l EXCEPT !.choice = "trade", !.mine = s]
    \/ l.at = "menu" /\ m = [l EXCEPT !.choice = "cancel", !.extra = @ + 1]
    \/ l.at = "prompt" /\ \E c : m = [l EXCEPT !.choice = c] \/ m = [l EXCEPT !.choice = c, !.extra = @ + 1]

LEMMA MovesAre == ASSUME NEW l, NEW m \in Moves(l) PROVE Moved(l, m)
<1> USE DEF Moved
<1>1. \A c : again(l, c) \subseteq {[l EXCEPT !.choice = c, !.extra = @ + 1]}
  BY DEF again
<1>2. l.at \in {"room", "menu", "prompt", "anim", "field"}
  BY DEF Moves
<1>3. CASE l.at = "room"
  BY <1>3 DEF Moves
<1>4. CASE l.at = "anim"
  BY <1>4 DEF Moves
<1>5. CASE l.at = "field"
  BY <1>5 DEF Moves
<1>6. CASE l.at = "prompt"
  <2>1. m \in moves(l, "yes") \cup again(l, "no")
    BY <1>6 DEF Moves
  <2> QED
    BY <1>1, <1>6, <2>1 DEF moves
<1>7. CASE l.at = "menu"
  <2>1. CASE l.round = Trades
    <3>1. m \in moves(l, "cancel") \cup again(l, "trade")
      BY <1>7, <2>1 DEF Moves
    <3> QED
      BY <1>1, <1>7, <2>1, <3>1 DEF moves
  <2>2. CASE l.round # Trades
    <3>1. \/ m \in {[l EXCEPT !.choice = "trade", !.mine = s] : s \in DOMAIN LeaderMons}
          \/ m \in again(l, "cancel")
      BY <1>7, <2>2 DEF Moves
    <3> QED
      BY <1>1, <1>7, <3>1
  <2> QED
    BY <2>1, <2>2
<1> HIDE DEF Moved
<1> QED
  BY <1>2, <1>3, <1>4, <1>5, <1>6, <1>7

LEMMA MoveStep ==
    ASSUME NEW j, NEW l, NEW d, NEW u, InvOf(j, l, d, u), NEW m \in Moves(l), l.todo = 0
    PROVE  /\ InvOf(j, m, d, u)
           /\ (m.party = l.party /\ m.round = l.round) \/ Gives(j, l, m)
<1>1. /\ IsLeader(l) /\ l.out \in Seq(SpokenWord) /\ DOMAIN l = LeaderFields /\ l.todo \in Nat
      /\ Stage(j, l, d, u) /\ l.count \in Nat
  BY DEF InvOf, IsLeader
<1>2. CASE l.at = "room" /\ m = says([l EXCEPT !.choice = "READY"], Key("READY"))
  <2>1. /\ DOMAIN m = LeaderFields /\ m.at = "room" /\ m.out = Append(l.out, Key("READY"))
        /\ m.party = l.party /\ m.round = l.round /\ m.view = l.view /\ m.count = l.count
        /\ m.repeat = l.repeat /\ m.echo = l.echo /\ m.todo = l.todo /\ m.finish = l.finish
        /\ m.reply = l.reply
    BY <1>1, <1>2 DEF says, LeaderFields
  <2>2. DownFlows(l, d, m, d)
    BY <1>1, <2>1, PlainSays, SaysPlain
  <2>3. Apart(j, l, d, u)
    BY <1>1, <1>2, StageAt DEF Before
  <2>4. Apart(j, m, d, u)
    BY <1>2, <2>1, <2>2, <2>3, SameFlows, ApartMoves DEF Before
  <2>5. ~l.finish /\ l.reply \in {"none", "READY"}
    BY <1>1, <1>2 DEF IsLeader, InTrade
  <2>6. IsLeader(m)
    BY <1>1, <2>1, <2>5, PlainSays, SpeaksOn
  <2> QED
    BY <2>1, <2>4, <2>6 DEF InvOf, Stage
<1>3. CASE l.at = "anim" /\ l.finish /\ m = says(swapped(l), Block("CONFIRM_FINISH_TRADE"))
  BY <1>3, CommitsFirst
<1>4. CASE l.at = "field" /\ m = says(goes(l, "exiting"), Key("EXIT"))
  <2>1. /\ DOMAIN m = LeaderFields /\ m.at = "exiting" /\ m.out = Append(l.out, Key("EXIT"))
        /\ m.party = l.party /\ m.round = l.round /\ m.count = l.count
        /\ m.repeat = l.repeat /\ m.echo = l.echo /\ m.todo = l.todo /\ m.finish = l.finish
        /\ m.reply = l.reply /\ m.choice = l.choice
    BY <1>1, <1>4 DEF says, goes, LeaderFields
  <2>2. DownFlows(l, d, m, d)
    BY <1>1, <2>1, PlainSays, SaysPlain
  <2>3. Leaving(j, l, d, u)
    BY <1>1, <1>4, StageAt DEF Away
  <2>4. Leaving(j, m, d, u)
    BY <2>1, <2>2, <2>3, LeavingMoves DEF Away
  <2>5. ~l.finish /\ l.choice = "none" /\ l.reply = "none"
    BY <1>1, <1>4 DEF IsLeader, InTrade
  <2>6. IsLeader(m)
    BY <1>1, <2>1, <2>5, PlainSays, SpeaksOn
  <2> QED
    BY <2>1, <2>4, <2>6 DEF InvOf, Stage
<1>5. ASSUME NEW c \in {"trade", "cancel"}, l.at = "menu", l.round = Trades,
             m = [l EXCEPT !.choice = c] \/ m = [l EXCEPT !.choice = c, !.extra = @ + 1]
      PROVE  InvOf(j, m, d, u) /\ m.party = l.party /\ m.round = l.round
  <2>1. /\ DOMAIN m = LeaderFields /\ m.at = l.at /\ m.out = l.out /\ m.party = l.party /\ m.view = l.view
        /\ m.theirs = l.theirs /\ m.reply = l.reply /\ m.finish = l.finish /\ m.round = l.round
        /\ m.count = l.count /\ m.todo = l.todo /\ m.repeat = l.repeat /\ m.echo = l.echo
        /\ m.choice = c
    BY <1>1, <1>5 DEF LeaderFields
  <2> QED
    BY <1>5, <2>1, Chooses
<1>6. ASSUME NEW s \in DOMAIN LeaderMons, l.at = "menu", m = [l EXCEPT !.choice = "trade", !.mine = s]
      PROVE  InvOf(j, m, d, u) /\ m.party = l.party /\ m.round = l.round
  <2>1. /\ DOMAIN m = LeaderFields /\ m.at = l.at /\ m.out = l.out /\ m.party = l.party /\ m.view = l.view
        /\ m.theirs = l.theirs /\ m.reply = l.reply /\ m.finish = l.finish /\ m.round = l.round
        /\ m.count = l.count /\ m.todo = l.todo /\ m.repeat = l.repeat /\ m.echo = l.echo
        /\ m.choice = "trade" /\ m.mine = s
    BY <1>1, <1>6 DEF LeaderFields
  <2> QED
    BY <1>6, <2>1, Chooses
<1>7. CASE l.at = "menu" /\ m = [l EXCEPT !.choice = "cancel", !.extra = @ + 1]
  <2>1. /\ DOMAIN m = LeaderFields /\ m.at = l.at /\ m.out = l.out /\ m.party = l.party /\ m.view = l.view
        /\ m.theirs = l.theirs /\ m.reply = l.reply /\ m.finish = l.finish /\ m.round = l.round
        /\ m.count = l.count /\ m.todo = l.todo /\ m.repeat = l.repeat /\ m.echo = l.echo
        /\ m.choice = "cancel"
    BY <1>1, <1>7 DEF LeaderFields
  <2> QED
    BY <1>7, <2>1, Chooses
<1>8. ASSUME NEW c, l.at = "prompt",
             m = [l EXCEPT !.choice = c] \/ m = [l EXCEPT !.choice = c, !.extra = @ + 1]
      PROVE  InvOf(j, m, d, u) /\ m.party = l.party /\ m.round = l.round
  <2>1. /\ DOMAIN m = LeaderFields /\ m.at = l.at /\ m.out = l.out /\ m.party = l.party /\ m.view = l.view
        /\ m.theirs = l.theirs /\ m.reply = l.reply /\ m.finish = l.finish /\ m.round = l.round
        /\ m.count = l.count /\ m.todo = l.todo /\ m.repeat = l.repeat /\ m.echo = l.echo
        /\ m.mine = l.mine
    BY <1>1, <1>8 DEF LeaderFields
  <2> QED
    BY <1>8, <2>1, Chooses
<1>9. CASE l.at = "menu" /\ l.round = Trades /\ \E c \in {"trade", "cancel"} :
              m = [l EXCEPT !.choice = c] \/ m = [l EXCEPT !.choice = c, !.extra = @ + 1]
  BY <1>5, <1>9
<1>10. CASE l.at = "menu" /\ \E s \in DOMAIN LeaderMons : m = [l EXCEPT !.choice = "trade", !.mine = s]
  BY <1>6, <1>10
<1>11. CASE l.at = "prompt" /\ \E c : m = [l EXCEPT !.choice = c] \/ m = [l EXCEPT !.choice = c, !.extra = @ + 1]
  BY <1>8, <1>11
<1>12. Moved(l, m)
  BY MovesAre
<1> QED
  BY <1>2, <1>3, <1>4, <1>7, <1>9, <1>10, <1>11, <1>12, Zenon DEF Moved

-----------------------------------------------------------------------------
(* What the joiner does without effect on a trade.                         *)

\* What no step of the joiner but a commit touches.
Keeps(j, k, l) ==
    /\ k.party = j.party /\ k.round = j.round
    /\ l.round # j.round => k.host_party = j.host_party /\ k.host_cursor = j.host_cursor

Steady(j, k, c) ==
    /\ DOMAIN k = JoinerFields /\ Alike(j, k)
    /\ k.push = j.push /\ k.sender = j.sender /\ k.leaving = j.leaving
    /\ BarOk(j.bar, c) => BarOk(k.bar, c)

LEMMA KeepsOn ==
    /\ \A j, l : Keeps(j, j, l)
    /\ \A j, k, m, l : Keeps(j, k, l) /\ Keeps(k, m, l) => Keeps(j, m, l)
    /\ \A j, k, l : Alike(j, k) => Keeps(j, k, l)
BY DEF Keeps, Alike

LEMMA SteadyOn ==
    /\ \A j, c : DOMAIN j = JoinerFields => Steady(j, j, c)
    /\ \A j, k, m, c : Steady(j, k, c) /\ Steady(k, m, c) => Steady(j, m, c)
BY DEF Steady, Alike

LEMMA SteadyKeeps ==
    ASSUME NEW j, NEW l, NEW d, NEW u, InvOf(j, l, d, u), NEW k, Steady(j, k, l.count)
    PROVE  InvOf(k, l, d, u) /\ Keeps(j, k, l) /\ k.sender = j.sender /\ k.push = j.push
<1>1. pend(k) = pend(j)
  BY DEF Steady, pend, sending
<1>2. UpFlows(j, u, k, u)
  BY <1>1 DEF Steady, UpFlows, NoneUp, OneUp
<1>3. Stage(k, l, d, u)
  BY <1>2, SameFlows, StageKept DEF InvOf, Steady
<1>4. IsJoiner(k)
  BY DEF InvOf, Steady, IsJoiner, Alike
<1> QED
  BY <1>3, <1>4, KeepsOn DEF InvOf, Steady

LEMMA BarSteps ==
    ASSUME NEW c \in Nat, NEW b, BarOk(b, c)
    PROVE  /\ BarOk(reset_to_idle(b), c)
           /\ BarOk(initiate(b), c)
           /\ \A n \in Nat : n < c => BarOk(on_host_standby(b, n), c)
           /\ BarOk(on_host_close(b, 0), c)
           /\ BarOk(observe_silence(b), c)
           /\ BarOk(emitted(b), c)
<1>1. DOMAIN b = BarFields /\ b.local \in Nat /\ b.local <= c
      /\ (b.mode = "STANDBY" /\ ~b.initiated => b.local < c)
  BY DEF BarOk
<1>2. BarOk(reset_to_idle(b), c)
  BY <1>1 DEF BarOk, BarFields, reset_to_idle, idled
<1>3. BarOk(initiate(b), c)
  BY <1>1 DEF BarOk, BarFields, initiate
<1>4. ASSUME NEW n \in Nat, n < c PROVE BarOk(on_host_standby(b, n), c)
  <2> DEFINE h == [b EXCEPT !.host_count = n, !.silent = 0]
  <2>1. /\ DOMAIN h = BarFields /\ h.local = b.local /\ h.mode = b.mode /\ h.initiated = b.initiated
    BY <1>1 DEF BarFields
  <2>2. on_host_standby(b, n) = IF ~(b.initiated /\ b.mode = "STANDBY") THEN mirrored(h, n)
                                ELSE IF n = b.local THEN [idled(h) EXCEPT !.local = @ + 1] ELSE h
    BY DEF on_host_standby
  <2> HIDE DEF h
  <2>3. BarOk(h, c)
    BY <1>1, <2>1 DEF BarOk
  <2>4. BarOk(mirrored(h, n), c)
    BY <1>4, <2>1, <2>3 DEF BarOk, BarFields, mirrored
  <2>5. n = b.local => BarOk([idled(h) EXCEPT !.local = @ + 1], c)
    BY <1>1, <1>4, <2>1 DEF BarOk, BarFields, idled
  <2> QED
    BY <2>2, <2>3, <2>4, <2>5
<1>5. BarOk(on_host_close(b, 0), c)
  BY <1>1 DEF BarOk, BarFields, on_host_close
<1>6. BarOk(observe_silence(b), c)
  <2>1. b.mode = "STANDBY" => BarOk(timed_out(b), c)
    BY <1>1 DEF BarOk, BarFields, timed_out, idled
  <2>2. BarOk([b EXCEPT !.silent = @ + 1], c)
    BY <1>1 DEF BarOk, BarFields
  <2> QED
    BY <2>1, <2>2 DEF observe_silence
<1>7. BarOk(emitted(b), c)
  BY <1>1 DEF BarOk, BarFields, emitted
<1> QED
  BY <1>2, <1>3, <1>4, <1>5, <1>6, <1>7

\* The barrier may move, and so may the fields that no trade knows of.
Plain(j, k) ==
    /\ DOMAIN k = JoinerFields /\ Alike(j, k)
    /\ k.push = j.push /\ k.sender = j.sender /\ k.leaving = j.leaving

LEMMA PlainIsSteady ==
    ASSUME NEW j, NEW k, Plain(j, k), NEW c, BarOk(j.bar, c) => BarOk(k.bar, c)
    PROVE  Steady(j, k, c)
BY DEF Plain, Steady

-----------------------------------------------------------------------------
(* feed_in_frame, up to the word of the console itself.                    *)

LEMMA Looks ==
    ASSUME NEW j, DOMAIN j = JoinerFields, NEW f, NEW c \in Nat,
           f.own.op = "standby" => f.own.count \in Nat /\ f.own.count < c
    PROVE  /\ Steady(j, mirror_landed(j, f), c)
           /\ Steady(j, scan_entry_slots(j, f), c)
           /\ Steady(j, scan_exit_room(j, f), c)
           /\ Steady(j, scan_own_reflection(j, f), c)
           /\ Steady(j, observe_barriers(j, f), c)
           /\ Steady(j, end_save_chain(j, f), c)
<1>1. Steady(j, mirror_landed(j, f), c)
  BY DEF mirror_landed, JoinerFields, Steady, Alike
<1>2. Steady(j, scan_entry_slots(j, f), c)
  <2> DEFINE k == [j EXCEPT !.in_seat = TRUE, !.bar = IF j.in_seat THEN @ ELSE reset_to_idle(@),
                            !.host_ready = f.own.key = "READY"]
  <2>1. Plain(j, k) /\ (k.bar = j.bar \/ k.bar = reset_to_idle(j.bar))
    BY DEF JoinerFields, Plain, Alike
  <2>2. scan_entry_slots(j, f) = j \/ scan_entry_slots(j, f) = k
    BY DEF scan_entry_slots
  <2> HIDE DEF k
  <2> QED
    BY <2>1, <2>2, BarSteps, PlainIsSteady, SteadyOn
<1>3. Steady(j, scan_exit_room(j, f), c)
  BY DEF scan_exit_room, JoinerFields, Steady, Alike
<1>4. Steady(j, scan_own_reflection(j, f), c)
  BY DEF scan_own_reflection, JoinerFields, Steady, Alike
<1>5. Steady(j, observe_barriers(j, f), c)
  <2> DEFINE k == observe_barriers(j, f)
             b == CASE f.own.op = "standby" -> on_host_standby(j.bar, f.own.count)
                    [] f.own.op = "close"   -> on_host_close(j.bar, 0)
                    [] OTHER                -> observe_silence(j.bar)
  <2>1. k = [j EXCEPT !.bar = b]
    BY DEF observe_barriers
  <2>2. BarOk(j.bar, c) => BarOk(b, c)
    BY BarSteps
  <2> HIDE DEF k, b
  <2>3. Plain(j, k) /\ k.bar = b
    BY <2>1 DEF JoinerFields, Plain, Alike
  <2> QED
    BY <2>2, <2>3, PlainIsSteady DEF k
<1>6. Steady(j, end_save_chain(j, f), c)
  <2> DEFINE k == [j EXCEPT !.save = FALSE, !.bar = reset_to_idle(@)]
  <2>1. Plain(j, k) /\ k.bar = reset_to_idle(j.bar)
    BY DEF JoinerFields, Plain, Alike
  <2>2. end_save_chain(j, f) = j \/ end_save_chain(j, f) = k
    BY DEF end_save_chain
  <2> HIDE DEF k
  <2> QED
    BY <2>1, <2>2, BarSteps, PlainIsSteady, SteadyOn
<1> QED
  BY <1>1, <1>2, <1>3, <1>4, <1>5, <1>6

\* What it has looked at before it takes the word.
looks(j, f) ==
    end_save_chain(
        observe_barriers(
            scan_own_reflection(
                scan_exit_room(scan_entry_slots(mirror_landed(j, f), f), f), f), f), f)

LEMMA LooksSteady ==
    ASSUME NEW j, DOMAIN j = JoinerFields, NEW f, NEW c \in Nat,
           f.own.op = "standby" => f.own.count \in Nat /\ f.own.count < c
    PROVE  Steady(j, looks(j, f), c)
<1> DEFINE k1 == mirror_landed(j, f)
           k2 == scan_entry_slots(k1, f)
           k3 == scan_exit_room(k2, f)
           k4 == scan_own_reflection(k3, f)
           k5 == observe_barriers(k4, f)
           k6 == end_save_chain(k5, f)
<1>1. Steady(j, k1, c) /\ DOMAIN k1 = JoinerFields
  BY Looks DEF Steady
<1> HIDE DEF k1
<1>2. Steady(k1, k2, c) /\ DOMAIN k2 = JoinerFields
  BY <1>1, Looks DEF Steady
<1> HIDE DEF k2
<1>3. Steady(k2, k3, c) /\ DOMAIN k3 = JoinerFields
  BY <1>2, Looks DEF Steady
<1> HIDE DEF k3
<1>4. Steady(k3, k4, c) /\ DOMAIN k4 = JoinerFields
  BY <1>3, Looks DEF Steady
<1> HIDE DEF k4
<1>5. Steady(k4, k5, c) /\ DOMAIN k5 = JoinerFields
  BY <1>4, Looks DEF Steady
<1> HIDE DEF k5
<1>6. Steady(k5, k6, c)
  BY <1>5, Looks
<1>7. Steady(j, k6, c)
  <2> HIDE DEF k6
  <2> QED
    BY <1>1, <1>2, <1>3, <1>4, <1>5, <1>6, SteadyOn
<1> QED
  BY <1>7 DEF looks, k1, k2, k3, k4, k5, k6

-----------------------------------------------------------------------------
(* The joiner takes the word: first, a request.                            *)

\* A word that nobody waits for is gone.
LEMMA WordGone ==
    ASSUME NEW j, NEW l, NEW d, NEW u, InvOf(j, l, d, u), d # << >>
    PROVE  /\ InvOf(j, l, Tail(d), u) /\ Tail(d) \in Seq(FrameSet) /\ Passed(Tail(d), l.count)
           /\ Head(d).own \in LeaderWord
           /\ Head(d).own.op = "standby" => Head(d).own.count \in Nat /\ Head(d).own.count < l.count
<1>1. d \in Seq(FrameSet) /\ Passed(d, l.count) /\ Stage(j, l, d, u)
  BY DEF InvOf
<1>2. /\ Tail(d) \in Seq(FrameSet) /\ Len(Tail(d)) = Len(d) - 1
      /\ \A n \in 1 .. Len(Tail(d)) : n + 1 \in 1 .. Len(d) /\ Tail(d)[n] = d[n + 1]
      /\ Head(d) = d[1] /\ 1 \in 1 .. Len(d)
  BY <1>1, OwnsTail
<1>3. Passed(Tail(d), l.count)
  BY <1>1, <1>2 DEF Passed
<1>4. Head(d).own \in LeaderWord
  BY <1>1, <1>2, OwnsIs
<1>5. Head(d).own.op = "standby" => Head(d).own.count \in Nat /\ Head(d).own.count < l.count
  <2>1. Head(d).own.op = "standby" => Head(d).own.count \in Nat
    BY <1>4, WordIs
  <2>2. Head(d).own.op = "standby" => Head(d).own.count < l.count
    BY <1>1, <1>2 DEF Passed
  <2> QED
    BY <2>1, <2>2
<1>6. Stage(j, l, Tail(d), u)
  BY <1>1, DownLands, SameFlows, StageKept
<1> QED
  BY <1>2, <1>3, <1>4, <1>5, <1>6 DEF InvOf

\* A block is being sent where none was.
LEMMA UpSends ==
    ASSUME NEW j, NEW k, NEW u, NEW b, pend(j) = << >>, pend(k) = <<b>>, k.push = j.push
    PROVE  /\ \A W : NoneUp(j, u, W) => OneUp(k, u, W)
           /\ \A W : b \notin W => /\ NoneUp(j, u, W) => NoneUp(k, u, W)
                                   /\ OneUp(j, u, W) => OneUp(k, u, W)
BY ShortSeqs, FreeIsSingle DEF NoneUp, OneUp, NoneIn, OneIn

\* One waits where none did.
LEMMA UpWaits ==
    ASSUME NEW j, NEW k, NEW u, NEW b, pend(k) = pend(j), j.push = << >>, k.push = <<b>>
    PROVE  /\ \A W : NoneUp(j, u, W) => OneUp(k, u, W)
           /\ \A W : b \notin W => /\ NoneUp(j, u, W) => NoneUp(k, u, W)
                                   /\ OneUp(j, u, W) => OneUp(k, u, W)
BY ShortSeqs, FreeIsSingle DEF NoneUp, OneUp, NoneIn, OneIn

LEMMA Begins ==
    ASSUME NEW j, DOMAIN j = JoinerFields, NEW b \in JoinerBlock
    PROVE  LET k == begin_send(j, b)
           IN  /\ DOMAIN k = JoinerFields /\ Alike(j, k) /\ k.push = j.push /\ k.leaving = j.leaving
               /\ k.bar = j.bar /\ k.sender = [block |-> b, left |-> BlockFrames]
               /\ pend(k) = <<b>>
<1> DEFINE k == begin_send(j, b)
<1>1. k = [j EXCEPT !.sender = [block |-> b, left |-> BlockFrames], !.mirrored = FALSE]
  BY DEF begin_send
<1> HIDE DEF k
<1>2. /\ DOMAIN k = JoinerFields /\ Alike(j, k) /\ k.push = j.push /\ k.leaving = j.leaving
      /\ k.bar = j.bar /\ k.sender = [block |-> b, left |-> BlockFrames]
  BY <1>1 DEF JoinerFields, Alike
<1>3. BlockFrames \in Nat \ {0}
  BY JoinerAssumption
<1>4. pend(k) = <<b>>
  <2>1. [block |-> b, left |-> BlockFrames] # << >>
    <3>1. "block" \in DOMAIN [block |-> b, left |-> BlockFrames] /\ DOMAIN << >> = {}
      OBVIOUS
    <3> QED
      BY <3>1
  <2> QED
    BY <1>2, <1>3, <2>1 DEF pend, sending
<1> QED
  BY <1>2, <1>4 DEF k

\* A block that no trade knows of.
LEMMA Supplies ==
    ASSUME NEW j, NEW l, NEW d, NEW u, InvOf(j, l, d, u), ~sending(j),
           NEW k, Plain(j, k), k.bar = j.bar, NEW cmd \in {"card", "ribbons"}
    PROVE  InvOf(begin_send(k, Block(cmd)), l, d, u) /\ Keeps(j, begin_send(k, Block(cmd)), l)
<1> DEFINE b == Block(cmd)
           m == begin_send(k, b)
<1>1. b \in JoinerBlock /\ \A W : W \subseteq Told => b \notin W
  <2>1. b \in PlainBlock /\ b # Block("link_player")
    BY DEF PlainBlock, Block
  <2>2. b \in Filler /\ b \in JoinerBlock
    BY <2>1 DEF Filler, JoinerBlock
  <2> QED
    BY <2>2, SlotsApart
<1>2. pend(j) = << >>
  BY DEF pend
<1> HIDE DEF b, m
<1>3. /\ DOMAIN m = JoinerFields /\ Alike(j, m) /\ m.push = j.push /\ m.leaving = j.leaving
      /\ m.bar = j.bar /\ m.sender = [block |-> b, left |-> BlockFrames] /\ pend(m) = <<b>>
  <2>1. DOMAIN k = JoinerFields
    BY DEF Plain
  <2>2. /\ DOMAIN m = JoinerFields /\ Alike(k, m) /\ m.push = k.push /\ m.leaving = k.leaving
        /\ m.bar = k.bar /\ m.sender = [block |-> b, left |-> BlockFrames] /\ pend(m) = <<b>>
    BY <1>1, <2>1, Begins DEF m
  <2> QED
    BY <2>2 DEF Plain, Alike
<1>4. UpFlows(j, u, m, u)
  BY <1>1, <1>2, <1>3, UpSends DEF UpFlows
<1>5. Stage(m, l, d, u)
  BY <1>3, <1>4, SameFlows, StageKept DEF InvOf
<1>6. BlockFrames \in Nat
  BY JoinerAssumption
<1>7. IsJoiner(m)
  BY <1>1, <1>3, <1>6 DEF InvOf, IsJoiner, Alike
<1> QED
  BY <1>3, <1>5, <1>7, KeepsOn DEF InvOf, b, m

\* What answers a size-200 pull.
pulled(j) ==
    IF ~j.lp_sent THEN Block("link_player")
    ELSE IF j.party_sent = 0 THEN Mons(j.party) ELSE Block("zero")

LEMMA PulledIs ==
    ASSUME NEW j, j.party \in JoinerParty
    PROVE  /\ pulled(j) \in JoinerBlock /\ pulled(j) \notin Move
           /\ pulled(j) \notin OurParty \ {Mons(j.party)}
           /\ ~j.lp_sent \/ j.party_sent # 0 => pulled(j) \notin OurParty
<1>1. Block("link_player") \in PlainBlock /\ Block("zero") \in PlainBlock /\ Mons(j.party) \in OurParty
  BY DEF PlainBlock, OurParty
<1> HIDE DEF Block, Mons, PlainBlock, OurParty, Move
<1> QED
  BY <1>1, SlotsApart DEF pulled, JoinerBlock

LEMMA Pulls ==
    ASSUME NEW j, DOMAIN j = JoinerFields, j.party \in JoinerParty, ~sending(j)
    PROVE  LET k == pull_200(j)
           IN  /\ DOMAIN k = JoinerFields /\ k.lp_sent
               /\ k.party_sent = IF j.lp_sent THEN j.party_sent + 1 ELSE j.party_sent
               /\ k.party = j.party /\ k.host_party = j.host_party /\ k.host_cursor = j.host_cursor
               /\ k.ribbons = j.ribbons /\ k.selected = j.selected /\ k.anim = j.anim
               /\ k.finish_sent = j.finish_sent /\ k.cancel_wait = j.cancel_wait
               /\ (k.cancelled <=> j.cancelled) /\ k.round = j.round
               /\ k.pending_confirm = j.pending_confirm /\ k.push = j.push
               /\ k.leaving = j.leaving /\ k.bar = j.bar
               /\ k.sender = [block |-> pulled(j), left |-> BlockFrames]
               /\ pend(j) = << >> /\ pend(k) = <<pulled(j)>>
<1> DEFINE k == pull_200(j)
           s == [j EXCEPT !.seat_over = @ \/ j.in_seat]
           t == IF ~j.lp_sent THEN [s EXCEPT !.lp_sent = TRUE] ELSE [s EXCEPT !.party_sent = @ + 1]
<1>1. k = begin_send(t, pulled(j))
  BY DEF pull_200, pulled
<1>2. /\ DOMAIN s = JoinerFields /\ Alike(j, s) /\ s.push = j.push /\ s.leaving = j.leaving
      /\ s.bar = j.bar
  BY DEF JoinerFields, Alike
<1> HIDE DEF k, s
<1>3. /\ DOMAIN t = JoinerFields
      /\ t.lp_sent = (IF j.lp_sent THEN s.lp_sent ELSE TRUE)
      /\ t.party_sent = IF j.lp_sent THEN s.party_sent + 1 ELSE s.party_sent
      /\ t.party = s.party /\ t.host_party = s.host_party /\ t.host_cursor = s.host_cursor
      /\ t.ribbons = s.ribbons /\ t.selected = s.selected /\ t.anim = s.anim
      /\ t.finish_sent = s.finish_sent /\ t.cancel_wait = s.cancel_wait
      /\ (t.cancelled <=> s.cancelled) /\ t.round = s.round
      /\ t.pending_confirm = s.pending_confirm /\ t.push = s.push
      /\ t.leaving = s.leaving /\ t.bar = s.bar
  BY <1>2 DEF JoinerFields
<1> HIDE DEF t
<1>4. /\ DOMAIN k = JoinerFields /\ Alike(t, k) /\ k.push = t.push /\ k.leaving = t.leaving
      /\ k.bar = t.bar /\ k.sender = [block |-> pulled(j), left |-> BlockFrames]
      /\ pend(k) = <<pulled(j)>>
  BY <1>1, <1>3, PulledIs, Begins
<1>5. pend(j) = << >>
  BY DEF pend
<1> QED
  BY <1>2, <1>3, <1>4, <1>5 DEF Alike, k

\* The LinkPlayer the first time, then the party, then an empty block.
LEMMA HearsPull ==
    ASSUME NEW j, NEW l, NEW d, NEW u, InvOf(j, l, d, u), d # << >>, Head(d).own \in Pull, ~sending(j)
    PROVE  InvOf(pull_200(j), l, Tail(d), u) /\ Keeps(j, pull_200(j), l)
<1> DEFINE k == pull_200(j)
           b == pulled(j)
           e == Tail(d)
<1>1. /\ IsJoiner(j) /\ DOMAIN j = JoinerFields /\ j.party \in JoinerParty /\ j.party_sent \in Nat
      /\ d \in Seq(FrameSet) /\ Stage(j, l, d, u)
  BY DEF InvOf, IsJoiner
<1>2. /\ DOMAIN k = JoinerFields /\ k.lp_sent
      /\ k.party_sent = IF j.lp_sent THEN j.party_sent + 1 ELSE j.party_sent
      /\ k.party = j.party /\ k.host_party = j.host_party /\ k.host_cursor = j.host_cursor
      /\ k.ribbons = j.ribbons /\ k.selected = j.selected /\ k.anim = j.anim
      /\ k.finish_sent = j.finish_sent /\ k.cancel_wait = j.cancel_wait
      /\ (k.cancelled <=> j.cancelled) /\ k.round = j.round
      /\ k.pending_confirm = j.pending_confirm /\ k.push = j.push
      /\ k.leaving = j.leaving /\ k.bar = j.bar
      /\ k.sender = [block |-> b, left |-> BlockFrames]
      /\ pend(j) = << >> /\ pend(k) = <<b>>
  BY <1>1, Pulls
<1>3. /\ b \in JoinerBlock /\ b \notin Move /\ b \notin OurParty \ {Mons(j.party)}
      /\ ~j.lp_sent \/ j.party_sent # 0 => b \notin OurParty
  BY <1>1, PulledIs
<1> HIDE DEF k, b, e
<1>4. /\ \A W : NoneUp(j, u, W) => OneUp(k, u, W)
      /\ \A W : b \notin W => /\ NoneUp(j, u, W) => NoneUp(k, u, W)
                              /\ OneUp(j, u, W) => OneUp(k, u, W)
  BY <1>2, UpSends
<1>5. \A A : Up(j, u, A) => Up(k, u, A)
  BY <1>3, <1>4 DEF Up
<1>6. NoParty(j, u) => OneParty(k, u)
  <2>1. NoParty(j, u) => NoneUp(j, u, OurParty \ {Mons(j.party)})
    BY PipeWithin DEF NoParty, NoneUp
  <2> QED
    BY <1>2, <1>3, <1>4, <2>1 DEF NoParty, OneParty
<1>7. ~j.lp_sent \/ j.party_sent # 0 => (NoParty(j, u) => NoParty(k, u))
  BY <1>3, <1>4 DEF NoParty
<1>8. /\ \A A : Down(l, d, A) => Down(l, e, A)
      /\ NoView(l, d) => NoView(l, e)
      /\ OneView(l, d) => OneView(l, e)
      /\ NoneDown(l, d, Ribbons) => NoneDown(l, e, Ribbons)
      /\ OnePull(l, d) => OnePull(l, e)
      /\ NoneDown(l, d, {Block("CONFIRM_FINISH_TRADE")}) => NoneDown(l, e, {Block("CONFIRM_FINISH_TRADE")})
  BY <1>1, DownLands, DownKept DEF e
<1>9. ~NoPull(l, d) /\ (OnePull(l, d) => NoPull(l, e))
  BY <1>1, DownLands DEF NoPull, OnePull, e
<1>10. Stage(k, l, e, u)
  <2>1. CASE Apart(j, l, d, u)
    <3>1. Asked(j, l, d, u)
      BY <2>1 DEF Apart
    <3>2. \/ l.at = "link" /\ ~j.lp_sent /\ OnePull(l, d) /\ NoParty(j, u)
          \/ l.at = "party" /\ OnePull(l, d) /\ NoParty(j, u)
      BY <1>9, <3>1 DEF Asked
    <3>3. Asked(k, l, e, u)
      BY <1>2, <1>6, <1>7, <1>9, <3>2 DEF Asked
    <3>4. Shown(k, l, e)
      BY <1>2, <1>8, <2>1 DEF Apart, Shown
    <3>5. Apart(k, l, e, u)
      BY <1>2, <1>5, <1>8, <2>1, <3>3, <3>4 DEF Apart, SameRound, Still
    <3> QED
      BY <3>5 DEF Stage
  <2>2. CASE Choosing(j, l, d, u) \/ Agreed(j, l, d, u)
    BY <1>9, <2>2 DEF Choosing, Agreed
  <2>3. CASE Owing(j, l, d, u)
    <3>1. j.lp_sent /\ j.party_sent # 0 /\ j.party_sent + 1 >= 1
      BY <1>1, <2>3 DEF Owing
    <3>2. NoParty(k, u)
      BY <1>7, <2>3, <3>1 DEF Owing
    <3>3. Owing(k, l, e, u)
      BY <1>2, <1>5, <1>8, <1>9, <2>3, <3>1, <3>2 DEF Owing, Still
    <3> QED
      BY <3>3 DEF Stage
  <2>4. CASE Leaving(j, l, d, u)
    BY <1>2, <1>8, <2>4 DEF Leaving, SameRound, Stage
  <2> QED
    BY <1>1, <2>1, <2>2, <2>3, <2>4 DEF Stage
<1>11. BlockFrames \in Nat
  BY JoinerAssumption
<1>12. k.party_sent \in Nat
  BY <1>1, <1>2
<1>13. IsJoiner(k)
  BY <1>1, <1>2, <1>3, <1>11, <1>12 DEF IsJoiner
<1>14. Keeps(j, k, l)
  BY <1>2 DEF Keeps
<1>15. e \in Seq(FrameSet) /\ Passed(e, l.count)
  BY WordGone DEF e
<1> QED
  BY <1>2, <1>10, <1>13, <1>14, <1>15 DEF InvOf, k, e

LEMMA HearsReq ==
    ASSUME NEW j, NEW l, NEW d, NEW u, InvOf(j, l, d, u), d # << >>, Head(d).own.op = "req"
    PROVE  /\ InvOf(on_req(j, Head(d).own.of), l, Tail(d), u)
           /\ Keeps(j, on_req(j, Head(d).own.of), l)
<1> DEFINE w == Head(d).own
           e == Tail(d)
<1>1. InvOf(j, l, e, u) /\ w \in LeaderWord
  BY WordGone
<1>2. (w \in Pull /\ w.of = "200") \/ w.of = "card" \/ w.of = "ribbons"
  BY <1>1, WordIs
<1>3. DOMAIN j = JoinerFields
  BY DEF InvOf, IsJoiner
<1>4. CASE sending(j)
  <2>1. on_req(j, w.of) = j
    BY <1>4 DEF on_req
  <2> QED
    BY <1>1, <2>1, KeepsOn
<1>5. CASE ~sending(j) /\ w \in Pull /\ w.of = "200"
  <2>1. on_req(j, w.of) = pull_200(j)
    BY <1>5 DEF on_req
  <2> QED
    BY <1>5, <2>1, HearsPull
<1>6. CASE ~sending(j) /\ w.of = "card"
  <2>1. on_req(j, w.of) = begin_send([j EXCEPT !.card_supplied = TRUE], Block("card"))
    BY <1>6 DEF on_req
  <2>2. Plain(j, [j EXCEPT !.card_supplied = TRUE]) /\ [j EXCEPT !.card_supplied = TRUE].bar = j.bar
    BY <1>3 DEF Plain, Alike, JoinerFields
  <2> QED
    BY <1>1, <1>6, <2>1, <2>2, Supplies
<1>7. CASE ~sending(j) /\ w.of = "ribbons"
  <2>1. on_req(j, w.of) = begin_send(j, Block("ribbons"))
    BY <1>7 DEF on_req
  <2>2. Plain(j, j)
    BY <1>3 DEF Plain, Alike
  <2> QED
    BY <1>1, <1>7, <2>1, <2>2, Supplies
<1> QED
  BY <1>2, <1>4, <1>5, <1>6, <1>7

-----------------------------------------------------------------------------
(* The joiner takes a block: no word of a trade.                           *)

LEMMA TakesPlain ==
    ASSUME NEW j, NEW l, NEW d, NEW u, InvOf(j, l, d, u), d # << >>,
           NEW k, Plain(j, k), k.bar = j.bar
    PROVE  InvOf(k, l, Tail(d), u) /\ Keeps(j, k, l)
<1>1. InvOf(j, l, Tail(d), u)
  BY WordGone
<1>2. Steady(j, k, l.count)
  BY DEF Plain, Steady
<1> QED
  BY <1>1, <1>2, SteadyKeeps

LEMMA TakesParty ==
    ASSUME NEW j, NEW l, NEW d, NEW u, InvOf(j, l, d, u), d # << >>, Head(d).own \in TheirParty
    PROVE  LET k == on_host_party(j, Head(d).own.mons)
           IN  InvOf(k, l, Tail(d), u) /\ Keeps(j, k, l)
<1> DEFINE w == Head(d).own
           k == on_host_party(j, w.mons)
           e == Tail(d)
<1>1. /\ IsJoiner(j) /\ DOMAIN j = JoinerFields /\ d \in Seq(FrameSet) /\ Stage(j, l, d, u)
  BY DEF InvOf, IsJoiner
<1>2. /\ DOMAIN k = JoinerFields
      /\ k.lp_sent = j.lp_sent /\ k.party = j.party /\ k.party_sent = j.party_sent
      /\ k.host_cursor = j.host_cursor /\ k.ribbons = j.ribbons
      /\ k.selected = j.selected /\ k.anim = j.anim /\ k.finish_sent = j.finish_sent
      /\ k.cancel_wait = j.cancel_wait /\ (k.cancelled <=> j.cancelled) /\ k.round = j.round
      /\ k.pending_confirm = j.pending_confirm /\ k.push = j.push /\ k.sender = j.sender
      /\ k.leaving = j.leaving /\ k.bar = j.bar
      /\ k.host_party = IF j.host_party # << >> THEN j.host_party ELSE w.mons
  <2> DEFINE s == [j EXCEPT !.seat_over = @ \/ j.in_seat]
  <2>1. /\ DOMAIN s = JoinerFields /\ Alike(j, s) /\ s.push = j.push /\ s.leaving = j.leaving
        /\ s.bar = j.bar /\ s.sender = j.sender
    BY <1>1 DEF JoinerFields, Alike
  <2>2. k = IF j.host_party # << >> THEN s
            ELSE [s EXCEPT !.host_party = w.mons, !.state = IF @ = "S1" THEN "S4" ELSE @]
    BY DEF on_host_party
  <2> HIDE DEF s, k, w
  <2>3. CASE j.host_party # << >>
    BY <2>1, <2>2, <2>3 DEF Alike
  <2>4. CASE j.host_party = << >>
    BY <2>1, <2>2, <2>4 DEF Alike, JoinerFields
  <2> QED
    BY <2>3, <2>4
<1> HIDE DEF k, w, e
<1>3. CASE j.host_party # << >>
  <2>1. Plain(j, k) /\ k.bar = j.bar
    BY <1>2, <1>3 DEF Plain, Alike
  <2> QED
    BY <2>1, TakesPlain DEF k, w, e
<1>4. CASE j.host_party = << >>
  <2>1. k.host_party = w.mons /\ w = Mons(w.mons) /\ w \in TheirParty
    BY <1>2, <1>4, WordKinds DEF w
  <2>2. UpFlows(j, u, k, u)
    BY <1>2 DEF UpFlows, NoneUp, OneUp, pend, sending
  <2>3. /\ \A A : Up(j, u, A) => Up(k, u, A)
        /\ NoParty(j, u) => NoParty(k, u)
        /\ OneParty(j, u) => OneParty(k, u)
        /\ NoneUp(j, u, {Block("link_player")}) => NoneUp(k, u, {Block("link_player")})
    BY <1>2, <2>2, UpKept
  <2>4. /\ \A A : Down(l, d, A) => Down(l, e, A)
        /\ NoneDown(l, d, Ribbons) => NoneDown(l, e, Ribbons)
        /\ OneDown(l, d, Ribbons) => OneDown(l, e, Ribbons)
        /\ OnePull(l, d) => OnePull(l, e)
        /\ NoPull(l, d) => NoPull(l, e)
        /\ NoneDown(l, d, {Block("CONFIRM_FINISH_TRADE")}) => NoneDown(l, e, {Block("CONFIRM_FINISH_TRADE")})
    BY <1>1, DownLands, DownKept DEF e
  <2>5. ~NoView(l, d) /\ (OneView(l, d) => NoView(l, e) /\ w = Mons(l.party))
    <3>1. ~NoView(l, d)
      BY <1>1, <2>1, DownLands DEF NoView, w
    <3>2. OneView(l, d) => w \notin TheirParty \ {Mons(l.party)}
      BY <1>1, DownLands DEF OneView, w
    <3>3. OneView(l, d) => NoView(l, e)
      BY <1>1, <2>1, DownLands DEF OneView, NoView, w, e
    <3> QED
      BY <2>1, <3>1, <3>2, <3>3
  <2>6. Shown(j, l, d) => Shown(k, l, e) /\ k.host_party = l.party
    <3>1. w = Mons(l.party) => w.mons = l.party
      BY DEF Mons
    <3> QED
      BY <1>2, <2>1, <2>5, <3>1 DEF Shown
  <2>7. k.host_party = l.party => (Promised(j, l) => Promised(k, l))
    BY <1>2 DEF Promised
  <2>8. Asked(j, l, d, u) => Asked(k, l, e, u)
    BY <1>2, <2>3, <2>4 DEF Asked
  <2>9. Stage(k, l, e, u) /\ l.round = j.round
    <3>1. CASE Apart(j, l, d, u)
      <4>1. Apart(k, l, e, u)
        BY <1>2, <2>3, <2>4, <2>6, <2>8, <3>1 DEF Apart, SameRound, Still
      <4> QED
        BY <3>1, <4>1 DEF Stage, Apart, SameRound
    <3>2. CASE Choosing(j, l, d, u)
      <4>1. k.host_party = l.party /\ Shown(k, l, e)
        BY <2>6, <3>2 DEF Choosing
      <4>2. Promised(j, l) => Promised(k, l)
        BY <2>7, <4>1
      <4>3. offer(k) = offer(j)
        BY <1>2 DEF offer
      <4>4. AtMenu(k, l, e, u)
        BY <1>2, <2>3, <2>4, <3>2, <4>2, <4>3 DEF Choosing, AtMenu
      <4>5. Choosing(k, l, e, u)
        BY <1>2, <2>3, <2>4, <3>2, <4>1, <4>4 DEF Choosing, SameRound, Still
      <4> QED
        BY <3>2, <4>5 DEF Stage, Choosing, SameRound
    <3>3. CASE Agreed(j, l, d, u) \/ Owing(j, l, d, u)
      BY <2>5, <3>3 DEF Agreed, Owing
    <3>4. CASE Leaving(j, l, d, u)
      BY <1>2, <2>4, <3>4 DEF Leaving, SameRound, Stage
    <3> QED
      BY <1>1, <3>1, <3>2, <3>3, <3>4 DEF Stage
  <2>10. IsJoiner(k)
    BY <1>1, <1>2 DEF IsJoiner
  <2>11. Keeps(j, k, l)
    BY <1>2, <2>9 DEF Keeps
  <2>12. e \in Seq(FrameSet) /\ Passed(e, l.count)
    BY WordGone DEF e
  <2> QED
    BY <1>2, <2>9, <2>10, <2>11, <2>12 DEF InvOf, k, e, w
<1> QED
  BY <1>3, <1>4

LEMMA TakesRibbons ==
    ASSUME NEW j, NEW l, NEW d, NEW u, InvOf(j, l, d, u), d # << >>, Head(d).own \in Ribbons
    PROVE  LET k == [j EXCEPT !.ribbons = TRUE]
           IN  InvOf(k, l, Tail(d), u) /\ Keeps(j, k, l)
<1> DEFINE w == Head(d).own
           k == [j EXCEPT !.ribbons = TRUE]
           e == Tail(d)
<1>1. /\ IsJoiner(j) /\ DOMAIN j = JoinerFields /\ d \in Seq(FrameSet) /\ Stage(j, l, d, u)
  BY DEF InvOf, IsJoiner
<1>2. /\ DOMAIN k = JoinerFields
      /\ k.lp_sent = j.lp_sent /\ k.party = j.party /\ k.party_sent = j.party_sent
      /\ k.host_cursor = j.host_cursor /\ k.ribbons = TRUE
      /\ k.selected = j.selected /\ k.anim = j.anim /\ k.finish_sent = j.finish_sent
      /\ k.cancel_wait = j.cancel_wait /\ (k.cancelled <=> j.cancelled) /\ k.round = j.round
      /\ k.pending_confirm = j.pending_confirm /\ k.push = j.push /\ k.sender = j.sender
      /\ k.leaving = j.leaving /\ k.bar = j.bar /\ k.host_party = j.host_party
  BY <1>1 DEF JoinerFields
<1> HIDE DEF k, w, e
<1>3. UpFlows(j, u, k, u)
  BY <1>2 DEF UpFlows, NoneUp, OneUp, pend, sending
<1>4. (\A A : Up(j, u, A) => Up(k, u, A)) /\ (NoParty(j, u) => NoParty(k, u))
  BY <1>2, <1>3, UpKept
<1>5. /\ \A A : Down(l, d, A) => Down(l, e, A)
      /\ OneDown(l, d, Ribbons) => OneDown(l, e, Ribbons)
      /\ NoPull(l, d) => NoPull(l, e)
      /\ NoView(l, d) => NoView(l, e)
      /\ OneView(l, d) => OneView(l, e)
      /\ NoneDown(l, d, {Block("CONFIRM_FINISH_TRADE")}) => NoneDown(l, e, {Block("CONFIRM_FINISH_TRADE")})
  BY <1>1, DownLands, DownKept DEF e
<1>6. ~NoneDown(l, d, Ribbons) /\ (OneDown(l, d, Ribbons) => NoneDown(l, e, Ribbons))
  BY <1>1, DownLands DEF w, e
<1>7. Stage(k, l, e, u) /\ l.round = j.round
  <2>1. CASE Apart(j, l, d, u) \/ Agreed(j, l, d, u) \/ Owing(j, l, d, u)
    BY <1>6, <2>1 DEF Apart, Agreed, Owing
  <2>2. CASE Choosing(j, l, d, u)
    <3>1. (Promised(j, l) => Promised(k, l)) /\ offer(k) = offer(j)
      BY <1>2 DEF Promised, offer
    <3>2. AtMenu(k, l, e, u)
      BY <1>2, <1>4, <1>5, <2>2, <3>1 DEF Choosing, AtMenu
    <3>3. Shown(k, l, e)
      BY <1>2, <1>5, <2>2 DEF Choosing, Shown
    <3>4. Choosing(k, l, e, u)
      BY <1>2, <1>4, <1>5, <1>6, <2>2, <3>2, <3>3 DEF Choosing, SameRound, Still
    <3> QED
      BY <2>2, <3>4 DEF Stage, Choosing, SameRound
  <2>3. CASE Leaving(j, l, d, u)
    BY <1>2, <1>5, <2>3 DEF Leaving, SameRound, Stage
  <2> QED
    BY <1>1, <2>1, <2>2, <2>3 DEF Stage
<1>8. IsJoiner(k)
  BY <1>1, <1>2 DEF IsJoiner
<1>9. Keeps(j, k, l)
  BY <1>2 DEF Keeps
<1>10. e \in Seq(FrameSet) /\ Passed(e, l.count)
  BY WordGone DEF e
<1> QED
  BY <1>2, <1>7, <1>8, <1>9, <1>10 DEF InvOf, k, e, w

-----------------------------------------------------------------------------
(* A word of a trade.                                                      *)

\* Which stages have one that lands.
LEMMA TradeWordLands ==
    ASSUME NEW j, NEW l, NEW d, NEW u, InvOf(j, l, d, u), d # << >>, Head(d).own \in TradeWord
    PROVE  \/ /\ Choosing(j, l, d, u) /\ l.reply = "none" /\ Up(j, u, {}) /\ Down(l, Tail(d), {})
              /\ Head(d).own.cmd \in {"PARTNER_CANCEL_TRADE", "PLAYER_CANCEL_TRADE"}
           \/ /\ Agreed(j, l, d, u) /\ l.at = "prompt" /\ l.reply = "none" /\ Up(j, u, {})
              /\ Down(l, Tail(d), {}) /\ ~j.cancel_wait /\ ~j.cancelled /\ ~j.anim
              /\ Head(d).own = Select("SET_MONS_TO_TRADE", l.mine)
           \/ /\ Agreed(j, l, d, u) /\ l.at \in InTrade /\ Up(j, u, {}) /\ Down(l, Tail(d), {})
              /\ ~l.finish /\ Head(d).own = Block("START_TRADE")
           \/ /\ Owing(j, l, d, u) /\ Down(l, Tail(d), {})
              /\ Head(d).own = Block("CONFIRM_FINISH_TRADE")
           \/ Leaving(j, l, d, u) /\ Head(d).own # Block("CONFIRM_FINISH_TRADE")
<1> DEFINE w == Head(d).own
<1>1. d \in Seq(FrameSet) /\ Stage(j, l, d, u)
  BY DEF InvOf
<1>2. /\ \A A : Down(l, d, A) => w \in A /\ Down(l, Tail(d), {})
      /\ NoneDown(l, d, {Block("CONFIRM_FINISH_TRADE")}) => w # Block("CONFIRM_FINISH_TRADE")
  BY <1>1, DownLands
<1>3. ~Down(l, d, {})
  BY <1>2
<1> HIDE DEF w
<1>4. CASE Apart(j, l, d, u)
  BY <1>3, <1>4 DEF Apart
<1>5. CASE Choosing(j, l, d, u)
  <2>1. /\ l.reply = "none" /\ Up(j, u, {})
        /\ Down(l, d, {Block("PARTNER_CANCEL_TRADE"), Block("PLAYER_CANCEL_TRADE")})
    BY <1>3, <1>5 DEF Choosing, AtMenu
  <2>2. w \in {Block("PARTNER_CANCEL_TRADE"), Block("PLAYER_CANCEL_TRADE")} /\ Down(l, Tail(d), {})
    BY <1>2, <2>1
  <2>3. w.cmd \in {"PARTNER_CANCEL_TRADE", "PLAYER_CANCEL_TRADE"}
    BY <2>2 DEF Block
  <2> QED
    BY <1>5, <2>1, <2>2, <2>3 DEF w
<1>6. CASE Agreed(j, l, d, u) /\ l.at = "prompt"
  <2>1. Answering(j, l, d, u) /\ ~j.anim
    BY <1>6 DEF Agreed, InTrade
  <2>2. /\ l.reply = "none" /\ Up(j, u, {}) /\ Down(l, d, {Select("SET_MONS_TO_TRADE", l.mine)})
        /\ ~j.cancel_wait /\ ~j.cancelled
    BY <1>3, <2>1 DEF Answering
  <2>3. w = Select("SET_MONS_TO_TRADE", l.mine) /\ Down(l, Tail(d), {})
    BY <1>2, <2>2
  <2> QED
    BY <1>6, <2>1, <2>2, <2>3 DEF w
<1>7. CASE Agreed(j, l, d, u) /\ l.at \in InTrade
  <2>1. Watching(j, l, d, u)
    BY <1>7 DEF Agreed, InTrade
  <2>2. ~l.finish /\ Up(j, u, {}) /\ Down(l, d, {Block("START_TRADE")})
    BY <1>3, <2>1 DEF Watching
  <2>3. w = Block("START_TRADE") /\ Down(l, Tail(d), {})
    BY <1>2, <2>2
  <2> QED
    BY <1>7, <2>2, <2>3 DEF w
<1>8. CASE Owing(j, l, d, u)
  <2>1. w = Block("CONFIRM_FINISH_TRADE") /\ Down(l, Tail(d), {})
    BY <1>2, <1>8 DEF Owing
  <2> QED
    BY <1>8, <2>1 DEF w
<1>9. CASE Leaving(j, l, d, u)
  BY <1>2, <1>9 DEF Leaving, w
<1>10. Agreed(j, l, d, u) => l.at = "prompt" \/ l.at \in InTrade
  BY DEF Agreed
<1> QED
  BY <1>1, <1>4, <1>5, <1>6, <1>7, <1>8, <1>9, <1>10 DEF Stage

-----------------------------------------------------------------------------
(* What a word of a trade does to the joiner.                              *)

\* The joiner has got what it was owed.
Receives(j, k, l) ==
    /\ l.round # j.round /\ k.round = l.round
    /\ k.party = [j.party EXCEPT ![Offered[j.round + 1]] = j.host_party[j.host_cursor]]

JoinerMoves(j, k, l) == Keeps(j, k, l) \/ Receives(j, k, l)

\* All but the cursor, the move and the two flags of a refusal.
Nearly(j, k) ==
    /\ DOMAIN k = JoinerFields
    /\ k.lp_sent = j.lp_sent /\ k.party = j.party /\ k.party_sent = j.party_sent
    /\ k.host_party = j.host_party /\ k.ribbons = j.ribbons /\ k.anim = j.anim
    /\ k.finish_sent = j.finish_sent /\ k.round = j.round
    /\ k.pending_confirm = j.pending_confirm /\ k.sender = j.sender /\ k.leaving = j.leaving

LEMMA AnswersIs ==
    ASSUME NEW j, DOMAIN j = JoinerFields
    PROVE  LET k == run_confirm(j)
           IN  /\ Nearly(j, k) /\ k.selected = j.selected /\ k.bar = j.bar
               /\ k.host_cursor = j.host_cursor
               /\ \/ k.push = j.push /\ k.cancel_wait = j.cancel_wait /\ (k.cancelled <=> j.cancelled)
                  \/ k.push = <<Block("READY_CANCEL_TRADE")>> /\ k.cancel_wait = j.cancel_wait
                  \/ /\ k.push = <<Block("INIT_BLOCK")>> /\ k.cancel_wait = j.cancel_wait
                     /\ (k.cancelled <=> j.cancelled)
                  \/ k.push = j.push
<1> DEFINE k == run_confirm(j)
           s == [j EXCEPT !.confirmed = TRUE]
<1>1. DOMAIN s = JoinerFields /\ Alike(j, s) /\ s.push = j.push /\ s.sender = j.sender
      /\ s.leaving = j.leaving /\ s.bar = j.bar
  BY DEF JoinerFields, Alike
<1>2. \/ k = j
      \/ k = [s EXCEPT !.push = <<Block("READY_CANCEL_TRADE")>>, !.cancelled = TRUE]
      \/ k = [s EXCEPT !.push = <<Block("INIT_BLOCK")>>]
      \/ k = [s EXCEPT !.cancel_wait = TRUE, !.cancelled = TRUE]
  BY DEF run_confirm
<1> HIDE DEF k, s
<1>3. CASE k = j
  BY <1>3 DEF Nearly, k
<1>4. CASE k = [s EXCEPT !.push = <<Block("READY_CANCEL_TRADE")>>, !.cancelled = TRUE]
  <2>1. /\ Nearly(s, k) /\ k.selected = s.selected /\ k.bar = s.bar /\ k.host_cursor = s.host_cursor
        /\ k.push = <<Block("READY_CANCEL_TRADE")>> /\ k.cancel_wait = s.cancel_wait
    BY <1>1, <1>4 DEF Nearly, JoinerFields
  <2> QED
    BY <1>1, <2>1 DEF Nearly, Alike, k
<1>5. CASE k = [s EXCEPT !.push = <<Block("INIT_BLOCK")>>]
  <2>1. /\ Nearly(s, k) /\ k.selected = s.selected /\ k.bar = s.bar /\ k.host_cursor = s.host_cursor
        /\ k.push = <<Block("INIT_BLOCK")>> /\ k.cancel_wait = s.cancel_wait
        /\ (k.cancelled <=> s.cancelled)
    BY <1>1, <1>5 DEF Nearly, JoinerFields
  <2> QED
    BY <1>1, <2>1 DEF Nearly, Alike, k
<1>6. CASE k = [s EXCEPT !.cancel_wait = TRUE, !.cancelled = TRUE]
  <2>1. /\ Nearly(s, k) /\ k.selected = s.selected /\ k.bar = s.bar /\ k.host_cursor = s.host_cursor
        /\ k.push = s.push
    BY <1>1, <1>6 DEF Nearly, JoinerFields
  <2> QED
    BY <1>1, <2>1 DEF Nearly, Alike, k
<1> QED
  BY <1>2, <1>3, <1>4, <1>5, <1>6

\* SET_MONS_TO_TRADE: the joiner answers, unless it is not at the menu.
LEMMA ShowsIs ==
    ASSUME NEW j, DOMAIN j = JoinerFields, NEW b, b.cmd = "SET_MONS_TO_TRADE"
    PROVE  LET k == on_linkcmd(j, b)
           IN  /\ Nearly(j, k) /\ k.selected = j.selected /\ k.bar = j.bar
               /\ k.host_cursor = b.cursor
               /\ \/ k.push = j.push /\ k.cancel_wait = j.cancel_wait /\ (k.cancelled <=> j.cancelled)
                  \/ k.push = <<Block("READY_CANCEL_TRADE")>> /\ k.cancel_wait = j.cancel_wait
                  \/ /\ k.push = <<Block("INIT_BLOCK")>> /\ k.cancel_wait = j.cancel_wait
                     /\ (k.cancelled <=> j.cancelled)
                  \/ k.push = j.push
<1> DEFINE k == on_linkcmd(j, b)
           s == [j EXCEPT !.host_cursor = b.cursor]
           t == [s EXCEPT !.state = "S6"]
<1>1. /\ Nearly(j, s) /\ s.selected = j.selected /\ s.bar = j.bar /\ s.host_cursor = b.cursor
      /\ s.push = j.push /\ s.cancel_wait = j.cancel_wait /\ (s.cancelled <=> j.cancelled)
  BY DEF JoinerFields, Nearly
<1>2. k = s \/ k = run_confirm(t)
  BY DEF on_linkcmd
<1> HIDE DEF k, s
<1>3. /\ Nearly(s, t) /\ t.selected = s.selected /\ t.bar = s.bar /\ t.host_cursor = s.host_cursor
      /\ t.push = s.push /\ t.cancel_wait = s.cancel_wait /\ (t.cancelled <=> s.cancelled)
  BY <1>1 DEF JoinerFields, Nearly
<1> HIDE DEF t
<1>4. CASE k = s
  BY <1>1, <1>4 DEF k
<1>5. CASE k = run_confirm(t)
  <2>1. DOMAIN t = JoinerFields
    BY <1>3 DEF Nearly
  <2>2. /\ Nearly(t, k) /\ k.selected = t.selected /\ k.bar = t.bar
        /\ k.host_cursor = t.host_cursor
        /\ \/ k.push = t.push /\ k.cancel_wait = t.cancel_wait /\ (k.cancelled <=> t.cancelled)
           \/ k.push = <<Block("READY_CANCEL_TRADE")>> /\ k.cancel_wait = t.cancel_wait
           \/ /\ k.push = <<Block("INIT_BLOCK")>> /\ k.cancel_wait = t.cancel_wait
              /\ (k.cancelled <=> t.cancelled)
           \/ k.push = t.push
    BY <1>5, <2>1, AnswersIs
  <2> QED
    BY <1>1, <1>3, <2>2 DEF Nearly, k
<1> QED
  BY <1>2, <1>4, <1>5

LEMMA StartsIs ==
    ASSUME NEW j, DOMAIN j = JoinerFields, NEW b, b.cmd = "START_TRADE"
    PROVE  LET k == on_linkcmd(j, b)
           IN  /\ DOMAIN k = JoinerFields
               /\ k.lp_sent = j.lp_sent /\ k.party = j.party /\ k.party_sent = j.party_sent
               /\ k.host_party = j.host_party /\ k.ribbons = j.ribbons
               /\ k.finish_sent = j.finish_sent /\ k.round = j.round /\ k.selected = j.selected
               /\ k.pending_confirm = j.pending_confirm /\ k.sender = j.sender
               /\ k.leaving = j.leaving /\ k.push = j.push /\ k.bar = j.bar
               /\ k.host_cursor = j.host_cursor /\ k.cancel_wait = j.cancel_wait
               /\ (k.cancelled <=> j.cancelled) /\ (~j.cancelled => k.anim)
<1>1. on_linkcmd(j, b) = IF j.cancelled THEN j ELSE [j EXCEPT !.state = "S7", !.anim = TRUE]
  BY DEF on_linkcmd
<1> QED
  BY <1>1 DEF JoinerFields

LEMMA BackIs ==
    ASSUME NEW j, DOMAIN j = JoinerFields, NEW b,
           b.cmd \in {"PARTNER_CANCEL_TRADE", "PLAYER_CANCEL_TRADE"}
    PROVE  LET k == on_linkcmd(j, b)
           IN  /\ Nearly(j, k) /\ k.bar = j.bar /\ ~k.selected /\ k.push = << >>
               /\ ~k.cancel_wait /\ ~k.cancelled
<1> DEFINE k == on_linkcmd(j, b)
<1>1. k = back_to_menu(j)
  BY DEF on_linkcmd
<1>2. k = [j EXCEPT !.state = "S4", !.selected = FALSE, !.reselect = TRUE, !.push = << >>,
              !.cancel_after_send = FALSE, !.confirmed = FALSE, !.cancel_wait = FALSE,
              !.cancelled = FALSE, !.requested_cancel = FALSE, !.host_cursor = None]
  BY <1>1 DEF back_to_menu
<1> HIDE DEF k
<1>3. DOMAIN k = JoinerFields /\ k.lp_sent = j.lp_sent /\ k.party = j.party
      /\ k.party_sent = j.party_sent /\ k.host_party = j.host_party /\ k.ribbons = j.ribbons
      /\ k.anim = j.anim /\ k.finish_sent = j.finish_sent
  BY <1>2 DEF JoinerFields
<1>4. /\ k.round = j.round
      /\ k.pending_confirm = j.pending_confirm /\ k.sender = j.sender /\ k.leaving = j.leaving
      /\ k.bar = j.bar /\ k.selected = FALSE /\ k.push = << >>
      /\ k.cancel_wait = FALSE /\ k.cancelled = FALSE
  BY <1>2 DEF JoinerFields
<1> QED
  BY <1>3, <1>4 DEF Nearly, k

LEMMA BothIs ==
    ASSUME NEW j, DOMAIN j = JoinerFields, NEW b, b.cmd = "BOTH_CANCEL_TRADE"
    PROVE  LET k == on_linkcmd(j, b)
           IN  Nearly(j, k) /\ k.push = j.push /\ k.bar = initiate(j.bar)
<1>1. on_linkcmd(j, b) = both_cancel(j)
  BY DEF on_linkcmd
<1> QED
  BY <1>1 DEF JoinerFields, Nearly, both_cancel

\* The commit of the joiner.
LEMMA CommitIs ==
    ASSUME NEW j, DOMAIN j = JoinerFields, j.host_cursor # None
    PROVE  LET k == commit(j)
           IN  /\ DOMAIN k = JoinerFields
               /\ k.party = [j.party EXCEPT ![Offered[j.round + 1]] = j.host_party[j.host_cursor]]
               /\ k.round = j.round + 1 /\ k.lp_sent = j.lp_sent /\ k.party_sent = 0
               /\ k.host_party = << >> /\ k.ribbons = FALSE /\ k.anim = FALSE
               /\ k.cancel_wait = FALSE /\ (k.cancelled <=> j.cancelled)
               /\ k.pending_confirm = FALSE /\ k.push = j.push /\ k.sender = j.sender
               /\ k.bar = j.bar /\ (j.round + 1 >= Trades => k.leaving)
<1> DEFINE k == commit(j)
           p == [j.party EXCEPT ![Offered[j.round + 1]] = j.host_party[j.host_cursor]]
           got == [j EXCEPT !.party[Offered[j.round + 1]] =
                                IF j.host_cursor = None THEN @ ELSE j.host_party[j.host_cursor],
                            !.round = @ + 1, !.save = TRUE, !.state = "S1"]
           out == [got EXCEPT !.leaving = @ \/ got.round >= Trades]
<1>1. k = reset_round_state(out)
  BY DEF commit
<1>2. /\ DOMAIN got = JoinerFields /\ got.party = p /\ got.round = j.round + 1
      /\ got.lp_sent = j.lp_sent /\ (got.cancelled <=> j.cancelled) /\ got.push = j.push
      /\ got.sender = j.sender /\ got.bar = j.bar
  BY DEF JoinerFields
<1> HIDE DEF k, p, got
<1>3. /\ DOMAIN out = JoinerFields /\ out.party = got.party /\ out.round = got.round
      /\ out.lp_sent = got.lp_sent /\ (out.cancelled <=> got.cancelled) /\ out.push = got.push
      /\ out.sender = got.sender /\ out.bar = got.bar /\ (got.round >= Trades => out.leaving)
  BY <1>2 DEF JoinerFields
<1> HIDE DEF out
<1>4. /\ DOMAIN k = JoinerFields /\ k.party = out.party /\ k.round = out.round
      /\ k.lp_sent = out.lp_sent /\ (k.cancelled <=> out.cancelled) /\ k.push = out.push
      /\ k.sender = out.sender /\ k.bar = out.bar /\ k.leaving = out.leaving
  BY <1>1, <1>3 DEF reset_round_state, JoinerFields
<1>5. /\ k.party_sent = 0 /\ k.host_party = << >> /\ k.ribbons = FALSE /\ k.anim = FALSE
      /\ k.cancel_wait = FALSE /\ k.pending_confirm = FALSE
  BY <1>1, <1>3 DEF reset_round_state, JoinerFields
<1> QED
  BY <1>2, <1>3, <1>4, <1>5 DEF k, p

LEMMA PushIs ==
    ASSUME NEW j, IsJoiner(j), NEW u, NEW A, Up(j, u, A)
    PROVE  /\ j.push # << >> => \E m \in A \cap Move : j.push = <<m>>
           /\ A = {} => j.push = << >>
<1>1. Free(j.push, Move \ A)
  BY DEF Up, NoneUp, NoneIn
<1>2. j.push = << >> \/ \E m \in Move : j.push = <<m>>
  BY DEF IsJoiner
<1>3. ASSUME NEW m \in Move, j.push = <<m>> PROVE m \in A
  <2>1. Free(<<m>>, Move \ A)
    BY <1>1, <1>3
  <2>2. m \notin Move \ A
    BY <2>1 DEF Free
  <2> QED
    BY <2>2
<1> QED
  BY <1>2, <1>3

\* A move is made.
LEMMA UpMoves ==
    ASSUME NEW j, IsJoiner(j), NEW u, Up(j, u, {}), NEW k, NEW b \in Move,
           k.sender = j.sender, k.push = <<b>>
    PROVE  /\ \A A : b \in A => Up(k, u, A)
           /\ NoParty(j, u) => NoParty(k, u)
<1>1. j.push = << >> /\ pend(k) = pend(j)
  BY PushIs DEF pend, sending
<1>2. /\ \A W : NoneUp(j, u, W) => OneUp(k, u, W)
      /\ \A W : b \notin W => (NoneUp(j, u, W) => NoneUp(k, u, W))
  BY <1>1, UpWaits
<1>3. Move \ {} = Move /\ b \notin OurParty
  BY SlotsApart
<1>4. NoneUp(j, u, Move) /\ \A A : NoneUp(j, u, Move \ A)
  <2>1. NoneUp(j, u, Move)
    BY <1>3 DEF Up
  <2>2. \A A : Move \ A \subseteq Move
    OBVIOUS
  <2> QED
    BY <2>1, <2>2, PipeWithin DEF NoneUp
<1>5. \A A : b \in A => b \notin Move \ A
  OBVIOUS
<1> QED
  BY <1>2, <1>3, <1>4, <1>5 DEF Up, NoParty

\* Nothing is under way that was not.
LEMMA UpSame ==
    ASSUME NEW j, NEW u, NEW k, k.sender = j.sender, k.push = j.push
    PROVE  UpFlows(j, u, k, u)
BY DEF UpFlows, NoneUp, OneUp, pend, sending

\* On the way out the joiner may do as it likes, but for a commit.
LEMMA AwayStays ==
    ASSUME NEW j, NEW l, NEW d, NEW u, Leaving(j, l, d, u), InvOf(j, l, d, u),
           NEW k, IsJoiner(k), k.round = j.round, k.party = j.party, BarOk(k.bar, l.count)
    PROVE  InvOf(k, l, d, u) /\ Keeps(j, k, l)
BY DEF Leaving, InvOf, Stage, SameRound, Keeps

LEMMA IsJoinerNow ==
    ASSUME NEW j, IsJoiner(j), NEW k, Nearly(j, k),
           \/ k.push = j.push \/ k.push = << >>
           \/ \E m \in Move : k.push = <<m>>
    PROVE  IsJoiner(k)
BY DEF IsJoiner, Nearly

LEMMA TheMoves ==
    /\ \A cmd \in {"REQUEST_CANCEL", "INIT_BLOCK", "READY_CANCEL_TRADE", "READY_FINISH_TRADE"} :
          Block(cmd) \in Move
    /\ \A c \in DOMAIN JoinerMons : Select("READY_TO_TRADE", c) \in Move
BY MoveIs DEF MoveCmds

\* SET_MONS_TO_TRADE at the prompt.
LEMMA TakesShown ==
    ASSUME NEW j, NEW l, NEW d, NEW u, InvOf(j, l, d, u), d # << >>,
           Agreed(j, l, d, u), l.at = "prompt", l.reply = "none", Up(j, u, {}), Down(l, Tail(d), {}),
           ~j.cancel_wait, ~j.cancelled, ~j.anim, Head(d).own = Select("SET_MONS_TO_TRADE", l.mine)
    PROVE  LET k == on_linkcmd(j, Head(d).own)
           IN  InvOf(k, l, Tail(d), u) /\ Keeps(j, k, l)
<1> DEFINE w == Head(d).own
           k == on_linkcmd(j, w)
           e == Tail(d)
<1>1. IsJoiner(j) /\ DOMAIN j = JoinerFields /\ d \in Seq(FrameSet)
  BY DEF InvOf, IsJoiner
<1>2. w.cmd = "SET_MONS_TO_TRADE" /\ w.cursor = l.mine
  BY DEF Select
<1>3. /\ Nearly(j, k) /\ k.selected = j.selected /\ k.bar = j.bar /\ k.host_cursor = l.mine
      /\ \/ k.push = j.push /\ k.cancel_wait = j.cancel_wait /\ (k.cancelled <=> j.cancelled)
         \/ k.push = <<Block("READY_CANCEL_TRADE")>> /\ k.cancel_wait = j.cancel_wait
         \/ /\ k.push = <<Block("INIT_BLOCK")>> /\ k.cancel_wait = j.cancel_wait
            /\ (k.cancelled <=> j.cancelled)
         \/ k.push = j.push
  BY <1>1, <1>2, ShowsIs
<1>4. k.sender = j.sender
  BY <1>3 DEF Nearly
<1>5. /\ NoPull(l, e) /\ NoView(l, e) /\ NoneDown(l, e, Ribbons)
  BY <1>1, DownLands, DownKept DEF Agreed
<1>6. e \in Seq(FrameSet) /\ Passed(e, l.count)
  BY WordGone
<1> HIDE DEF k, w, e
<1>7. Promised(k, l) /\ SameRound(k, l) /\ l.theirs = Offered[k.round + 1] /\ ~k.anim
      /\ l.mine \in DOMAIN LeaderMons
  BY <1>3 DEF Agreed, Promised, SameRound, Nearly
<1>8. /\ Block("READY_CANCEL_TRADE") \in Move /\ Block("INIT_BLOCK") \in Move
  BY TheMoves
<1>9. Answering(k, l, e, u) /\ NoParty(k, u)
  <2>1. CASE k.push = j.push
    <3>1. UpFlows(j, u, k, u) /\ k.party = j.party
      BY <1>3, <1>4, <2>1, UpSame DEF Nearly
    <3>2. Up(k, u, {}) /\ NoParty(k, u)
      BY <3>1, UpKept DEF Agreed
    <3> QED
      BY <1>3, <3>2 DEF Answering, e
  <2>2. CASE k.push = <<Block("READY_CANCEL_TRADE")>> /\ k.cancel_wait = j.cancel_wait
    <3>1. Up(k, u, {Block("READY_CANCEL_TRADE")}) /\ NoParty(k, u)
      BY <1>1, <1>4, <1>8, <2>2, UpMoves DEF Agreed
    <3> QED
      BY <2>2, <3>1 DEF Answering, e
  <2>3. CASE k.push = <<Block("INIT_BLOCK")>> /\ k.cancel_wait = j.cancel_wait /\ (k.cancelled <=> j.cancelled)
    <3>1. Up(k, u, {Block("INIT_BLOCK")}) /\ NoParty(k, u)
      BY <1>1, <1>4, <1>8, <2>3, UpMoves DEF Agreed
    <3> QED
      BY <1>3, <2>3, <3>1 DEF Answering, e
  <2> QED
    BY <1>3, <2>1, <2>2, <2>3
<1>10. Agreed(k, l, e, u)
  BY <1>5, <1>7, <1>9 DEF Agreed
<1>11. IsJoiner(k)
  BY <1>1, <1>3, <1>8, IsJoinerNow
<1>12. Keeps(j, k, l)
  BY <1>3 DEF Agreed, SameRound, Keeps, Nearly
<1> QED
  BY <1>3, <1>6, <1>10, <1>11, <1>12 DEF InvOf, Stage, k, w, e

\* START_TRADE.
LEMMA TakesStart ==
    ASSUME NEW j, NEW l, NEW d, NEW u, InvOf(j, l, d, u), d # << >>,
           Agreed(j, l, d, u), l.at \in InTrade, Up(j, u, {}), Down(l, Tail(d), {}), ~l.finish,
           Head(d).own = Block("START_TRADE")
    PROVE  LET k == on_linkcmd(j, Head(d).own)
           IN  InvOf(k, l, Tail(d), u) /\ Keeps(j, k, l)
<1> DEFINE w == Head(d).own
           k == on_linkcmd(j, w)
           e == Tail(d)
<1>1. IsJoiner(j) /\ DOMAIN j = JoinerFields /\ d \in Seq(FrameSet)
  BY DEF InvOf, IsJoiner
<1>2. w.cmd = "START_TRADE"
  BY DEF Block
<1>3. /\ DOMAIN k = JoinerFields
      /\ k.lp_sent = j.lp_sent /\ k.party = j.party /\ k.party_sent = j.party_sent
      /\ k.host_party = j.host_party /\ k.ribbons = j.ribbons
      /\ k.finish_sent = j.finish_sent /\ k.round = j.round /\ k.selected = j.selected
      /\ k.pending_confirm = j.pending_confirm /\ k.sender = j.sender
      /\ k.leaving = j.leaving /\ k.push = j.push /\ k.bar = j.bar
      /\ k.host_cursor = j.host_cursor /\ k.cancel_wait = j.cancel_wait
      /\ (k.cancelled <=> j.cancelled) /\ (~j.cancelled => k.anim)
  BY <1>1, <1>2, StartsIs
<1>4. l.at # "prompt" /\ ~j.cancelled /\ j.host_cursor = l.mine /\ ~j.cancel_wait
  BY DEF Agreed, InTrade
<1>5. NoPull(l, e) /\ NoView(l, e) /\ NoneDown(l, e, Ribbons)
  BY <1>1, DownLands, DownKept DEF Agreed
<1>6. e \in Seq(FrameSet) /\ Passed(e, l.count)
  BY WordGone
<1> HIDE DEF k, w, e
<1>7. Up(k, u, {}) /\ NoParty(k, u)
  BY <1>3, UpSame, UpKept DEF Agreed
<1>8. Watching(k, l, e, u)
  BY <1>3, <1>4, <1>7 DEF Watching, e
<1>9. Promised(k, l) /\ SameRound(k, l) /\ l.theirs = Offered[k.round + 1]
      /\ l.mine \in DOMAIN LeaderMons
  BY <1>3 DEF Agreed, Promised, SameRound
<1>10. Agreed(k, l, e, u)
  BY <1>3, <1>4, <1>5, <1>7, <1>8, <1>9 DEF Agreed
<1>11. IsJoiner(k) /\ Keeps(j, k, l)
  BY <1>1, <1>3 DEF IsJoiner, Keeps
<1> QED
  BY <1>3, <1>6, <1>10, <1>11 DEF InvOf, Stage, k, w, e

\* Back to the menu.
LEMMA TakesBack ==
    ASSUME NEW j, NEW l, NEW d, NEW u, InvOf(j, l, d, u), d # << >>,
           Choosing(j, l, d, u), l.reply = "none", Up(j, u, {}), Down(l, Tail(d), {}),
           Head(d).own.cmd \in {"PARTNER_CANCEL_TRADE", "PLAYER_CANCEL_TRADE"}
    PROVE  LET k == on_linkcmd(j, Head(d).own)
           IN  InvOf(k, l, Tail(d), u) /\ Keeps(j, k, l)
<1> DEFINE w == Head(d).own
           k == on_linkcmd(j, w)
           e == Tail(d)
<1>1. IsJoiner(j) /\ DOMAIN j = JoinerFields /\ d \in Seq(FrameSet)
  BY DEF InvOf, IsJoiner
<1>2. Nearly(j, k) /\ k.bar = j.bar /\ ~k.selected /\ k.push = << >> /\ ~k.cancel_wait /\ ~k.cancelled
  BY <1>1, BackIs
<1>3. j.push = << >>
  BY <1>1, PushIs
<1>4. /\ NoPull(l, d) => NoPull(l, e)
      /\ NoView(l, d) => NoView(l, e)
      /\ OneView(l, d) => OneView(l, e)
      /\ NoneDown(l, d, Ribbons) => NoneDown(l, e, Ribbons)
      /\ OneDown(l, d, Ribbons) => OneDown(l, e, Ribbons)
  BY <1>1, DownLands, DownKept
<1>5. e \in Seq(FrameSet) /\ Passed(e, l.count)
  BY WordGone
<1> HIDE DEF k, w, e
<1>6. UpFlows(j, u, k, u) /\ k.party = j.party
  BY <1>2, <1>3, UpSame DEF Nearly
<1>7. Up(k, u, {}) /\ NoParty(k, u)
  BY <1>6, UpKept DEF Choosing
<1>8. Shown(k, l, e)
  BY <1>2, <1>4 DEF Choosing, Shown, Nearly
<1>9. AtMenu(k, l, e, u)
  BY <1>2, <1>7 DEF AtMenu, e
<1>10. Choosing(k, l, e, u)
  BY <1>2, <1>4, <1>7, <1>8, <1>9 DEF Choosing, Nearly, SameRound, Still
<1>11. IsJoiner(k)
  BY <1>1, <1>2, IsJoinerNow
<1>12. Keeps(j, k, l)
  BY <1>2 DEF Choosing, SameRound, Keeps, Nearly
<1> QED
  BY <1>2, <1>5, <1>10, <1>11, <1>12 DEF InvOf, Stage, k, w, e

\* CONFIRM_FINISH_TRADE: the joiner commits.
LEMMA TakesConfirm ==
    ASSUME NEW j, NEW l, NEW d, NEW u, InvOf(j, l, d, u), d # << >>,
           Owing(j, l, d, u), Down(l, Tail(d), {}), Head(d).own = Block("CONFIRM_FINISH_TRADE")
    PROVE  LET k == on_linkcmd(j, Head(d).own)
           IN  InvOf(k, l, Tail(d), u) /\ Receives(j, k, l)
<1> DEFINE w == Head(d).own
           k == on_linkcmd(j, w)
           e == Tail(d)
<1>1. /\ IsJoiner(j) /\ DOMAIN j = JoinerFields /\ d \in Seq(FrameSet) /\ IsLeader(l)
      /\ j.party \in JoinerParty /\ j.round \in Nat
  BY DEF InvOf, IsJoiner
<1>2. w.cmd = "CONFIRM_FINISH_TRADE"
  BY DEF Block
<1>3. /\ j.host_cursor \in DOMAIN LeaderMons /\ j.host_party \in LeaderParty /\ j.round < Trades
      /\ ~j.cancelled /\ j.finish_sent /\ l.round = j.round + 1 /\ l.at \in {"saving", "party"}
  BY DEF Owing
<1>4. k = commit(j)
  BY <1>2, <1>3 DEF on_linkcmd
<1>5. j.host_cursor # None
  BY <1>3, LeaderAssumption
<1>6. NoView(l, e) /\ NoneDown(l, e, Ribbons) /\ (NoPull(l, d) => NoPull(l, e)) /\ OnePull(l, e)
  BY <1>1, DownLands, DownKept DEF Owing
<1>7. e \in Seq(FrameSet) /\ Passed(e, l.count)
  BY WordGone
<1> HIDE DEF k, w, e
<1>8. /\ DOMAIN k = JoinerFields
      /\ k.party = [j.party EXCEPT ![Offered[j.round + 1]] = j.host_party[j.host_cursor]]
      /\ k.round = j.round + 1 /\ k.lp_sent = j.lp_sent /\ k.party_sent = 0
      /\ k.host_party = << >> /\ k.ribbons = FALSE /\ k.anim = FALSE
      /\ k.cancel_wait = FALSE /\ (k.cancelled <=> j.cancelled)
      /\ k.pending_confirm = FALSE /\ k.push = j.push /\ k.sender = j.sender
      /\ k.bar = j.bar /\ (j.round + 1 >= Trades => k.leaving)
  BY <1>1, <1>4, <1>5, CommitIs
<1>9. Up(k, u, {}) /\ NoParty(k, u)
  <2>1. UpFlows(j, u, k, u)
    BY <1>8, UpSame
  <2> QED
    BY <2>1, UpKept DEF Owing
<1>10. Asked(k, l, e, u)
  BY <1>3, <1>6, <1>9 DEF Asked, Owing
<1>11. Apart(k, l, e, u)
  BY <1>3, <1>6, <1>8, <1>9, <1>10 DEF Apart, Before, SameRound, Shown, Still, e
<1>12. k.party \in JoinerParty
  <2>1. j.host_party[j.host_cursor] \in Mon
    BY <1>3 DEF LeaderParty
  <2> QED
    BY <1>1, <1>8, <2>1 DEF JoinerParty
<1>13. k.round \in Nat /\ (k.round < Trades \/ k.leaving)
  <2>1. Trades \in Nat
    BY JoinerAssumption, LenProperties DEF Trades
  <2> QED
    BY <1>1, <1>8, <2>1
<1>14. IsJoiner(k)
  <2>1. DOMAIN k = JoinerFields /\ k.party_sent \in Nat /\ ~k.pending_confirm
        /\ k.push = j.push /\ k.sender = j.sender
    BY <1>8
  <2> QED
    BY <1>1, <1>12, <1>13, <2>1 DEF IsJoiner
<1>15. Receives(j, k, l)
  BY <1>1, <1>3, <1>8 DEF Receives
<1> QED
  BY <1>7, <1>8, <1>11, <1>14, <1>15 DEF InvOf, Stage, k, w, e

\* Any word on the way out.
LEMMA TakesAway ==
    ASSUME NEW j, NEW l, NEW d, NEW u, InvOf(j, l, d, u), d # << >>,
           Leaving(j, l, d, u), Head(d).own \in TradeWord,
           Head(d).own # Block("CONFIRM_FINISH_TRADE")
    PROVE  LET k == on_linkcmd(j, Head(d).own)
           IN  InvOf(k, l, Tail(d), u) /\ Keeps(j, k, l)
<1> DEFINE w == Head(d).own
           k == on_linkcmd(j, w)
           e == Tail(d)
<1>1. /\ IsJoiner(j) /\ DOMAIN j = JoinerFields /\ d \in Seq(FrameSet) /\ BarOk(j.bar, l.count)
      /\ l.count \in Nat
  BY DEF InvOf, IsJoiner, IsLeader
<1>2. w.cmd \in TradeCmds /\ w.cmd # "CONFIRM_FINISH_TRADE"
  <2>1. w.cmd \in TradeCmds /\ (w.cmd # "SET_MONS_TO_TRADE" => w = Block(w.cmd))
    BY WordKinds, TradeWords
  <2> QED
    BY <2>1
<1>3. InvOf(j, l, e, u)
  BY WordGone
<1>4. Leaving(j, l, e, u)
  BY <1>1, DownLands, DownKept DEF Leaving
<1> HIDE DEF w, k, e
<1>5. Block("READY_CANCEL_TRADE") \in Move /\ Block("INIT_BLOCK") \in Move
  BY TheMoves
<1>6. IsJoiner(k) /\ k.round = j.round /\ k.party = j.party /\ BarOk(k.bar, l.count)
  <2>1. CASE w.cmd = "SET_MONS_TO_TRADE"
    <3>1. /\ Nearly(j, k) /\ k.bar = j.bar
          /\ k.push = j.push \/ \E m \in Move : k.push = <<m>>
      BY <1>1, <1>5, <2>1, ShowsIs DEF k
    <3> QED
      BY <1>1, <3>1, IsJoinerNow DEF Nearly
  <2>2. CASE w.cmd = "START_TRADE"
    <3>1. /\ DOMAIN k = JoinerFields
          /\ k.party = j.party /\ k.party_sent = j.party_sent
          /\ k.round = j.round
          /\ k.pending_confirm = j.pending_confirm /\ k.sender = j.sender
          /\ k.leaving = j.leaving /\ k.push = j.push /\ k.bar = j.bar
      BY <1>1, <2>2, StartsIs DEF k
    <3> QED
      BY <1>1, <3>1 DEF IsJoiner
  <2>3. CASE w.cmd \in {"PARTNER_CANCEL_TRADE", "PLAYER_CANCEL_TRADE"}
    <3>1. Nearly(j, k) /\ k.bar = j.bar /\ k.push = << >>
      BY <1>1, <2>3, BackIs DEF k
    <3> QED
      BY <1>1, <3>1, IsJoinerNow DEF Nearly
  <2>4. CASE w.cmd = "BOTH_CANCEL_TRADE"
    <3>1. Nearly(j, k) /\ k.push = j.push /\ k.bar = initiate(j.bar)
      BY <1>1, <2>4, BothIs DEF k
    <3>2. BarOk(k.bar, l.count)
      BY <1>1, <3>1, BarSteps
    <3> QED
      BY <1>1, <3>1, <3>2, IsJoinerNow DEF Nearly
  <2> QED
    BY <1>2, <2>1, <2>2, <2>3, <2>4 DEF TradeCmds
<1> QED
  BY <1>3, <1>4, <1>6, AwayStays DEF k, w, e

LEMMA TakesTrade ==
    ASSUME NEW j, NEW l, NEW d, NEW u, InvOf(j, l, d, u), d # << >>, Head(d).own \in TradeWord
    PROVE  LET k == on_linkcmd(j, Head(d).own)
           IN  InvOf(k, l, Tail(d), u) /\ JoinerMoves(j, k, l)
<1>1. CASE /\ Choosing(j, l, d, u) /\ l.reply = "none" /\ Up(j, u, {}) /\ Down(l, Tail(d), {})
           /\ Head(d).own.cmd \in {"PARTNER_CANCEL_TRADE", "PLAYER_CANCEL_TRADE"}
  BY <1>1, TakesBack DEF JoinerMoves
<1>2. CASE /\ Agreed(j, l, d, u) /\ l.at = "prompt" /\ l.reply = "none" /\ Up(j, u, {})
           /\ Down(l, Tail(d), {}) /\ ~j.cancel_wait /\ ~j.cancelled /\ ~j.anim
           /\ Head(d).own = Select("SET_MONS_TO_TRADE", l.mine)
  BY <1>2, TakesShown DEF JoinerMoves
<1>3. CASE /\ Agreed(j, l, d, u) /\ l.at \in InTrade /\ Up(j, u, {}) /\ Down(l, Tail(d), {})
           /\ ~l.finish /\ Head(d).own = Block("START_TRADE")
  BY <1>3, TakesStart DEF JoinerMoves
<1>4. CASE /\ Owing(j, l, d, u) /\ Down(l, Tail(d), {})
           /\ Head(d).own = Block("CONFIRM_FINISH_TRADE")
  BY <1>4, TakesConfirm DEF JoinerMoves
<1>5. CASE Leaving(j, l, d, u) /\ Head(d).own # Block("CONFIRM_FINISH_TRADE")
  BY <1>5, TakesAway DEF JoinerMoves
<1> QED
  BY <1>1, <1>2, <1>3, <1>4, <1>5, TradeWordLands

\* A block of the console, whatever it is.
LEMMA TakesBlock ==
    ASSUME NEW j, NEW l, NEW d, NEW u, InvOf(j, l, d, u), d # << >>, Head(d).own.op = "block"
    PROVE  LET k == on_host_block(j, Head(d).own)
           IN  InvOf(k, l, Tail(d), u) /\ JoinerMoves(j, k, l)
<1> DEFINE w == Head(d).own
           k == on_host_block(j, w)
<1>1. w \in LeaderWord /\ DOMAIN j = JoinerFields
  BY WordGone DEF InvOf, IsJoiner
<1>2. \/ w \in TradeWord /\ w.cmd \in TradeCmds
      \/ w \in TheirParty /\ w.cmd = "party"
      \/ w \in Ribbons /\ w.cmd = "ribbons"
      \/ w \in PlainWord /\ w.cmd \in {"link_player", "card"}
  BY <1>1, WordIs
<1>3. CASE w \in TradeWord /\ w.cmd \in TradeCmds
  <2>1. k = on_linkcmd(j, w)
    BY <1>3 DEF on_host_block, TradeCmds
  <2> QED
    BY <1>3, <2>1, TakesTrade
<1>4. CASE w \in TheirParty /\ w.cmd = "party"
  <2>1. k = on_host_party(j, w.mons)
    BY <1>4 DEF on_host_block
  <2> QED
    BY <1>4, <2>1, TakesParty DEF JoinerMoves
<1>5. CASE w \in Ribbons /\ w.cmd = "ribbons"
  <2>1. k = [j EXCEPT !.ribbons = TRUE]
    BY <1>5 DEF on_host_block
  <2> QED
    BY <1>5, <2>1, TakesRibbons DEF JoinerMoves
<1>6. CASE w.cmd = "card"
  <2>1. k = j
    BY <1>6 DEF on_host_block
  <2>2. Plain(j, k) /\ k.bar = j.bar
    BY <1>1, <2>1 DEF Plain, Alike
  <2> QED
    BY <2>2, TakesPlain DEF JoinerMoves
<1>7. CASE w.cmd = "link_player"
  <2>1. k = [j EXCEPT !.host_lp = TRUE, !.seat_over = @ \/ j.in_seat]
    BY <1>7 DEF on_host_block
  <2> HIDE DEF k, w
  <2>2. Plain(j, k) /\ k.bar = j.bar
    BY <1>1, <2>1 DEF Plain, Alike, JoinerFields
  <2> QED
    BY <2>2, TakesPlain DEF JoinerMoves, k, w
<1> QED
  BY <1>2, <1>3, <1>4, <1>5, <1>6, <1>7

\* A frame lands on the joiner.
LEMMA JoinerHears ==
    ASSUME NEW j, NEW l, NEW d, NEW u, InvOf(j, l, d, u), d # << >>
    PROVE  LET k == IF Head(d).own = Disconnect THEN [j EXCEPT !.gone = TRUE]
                    ELSE feed_in_frame(j, Head(d))
           IN  InvOf(k, l, Tail(d), u) /\ JoinerMoves(j, k, l)
<1> DEFINE f == Head(d)
           s == looks(j, f)
           k == feed_in_frame(j, f)
<1>1. DOMAIN j = JoinerFields /\ l.count \in Nat
  BY DEF InvOf, IsJoiner, IsLeader
<1>2. f.own.op = "standby" => f.own.count \in Nat /\ f.own.count < l.count
  BY WordGone
<1>3. InvOf([j EXCEPT !.gone = TRUE], l, Tail(d), u) /\ Keeps(j, [j EXCEPT !.gone = TRUE], l)
  <2>1. Plain(j, [j EXCEPT !.gone = TRUE]) /\ [j EXCEPT !.gone = TRUE].bar = j.bar
    BY <1>1 DEF Plain, Alike, JoinerFields
  <2> QED
    BY <2>1, TakesPlain
<1>4. k = CASE f.own.op = "req"   -> on_req(s, f.own.of)
            [] f.own.op = "block" -> on_host_block(s, f.own)
            [] OTHER              -> s
  BY DEF feed_in_frame, looks
<1>5. Steady(j, s, l.count)
  BY <1>1, <1>2, LooksSteady
<1> HIDE DEF s, k
<1>6. InvOf(s, l, d, u) /\ Keeps(j, s, l) /\ Alike(j, s)
  BY <1>5, SteadyKeeps DEF Steady
<1>7. InvOf(k, l, Tail(d), u) /\ JoinerMoves(s, k, l)
  <2>1. CASE f.own.op = "req"
    <3>1. k = on_req(s, f.own.of)
      BY <1>4, <2>1
    <3> QED
      BY <1>6, <2>1, <3>1, HearsReq DEF JoinerMoves
  <2>2. CASE f.own.op = "block"
    <3>1. k = on_host_block(s, f.own)
      BY <1>4, <2>2
    <3> QED
      BY <1>6, <2>2, <3>1, TakesBlock
  <2>3. CASE f.own.op \notin {"req", "block"}
    <3>1. k = s
      BY <1>4, <2>3
    <3> QED
      BY <1>6, <3>1, WordGone, KeepsOn DEF JoinerMoves
  <2> QED
    BY <2>1, <2>2, <2>3
<1>8. JoinerMoves(j, k, l)
  <2>1. CASE Keeps(s, k, l)
    BY <1>6, <2>1, KeepsOn DEF JoinerMoves
  <2>2. CASE Receives(s, k, l)
    BY <1>6, <2>2 DEF JoinerMoves, Receives, Alike
  <2> QED
    BY <1>7, <2>1, <2>2 DEF JoinerMoves
<1> QED
  BY <1>3, <1>7, <1>8 DEF JoinerMoves, k, f

-----------------------------------------------------------------------------
(* A tick of the joiner: the parts that hold the slot one after the other. *)

Land(u, w) == IF w = Yield THEN u ELSE Append(u, w)

\* Whatever it says, the stage is what it was.
Tells(j, l, d, u, o) ==
    /\ InvOf(o.j, l, d, Land(u, o.out)) /\ Keeps(j, o.j, l)
    /\ o.out = Yield \/ o.out \in Slot

LEMMA YieldIs == Yield \notin Slot /\ \A u : Land(u, Yield) = u /\ \A s \in Slot : Land(u, s) = Append(u, s)
BY SlotsApart DEF Land

LEMMA FillsSlot ==
    ASSUME NEW j, NEW l, NEW d, NEW u, InvOf(j, l, d, u), NEW s \in Filler
    PROVE  InvOf(j, l, d, Append(u, s)) /\ s \in Slot
<1>1. u \in Seq(Slot) /\ Stage(j, l, d, u)
  BY DEF InvOf
<1>2. UpFlows(j, u, j, Append(u, s)) /\ Append(u, s) \in Seq(Slot)
  BY <1>1, UpFills
<1>3. Stage(j, l, d, Append(u, s))
  BY <1>1, <1>2, SameFlows, StageKept
<1>4. s \in Slot
  BY SlotsApart
<1> QED
  BY <1>2, <1>3, <1>4 DEF InvOf

LEMMA TellsFiller ==
    ASSUME NEW j, NEW l, NEW d, NEW u, InvOf(j, l, d, u), NEW k, Steady(j, k, l.count)
    PROVE  /\ \A s \in Filler : Tells(j, l, d, u, Out(k, s))
           /\ Tells(j, l, d, u, Out(k, Yield))
<1>1. InvOf(k, l, d, u) /\ Keeps(j, k, l)
  BY SteadyKeeps
<1>2. \A s : Out(k, s).j = k /\ Out(k, s).out = s
  BY DEF Out
<1>3. ASSUME NEW s \in Filler PROVE Tells(j, l, d, u, Out(k, s))
  <2>1. InvOf(k, l, d, Append(u, s)) /\ s \in Slot
    BY <1>1, FillsSlot
  <2>2. Land(u, s) = Append(u, s)
    BY <2>1, YieldIs
  <2> QED
    BY <1>1, <1>2, <2>1, <2>2 DEF Tells
<1>4. Tells(j, l, d, u, Out(k, Yield))
  BY <1>1, <1>2, YieldIs DEF Tells
<1> QED
  BY <1>3, <1>4

LEMMA Fillers ==
    /\ Idle \in Filler /\ Busy \in Filler /\ Close \in Filler
    /\ \A n \in Nat : Standby(n) \in Filler
    /\ \A k \in {"EMPTY", "READY", "EXIT"} : Key(k) \in Filler
BY DEF Filler, Keys, Standbys

\* The sender is done.
LEMMA DoneIs ==
    ASSUME NEW j, NEW l, NEW d, NEW u, InvOf(j, l, d, u), holding(j)
    PROVE  InvOf(sender_done(j), l, d, u) /\ Keeps(j, sender_done(j), l)
<1> DEFINE k == sender_done(j)
           s == [j EXCEPT !.sender = << >>]
<1>1. IsJoiner(j) /\ DOMAIN j = JoinerFields
  BY DEF InvOf, IsJoiner
<1>2. /\ DOMAIN s = JoinerFields /\ Alike(j, s) /\ s.push = j.push /\ s.leaving = j.leaving
      /\ s.bar = j.bar /\ s.sender = << >>
  BY <1>1 DEF JoinerFields, Alike
<1>3. k = s \/ k = [s EXCEPT !.cancel_after_send = FALSE, !.state = "CANCEL", !.leaving = TRUE]
  BY DEF sender_done
<1> HIDE DEF k, s
<1>4. /\ DOMAIN k = JoinerFields /\ Alike(s, k) /\ k.push = s.push
      /\ k.leaving = s.leaving \/ k.leaving
      /\ k.bar = s.bar /\ k.sender = << >>
  <2>1. CASE k = s
    BY <1>2, <2>1 DEF Alike
  <2>2. CASE k = [s EXCEPT !.cancel_after_send = FALSE, !.state = "CANCEL", !.leaving = TRUE]
    BY <1>2, <2>2 DEF Alike, JoinerFields
  <2> QED
    BY <1>3, <2>1, <2>2
<1>5. Alike(j, k) /\ k.push = j.push /\ (k.leaving = j.leaving \/ k.leaving) /\ k.bar = j.bar
  BY <1>2, <1>4 DEF Alike
<1>6. pend(k) = pend(j)
  BY <1>4 DEF pend, holding, sending
<1>7. UpFlows(j, u, k, u)
  BY <1>5, <1>6 DEF UpFlows, NoneUp, OneUp
<1>8. Stage(k, l, d, u)
  BY <1>5, <1>7, SameFlows, StageKept DEF InvOf
<1>9. IsJoiner(k)
  BY <1>1, <1>4, <1>5 DEF IsJoiner, Alike
<1> QED
  BY <1>5, <1>8, <1>9, KeepsOn DEF InvOf, k

\* A fragment goes out, and the last one is the block.
LEMMA FragmentGoes ==
    ASSUME NEW j, NEW l, NEW d, NEW u, InvOf(j, l, d, u), sending(j), ~holding(j)
    PROVE  Tells(j, l, d, u, Out([j EXCEPT !.sender.left = @ - 1],
                                 IF j.sender.left = 1 THEN j.sender.block ELSE Busy))
<1> DEFINE k == [j EXCEPT !.sender.left = @ - 1]
           w == IF j.sender.left = 1 THEN j.sender.block ELSE Busy
<1>1. IsJoiner(j) /\ DOMAIN j = JoinerFields /\ u \in Seq(Slot) /\ Stage(j, l, d, u)
  BY DEF InvOf, IsJoiner
<1>2. PICK b \in JoinerBlock, n \in Nat : j.sender = [block |-> b, left |-> n]
  BY <1>1 DEF IsJoiner, sending
<1>3. n # 0 /\ j.sender.block = b /\ j.sender.left = n
  BY <1>2 DEF holding
<1>4. /\ DOMAIN k = JoinerFields /\ Alike(j, k) /\ k.push = j.push /\ k.leaving = j.leaving
      /\ k.bar = j.bar /\ k.sender = [j.sender EXCEPT !.left = @ - 1]
  BY <1>1 DEF JoinerFields, Alike
<1>5. w = (IF n = 1 THEN b ELSE Busy)
  BY <1>3
<1> HIDE DEF k, w
<1>6. k.sender = [block |-> b, left |-> n - 1] /\ n - 1 \in Nat
  BY <1>2, <1>3, <1>4
<1>7. k.sender # << >> /\ k.sender.left = n - 1 /\ k.sender.block = b
  <2>1. "left" \in DOMAIN [block |-> b, left |-> n - 1] /\ DOMAIN << >> = {}
    OBVIOUS
  <2> QED
    BY <1>6, <2>1
<1>8. b \in Slot /\ b # Yield
  BY SlotsApart
<1>9. pend(j) = <<b>>
  BY <1>2, <1>3 DEF pend, sending
<1>10. UpFlows(j, u, k, Append(u, w)) /\ Append(u, w) \in Seq(Slot) /\ w \in Slot
  <2>1. CASE n = 1
    <3>1. pend(k) = << >> /\ w = b
      BY <1>5, <1>7, <2>1 DEF pend
    <3>2. <<b>> \in Seq(Slot) /\ <<b>> # << >> /\ Head(<<b>>) = b /\ Tail(<<b>>) = << >>
      BY <1>8
    <3>3. \A W : /\ NoneIn(u, <<b>>, j.push, W) => NoneIn(Append(u, b), << >>, j.push, W)
                 /\ OneIn(u, <<b>>, j.push, W) => OneIn(Append(u, b), << >>, j.push, W)
      <4> SUFFICES ASSUME NEW W
                   PROVE  /\ NoneIn(u, <<b>>, j.push, W) => NoneIn(Append(u, b), << >>, j.push, W)
                          /\ OneIn(u, <<b>>, j.push, W) => OneIn(Append(u, b), << >>, j.push, W)
        OBVIOUS
      <4> DEFINE q == <<b>>
      <4>1. q \in Seq(Slot) /\ q # << >> /\ Head(q) = b /\ Tail(q) = << >>
        BY <3>2
      <4> HIDE DEF q
      <4>2. /\ NoneIn(u, q, j.push, W) => NoneIn(Append(u, Head(q)), Tail(q), j.push, W)
            /\ OneIn(u, q, j.push, W) => OneIn(Append(u, Head(q)), Tail(q), j.push, W)
        BY <1>1, <4>1, PipeSend
      <4> QED
        BY <4>1, <4>2 DEF q
    <3>4. Append(u, b) \in Seq(Slot)
      BY <1>1, <1>8, AppendIs
    <3> QED
      BY <1>4, <1>8, <1>9, <3>1, <3>3, <3>4 DEF UpFlows, NoneUp, OneUp
  <2>2. CASE n # 1
    <3>1. n - 1 > 0
      BY <1>3, <2>2
    <3>2. pend(k) = pend(j) /\ w = Busy
      BY <1>5, <1>7, <1>9, <2>2, <3>1 DEF pend, sending
    <3>3. UpFlows(j, u, j, Append(u, Busy)) /\ Append(u, Busy) \in Seq(Slot)
      BY <1>1, Fillers, UpFills
    <3>4. Busy \in Slot
      BY Fillers, SlotsApart
    <3> QED
      BY <1>4, <3>2, <3>3, <3>4 DEF UpFlows, NoneUp, OneUp
  <2> QED
    BY <2>1, <2>2
<1>11. Stage(k, l, d, Append(u, w))
  BY <1>1, <1>4, <1>10, SameFlows, StageKept
<1>12. IsJoiner(k)
  BY <1>1, <1>4, <1>6 DEF IsJoiner, Alike
<1>13. InvOf(k, l, d, Append(u, w)) /\ Keeps(j, k, l)
  BY <1>4, <1>10, <1>11, <1>12, KeepsOn DEF InvOf
<1>14. Out(k, w).j = k /\ Out(k, w).out = w /\ Land(u, w) = Append(u, w)
  BY <1>10, YieldIs DEF Out
<1>15. Tells(j, l, d, u, Out(k, w))
  BY <1>10, <1>13, <1>14 DEF Tells
<1> QED
  BY <1>15 DEF k, w

LEMMA SenderTells ==
    ASSUME NEW j, NEW l, NEW d, NEW u, InvOf(j, l, d, u)
    PROVE  /\ Tells(j, l, d, u, tick_sender(j))
           /\ tick_sender(j).out = Yield => tick_sender(j).j = j /\ pend(j) = << >>
<1>1. DOMAIN j = JoinerFields /\ IsJoiner(j)
  BY DEF InvOf, IsJoiner
<1>2. CASE ~sending(j) \/ (holding(j) /\ ~j.mirrored)
  <2>1. tick_sender(j) = Out(j, Yield)
    BY <1>2 DEF tick_sender, holding
  <2>2. pend(j) = << >>
    BY <1>2 DEF pend, holding, sending
  <2>3. Steady(j, j, l.count)
    BY <1>1, SteadyOn
  <2> QED
    BY <2>1, <2>2, <2>3, TellsFiller DEF Out
<1>3. CASE holding(j) /\ j.mirrored
  <2>1. tick_sender(j) = Out(sender_done(j), Idle)
    BY <1>3 DEF tick_sender, holding
  <2>2. InvOf(sender_done(j), l, d, u) /\ Keeps(j, sender_done(j), l)
    BY <1>3, DoneIs
  <2>3. InvOf(sender_done(j), l, d, Append(u, Idle)) /\ Idle \in Slot
    BY <2>2, Fillers, FillsSlot
  <2>4. Out(sender_done(j), Idle).j = sender_done(j) /\ Out(sender_done(j), Idle).out = Idle
    BY DEF Out
  <2>5. Idle # Yield /\ Land(u, Idle) = Append(u, Idle)
    BY <2>3, YieldIs
  <2> HIDE DEF sender_done
  <2> QED
    BY <2>1, <2>2, <2>3, <2>4, <2>5 DEF Tells
<1>4. CASE sending(j) /\ ~holding(j)
  <2> DEFINE k == [j EXCEPT !.sender.left = @ - 1]
             w == IF j.sender.left = 1 THEN j.sender.block ELSE Busy
  <2>1. tick_sender(j) = Out(k, w)
    BY <1>4 DEF tick_sender
  <2>2. Tells(j, l, d, u, Out(k, w))
    BY <1>4, FragmentGoes
  <2>3. w # Yield
    <3>1. PICK b \in JoinerBlock, n \in Nat : j.sender = [block |-> b, left |-> n]
      BY <1>1, <1>4 DEF IsJoiner, sending
    <3>2. Busy # Yield /\ b # Yield
      BY Fillers, SlotsApart
    <3> QED
      BY <3>1, <3>2
  <2> HIDE DEF k, w
  <2> QED
    BY <2>1, <2>2, <2>3 DEF Out
<1> QED
  BY <1>2, <1>3, <1>4

-----------------------------------------------------------------------------
(* The barriers.                                                           *)

\* What barrier_words does it does to the barrier.
LEMMA BarrierSpeaks ==
    ASSUME NEW j, NEW l, NEW d, NEW u, InvOf(j, l, d, u), NEW k, Steady(j, k, l.count)
    PROVE  Tells(j, l, d, u, barrier_words(k)) /\ barrier_words(k).out # Yield
<1> DEFINE m == [k EXCEPT !.bar = emitted(@)]
<1>1. DOMAIN k = JoinerFields /\ l.count \in Nat /\ BarOk(k.bar, l.count)
  BY DEF InvOf, IsLeader, Steady
<1>2. Plain(k, m) /\ m.bar = emitted(k.bar)
  BY <1>1 DEF Plain, Alike, JoinerFields
<1>3. Steady(k, m, l.count)
  BY <1>1, <1>2, BarSteps, PlainIsSteady
<1>4. k.bar.local \in Nat
  BY <1>1 DEF BarOk
<1>5. \/ barrier_words(k) = Out(m, Close)
      \/ barrier_words(k) = Out(m, Standby(k.bar.local))
      \/ barrier_words(k) = Out(k, Idle)
  BY DEF barrier_words
<1> HIDE DEF m
<1>6. Steady(j, m, l.count)
  BY <1>3, SteadyOn
<1>7. /\ Close \in Filler /\ Standby(k.bar.local) \in Filler /\ Idle \in Filler
      /\ \A s \in Filler : s # Yield
  BY <1>4, Fillers, SlotsApart
<1>8. \A x, s : Out(x, s).out = s
  BY DEF Out
<1>9. /\ \A s \in Filler : Tells(j, l, d, u, Out(m, s))
      /\ \A s \in Filler : Tells(j, l, d, u, Out(k, s))
  BY <1>6, TellsFiller
<1> QED
  BY <1>5, <1>7, <1>8, <1>9

LEMMA BarsSame ==
    ASSUME NEW j, DOMAIN j = JoinerFields, NEW c \in Nat, BarOk(j.bar, c)
    PROVE  /\ Steady(j, enter_return(j), c)
           /\ Steady(j, [j EXCEPT !.return_barrier = FALSE, !.done = TRUE, !.post_cancel = TRUE], c)
           /\ Steady(j, [j EXCEPT !.bar = IF active(@) THEN @ ELSE initiate(@)], c)
           /\ Steady(j, enter_seam(j), c)
<1>1. BarOk(initiate(j.bar), c)
  BY BarSteps
<1>2. Steady(j, j, c)
  BY SteadyOn
<1>3. Steady(j, enter_return(j), c)
  <2> DEFINE k == [j EXCEPT !.cancel_barrier = FALSE, !.return_barrier = TRUE, !.bar = initiate(@)]
  <2>1. Plain(j, k) /\ k.bar = initiate(j.bar)
    BY DEF Plain, Alike, JoinerFields
  <2>2. enter_return(j) = k \/ enter_return(j) = j
    BY DEF enter_return
  <2> HIDE DEF k
  <2> QED
    BY <1>1, <1>2, <2>1, <2>2, PlainIsSteady
<1>4. Steady(j, [j EXCEPT !.return_barrier = FALSE, !.done = TRUE, !.post_cancel = TRUE], c)
  BY DEF Steady, Alike, JoinerFields
<1>5. Steady(j, [j EXCEPT !.bar = IF active(@) THEN @ ELSE initiate(@)], c)
  <2> DEFINE k == [j EXCEPT !.bar = IF active(@) THEN @ ELSE initiate(@)]
  <2>1. Plain(j, k) /\ (k.bar = initiate(j.bar) \/ k.bar = j.bar)
    BY DEF Plain, Alike, JoinerFields
  <2> HIDE DEF k
  <2>2. Steady(j, k, c)
    BY <1>1, <2>1, PlainIsSteady
  <2> QED
    BY <2>2 DEF k
<1>6. Steady(j, enter_seam(j), c)
  <2> DEFINE k == [j EXCEPT !.seam = TRUE, !.bar = initiate(@)]
  <2>1. Plain(j, k) /\ k.bar = initiate(j.bar)
    BY DEF Plain, Alike, JoinerFields
  <2>2. enter_seam(j) = k \/ enter_seam(j) = j
    BY DEF enter_seam
  <2> HIDE DEF k
  <2> QED
    BY <1>1, <1>2, <2>1, <2>2, PlainIsSteady
<1> QED
  BY <1>3, <1>4, <1>5, <1>6

LEMMA ExitTells ==
    ASSUME NEW j, NEW l, NEW d, NEW u, InvOf(j, l, d, u)
    PROVE  /\ Tells(j, l, d, u, tick_exit_barriers(j))
           /\ tick_exit_barriers(j).out = Yield => Steady(j, tick_exit_barriers(j).j, l.count)
<1> DEFINE k == enter_return(j)
           m == [k EXCEPT !.return_barrier = FALSE, !.done = TRUE, !.post_cancel = TRUE]
<1>1. DOMAIN j = JoinerFields /\ l.count \in Nat /\ BarOk(j.bar, l.count)
  BY DEF InvOf, IsJoiner, IsLeader
<1>2. Steady(j, k, l.count)
  BY <1>1, BarsSame
<1>3. \/ tick_exit_barriers(j) = barrier_words(k)
      \/ tick_exit_barriers(j) = Out(m, Yield)
      \/ tick_exit_barriers(j) = Out(k, Yield)
  BY DEF tick_exit_barriers
<1> HIDE DEF k
<1>4. DOMAIN k = JoinerFields /\ BarOk(k.bar, l.count)
  BY <1>1, <1>2 DEF Steady
<1>5. Steady(j, m, l.count)
  <2>1. Steady(k, m, l.count)
    BY <1>1, <1>4, BarsSame
  <2> HIDE DEF m
  <2> QED
    BY <1>2, <2>1, SteadyOn
<1> HIDE DEF m
<1>6. CASE tick_exit_barriers(j) = barrier_words(k)
  BY <1>2, <1>6, BarrierSpeaks
<1>7. CASE tick_exit_barriers(j) = Out(m, Yield)
  BY <1>5, <1>7, TellsFiller DEF Out
<1>8. CASE tick_exit_barriers(j) = Out(k, Yield)
  BY <1>2, <1>8, TellsFiller DEF Out
<1> QED
  BY <1>3, <1>6, <1>7, <1>8

LEMMA SaveTells ==
    ASSUME NEW j, NEW l, NEW d, NEW u, InvOf(j, l, d, u)
    PROVE  /\ Tells(j, l, d, u, tick_save_chain(j))
           /\ tick_save_chain(j).out = Yield => Steady(j, tick_save_chain(j).j, l.count)
<1> DEFINE k == [j EXCEPT !.bar = IF active(@) THEN @ ELSE initiate(@)]
<1>1. DOMAIN j = JoinerFields /\ l.count \in Nat /\ BarOk(j.bar, l.count)
  BY DEF InvOf, IsJoiner, IsLeader
<1>2. Steady(j, k, l.count) /\ Steady(j, j, l.count)
  BY <1>1, BarsSame, SteadyOn
<1>3. \/ tick_save_chain(j) = Out(j, Yield)
      \/ tick_save_chain(j) = barrier_words(k)
  BY DEF tick_save_chain
<1> HIDE DEF k
<1>4. CASE tick_save_chain(j) = barrier_words(k)
  BY <1>2, <1>4, BarrierSpeaks
<1>5. CASE tick_save_chain(j) = Out(j, Yield)
  BY <1>2, <1>5, TellsFiller DEF Out
<1> QED
  BY <1>3, <1>4, <1>5

-----------------------------------------------------------------------------
(* The standbys of the entry.                                              *)

LEMMA WarpTells ==
    ASSUME NEW j, NEW l, NEW d, NEW u, InvOf(j, l, d, u)
    PROVE  Tells(j, l, d, u, tick_warp_standbys(j))
<1> DEFINE n == IF j.card_supplied THEN 1 ELSE 0
           k == [j EXCEPT !.warp = @ \cup {n}]
<1>1. DOMAIN j = JoinerFields
  BY DEF InvOf, IsJoiner
<1>2. Steady(j, k, l.count) /\ Steady(j, j, l.count)
  BY <1>1, SteadyOn DEF Steady, Alike, JoinerFields
<1>3. Standby(n) \in Filler /\ Idle \in Filler
  BY Fillers
<1>4. \/ tick_warp_standbys(j) = Out(j, Yield)
      \/ tick_warp_standbys(j) = Out(j, Idle)
      \/ tick_warp_standbys(j) = Out(k, Standby(n))
  BY DEF tick_warp_standbys
<1> HIDE DEF n, k
<1> QED
  BY <1>2, <1>3, <1>4, TellsFiller

LEMMA SeatTells ==
    ASSUME NEW j, NEW l, NEW d, NEW u, InvOf(j, l, d, u), NEW over, NEW resend
    PROVE  Tells(j, l, d, u, tick_seat_standbys(j, over, resend))
<1> DEFINE n == IF host_reached(j) < 2 THEN 2 ELSE 3
           k == [j EXCEPT !.warp = @ \cup {n}]
           m == [j EXCEPT !.post_wait = ~over]
<1>1. DOMAIN j = JoinerFields
  BY DEF InvOf, IsJoiner
<1>2. Steady(j, k, l.count) /\ Steady(j, j, l.count) /\ Steady(j, m, l.count)
  BY <1>1, SteadyOn DEF Steady, Alike, JoinerFields
<1>3. Standby(n) \in Filler /\ Idle \in Filler
  BY Fillers
<1>4. sustain(j, n, resend) = Out(j, Idle) \/ sustain(j, n, resend) = Out(k, Standby(n))
  BY DEF sustain
<1>5. \/ tick_seat_standbys(j, over, resend) = Out(j, Yield)
      \/ tick_seat_standbys(j, over, resend) = Out(j, Idle)
      \/ tick_seat_standbys(j, over, resend) = Out(m, Idle)
      \/ tick_seat_standbys(j, over, resend) = sustain(j, n, resend)
  BY DEF tick_seat_standbys
<1> HIDE DEF n, k, m
<1> QED
  BY <1>2, <1>3, <1>4, <1>5, TellsFiller

-----------------------------------------------------------------------------
(* The countdowns, the offer and the block that waits.                     *)

\* The countdown of a refusal ends with READY_CANCEL_TRADE.
LEMMA Refuses ==
    ASSUME NEW j, NEW l, NEW d, NEW u, InvOf(j, l, d, u), j.cancel_wait
    PROVE  LET k == [j EXCEPT !.cancel_wait = FALSE, !.push = <<Block("READY_CANCEL_TRADE")>>]
           IN  InvOf(k, l, d, u) /\ Keeps(j, k, l) /\ k.sender = j.sender
<1> DEFINE k == [j EXCEPT !.cancel_wait = FALSE, !.push = <<Block("READY_CANCEL_TRADE")>>]
<1>1. IsJoiner(j) /\ DOMAIN j = JoinerFields /\ Stage(j, l, d, u)
  BY DEF InvOf, IsJoiner
<1>2. /\ Nearly(j, k) /\ k.bar = j.bar /\ k.host_cursor = j.host_cursor /\ k.selected = j.selected
      /\ k.push = <<Block("READY_CANCEL_TRADE")>> /\ ~k.cancel_wait /\ k.sender = j.sender
  BY <1>1 DEF Nearly, JoinerFields
<1> HIDE DEF k
<1>3. Block("READY_CANCEL_TRADE") \in Move
  BY TheMoves
<1>4. IsJoiner(k) /\ k.round = j.round /\ k.party = j.party
  BY <1>1, <1>2, <1>3, IsJoinerNow DEF Nearly
<1>5. CASE Apart(j, l, d, u) \/ Choosing(j, l, d, u) \/ Owing(j, l, d, u)
  BY <1>5 DEF Apart, Choosing, Owing, Still
<1>6. CASE Agreed(j, l, d, u)
  <2>1. l.at = "prompt" /\ Answering(j, l, d, u) /\ ~j.anim
    BY <1>6 DEF Agreed
  <2>2. l.reply = "none" /\ Down(l, d, {}) /\ Up(j, u, {})
    BY <2>1 DEF Answering
  <2>3. Up(k, u, {Block("READY_CANCEL_TRADE")}) /\ NoParty(k, u)
    BY <1>1, <1>2, <1>3, <1>6, <2>2, UpMoves DEF Agreed
  <2>4. Answering(k, l, d, u)
    BY <1>2, <2>2, <2>3 DEF Answering
  <2>5. Promised(k, l) /\ SameRound(k, l) /\ l.theirs = Offered[k.round + 1]
    BY <1>2, <1>6 DEF Agreed, Promised, SameRound, Nearly
  <2>6. Agreed(k, l, d, u)
    BY <1>2, <1>6, <2>1, <2>3, <2>4, <2>5 DEF Agreed, Nearly
  <2>7. Keeps(j, k, l)
    BY <1>2, <1>6 DEF Agreed, SameRound, Keeps, Nearly
  <2> QED
    BY <1>2, <1>4, <2>6, <2>7 DEF InvOf, Stage, k
<1>7. CASE Leaving(j, l, d, u)
  <2>1. BarOk(k.bar, l.count)
    BY <1>2 DEF InvOf
  <2> QED
    BY <1>2, <1>4, <1>7, <2>1, AwayStays DEF k
<1> QED
  BY <1>1, <1>5, <1>6, <1>7 DEF Stage

\* The animation ends with READY_FINISH_TRADE.
LEMMA Finishes ==
    ASSUME NEW j, NEW l, NEW d, NEW u, InvOf(j, l, d, u), j.anim
    PROVE  LET k == [j EXCEPT !.anim = FALSE, !.push = <<Block("READY_FINISH_TRADE")>>,
                              !.finish_sent = TRUE]
           IN  InvOf(k, l, d, u) /\ Keeps(j, k, l) /\ k.sender = j.sender
<1> DEFINE k == [j EXCEPT !.anim = FALSE, !.push = <<Block("READY_FINISH_TRADE")>>,
                          !.finish_sent = TRUE]
<1>1. IsJoiner(j) /\ DOMAIN j = JoinerFields /\ Stage(j, l, d, u)
  BY DEF InvOf, IsJoiner
<1>2. /\ DOMAIN k = JoinerFields
      /\ k.lp_sent = j.lp_sent /\ k.party = j.party /\ k.party_sent = j.party_sent
      /\ k.host_party = j.host_party /\ k.ribbons = j.ribbons /\ k.selected = j.selected
      /\ k.round = j.round /\ k.pending_confirm = j.pending_confirm /\ k.sender = j.sender
      /\ k.leaving = j.leaving /\ k.bar = j.bar /\ k.host_cursor = j.host_cursor
      /\ k.cancel_wait = j.cancel_wait /\ (k.cancelled <=> j.cancelled)
      /\ ~k.anim /\ k.finish_sent /\ k.push = <<Block("READY_FINISH_TRADE")>>
  BY <1>1 DEF JoinerFields
<1> HIDE DEF k
<1>3. Block("READY_FINISH_TRADE") \in Move
  BY TheMoves
<1>4. IsJoiner(k)
  BY <1>1, <1>2, <1>3 DEF IsJoiner
<1>5. CASE Apart(j, l, d, u) \/ Choosing(j, l, d, u) \/ Owing(j, l, d, u)
  BY <1>5 DEF Apart, Choosing, Owing, Still
<1>6. CASE Agreed(j, l, d, u)
  <2>1. /\ l.at \in InTrade /\ j.host_cursor = l.mine /\ ~j.cancel_wait /\ ~j.cancelled
        /\ Watching(j, l, d, u)
    BY <1>6 DEF Agreed
  <2>2. Down(l, d, {}) /\ Up(j, u, {}) /\ ~l.finish
    BY <2>1 DEF Watching
  <2>3. Up(k, u, {Block("READY_FINISH_TRADE")}) /\ NoParty(k, u)
    BY <1>1, <1>2, <1>3, <1>6, <2>2, UpMoves DEF Agreed
  <2>4. Watching(k, l, d, u)
    BY <1>2, <2>2, <2>3 DEF Watching
  <2>5. Promised(k, l) /\ SameRound(k, l) /\ l.theirs = Offered[k.round + 1]
    BY <1>2, <1>6 DEF Agreed, Promised, SameRound
  <2>6. Agreed(k, l, d, u)
    BY <1>2, <1>6, <2>1, <2>3, <2>4, <2>5 DEF Agreed
  <2>7. Keeps(j, k, l)
    BY <1>2 DEF Keeps
  <2> QED
    BY <1>2, <1>4, <2>6, <2>7 DEF InvOf, Stage, k
<1>7. CASE Leaving(j, l, d, u)
  <2>1. BarOk(k.bar, l.count)
    BY <1>2 DEF InvOf
  <2> QED
    BY <1>2, <1>4, <1>7, <2>1, AwayStays DEF k
<1> QED
  BY <1>1, <1>5, <1>6, <1>7 DEF Stage

LEMMA TimersRun ==
    ASSUME NEW j, NEW l, NEW d, NEW u, InvOf(j, l, d, u), NEW over
    PROVE  LET k == advance_timers(j, over)
           IN  InvOf(k, l, d, u) /\ Keeps(j, k, l) /\ k.sender = j.sender
<1> DEFINE k == advance_timers(j, over)
           s == [j EXCEPT !.reselect = FALSE]
           r == [j EXCEPT !.cancel_wait = FALSE, !.push = <<Block("READY_CANCEL_TRADE")>>]
           f == [j EXCEPT !.anim = FALSE, !.push = <<Block("READY_FINISH_TRADE")>>,
                          !.finish_sent = TRUE]
<1>1. DOMAIN j = JoinerFields /\ ~j.pending_confirm
  BY DEF InvOf, IsJoiner
<1>2. \/ k = j \/ k = s
      \/ j.cancel_wait /\ k = r
      \/ j.anim /\ k = f
  BY <1>1 DEF advance_timers
<1>3. Steady(j, s, l.count)
  BY <1>1 DEF Steady, Alike, JoinerFields
<1> HIDE DEF k, s
<1>4. j.cancel_wait => InvOf(r, l, d, u) /\ Keeps(j, r, l) /\ r.sender = j.sender
  BY Refuses
<1>5. j.anim => InvOf(f, l, d, u) /\ Keeps(j, f, l) /\ f.sender = j.sender
  BY Finishes
<1> HIDE DEF r, f
<1>6. InvOf(s, l, d, u) /\ Keeps(j, s, l) /\ s.sender = j.sender
  BY <1>3, SteadyKeeps
<1> QED
  BY <1>2, <1>4, <1>5, <1>6, KeepsOn DEF k

\* The joiner chooses, or gives up.
LEMMA Offers ==
    ASSUME NEW j, NEW l, NEW d, NEW u, InvOf(j, l, d, u)
    PROVE  LET k == select_offer(j)
           IN  InvOf(k, l, d, u) /\ Keeps(j, k, l) /\ k.sender = j.sender
<1> DEFINE k == select_offer(j)
           may == ~j.selected /\ j.state = "S4" /\ ~j.reselect /\ trade_menu_live(j) /\ j.push = << >>
           c == [j EXCEPT !.selected = TRUE, !.seat_over = TRUE, !.push = <<Block("REQUEST_CANCEL")>>,
                          !.requested_cancel = TRUE, !.cancelled = TRUE]
           t == [j EXCEPT !.selected = TRUE, !.seat_over = TRUE, !.state = "S5",
                          !.push = <<Select("READY_TO_TRADE", Offered[j.round + 1])>>]
<1>1. IsJoiner(j) /\ DOMAIN j = JoinerFields /\ Stage(j, l, d, u)
  BY DEF InvOf, IsJoiner
<1>2. \/ k = j
      \/ may /\ j.leaving /\ k = c
      \/ may /\ ~j.leaving /\ k = t
  BY DEF select_offer
<1>3. may => /\ ~j.selected /\ j.host_party # << >> /\ j.lp_sent /\ j.party_sent >= 1 /\ j.ribbons
             /\ j.push = << >>
  BY DEF trade_menu_live
<1>4. /\ DOMAIN c = JoinerFields
      /\ c.lp_sent = j.lp_sent /\ c.party = j.party /\ c.party_sent = j.party_sent
      /\ c.host_party = j.host_party /\ c.ribbons = j.ribbons /\ c.selected
      /\ c.round = j.round /\ c.pending_confirm = j.pending_confirm /\ c.sender = j.sender
      /\ c.leaving = j.leaving /\ c.bar = j.bar /\ c.host_cursor = j.host_cursor
      /\ c.cancel_wait = j.cancel_wait /\ c.anim = j.anim
      /\ c.push = <<Block("REQUEST_CANCEL")>>
  BY <1>1 DEF JoinerFields
<1>5. /\ DOMAIN t = JoinerFields
      /\ t.lp_sent = j.lp_sent /\ t.party = j.party /\ t.party_sent = j.party_sent
      /\ t.host_party = j.host_party /\ t.ribbons = j.ribbons /\ t.selected
      /\ t.round = j.round /\ t.pending_confirm = j.pending_confirm /\ t.sender = j.sender
      /\ t.leaving = j.leaving /\ t.bar = j.bar /\ t.host_cursor = j.host_cursor
      /\ t.cancel_wait = j.cancel_wait /\ t.anim = j.anim /\ (t.cancelled <=> j.cancelled)
      /\ t.push = <<offer(j)>>
  BY <1>1 DEF JoinerFields, offer
<1> HIDE DEF k, may, c, t
<1>6. ~j.leaving => j.round < Trades /\ offer(j) \in Move
  <2> SUFFICES ASSUME ~j.leaving PROVE j.round < Trades /\ offer(j) \in Move
    OBVIOUS
  <2>1. j.round < Trades /\ j.round \in Nat
    BY <1>1 DEF IsJoiner
  <2>2. Offered[j.round + 1] \in DOMAIN JoinerMons
    BY <2>1, OfferedIs
  <2> QED
    BY <2>1, <2>2, TheMoves DEF offer
<1>7. Block("REQUEST_CANCEL") \in Move
  BY TheMoves
<1>8. IsJoiner(c)
  BY <1>1, <1>4, <1>7 DEF IsJoiner
<1>9. ~j.leaving => IsJoiner(t)
  BY <1>1, <1>5, <1>6 DEF IsJoiner
<1>10. may => Choosing(j, l, d, u) \/ Leaving(j, l, d, u)
  BY <1>1, <1>3 DEF Stage, Apart, Agreed, Owing, Promised
<1>11. ASSUME may, Choosing(j, l, d, u)
       PROVE  /\ j.leaving => InvOf(c, l, d, u) /\ Keeps(j, c, l)
              /\ ~j.leaving => InvOf(t, l, d, u) /\ Keeps(j, t, l)
  <2>1. l.reply = "none" /\ Down(l, d, {}) /\ Up(j, u, {}) /\ ~j.cancelled
    BY <1>3, <1>11 DEF Choosing, AtMenu, Promised
  <2>2. Up(c, u, {Block("REQUEST_CANCEL")}) /\ NoParty(c, u)
    BY <1>1, <1>4, <1>7, <1>11, <2>1, UpMoves DEF Choosing
  <2>3. ~j.leaving => Up(t, u, {offer(j)}) /\ NoParty(t, u)
    BY <1>1, <1>5, <1>6, <1>11, <2>1, UpMoves DEF Choosing
  <2>4. j.host_party = l.party /\ l.view = j.party
    BY <1>3, <1>11 DEF Choosing, Shown, Before
  <2>5. AtMenu(c, l, d, u)
    BY <1>4, <2>1, <2>2 DEF AtMenu
  <2>6. ~j.leaving => AtMenu(t, l, d, u)
    <3>1. ~j.leaving => Promised(t, l) /\ offer(t) = offer(j)
      BY <1>3, <1>5, <1>6, <1>11, <2>4 DEF Promised, offer
    <3> QED
      BY <1>5, <2>1, <2>3, <3>1 DEF AtMenu
  <2>7. Shown(c, l, d) /\ Shown(t, l, d)
    BY <1>4, <1>5, <1>11 DEF Choosing, Shown
  <2>8. Choosing(c, l, d, u)
    BY <1>4, <1>11, <2>2, <2>5, <2>7 DEF Choosing, SameRound, Still
  <2>9. ~j.leaving => Choosing(t, l, d, u)
    BY <1>5, <1>11, <2>3, <2>6, <2>7 DEF Choosing, SameRound, Still
  <2> QED
    BY <1>4, <1>5, <1>8, <1>9, <2>8, <2>9 DEF InvOf, Stage, Keeps
<1>12. ASSUME may, Leaving(j, l, d, u)
       PROVE  /\ InvOf(c, l, d, u) /\ Keeps(j, c, l)
              /\ ~j.leaving => InvOf(t, l, d, u) /\ Keeps(j, t, l)
  <2>1. BarOk(c.bar, l.count) /\ BarOk(t.bar, l.count)
    BY <1>4, <1>5 DEF InvOf
  <2>2. InvOf(c, l, d, u) /\ Keeps(j, c, l)
    BY <1>4, <1>8, <1>12, <2>1, AwayStays
  <2>3. ~j.leaving => InvOf(t, l, d, u) /\ Keeps(j, t, l)
    BY <1>5, <1>9, <1>12, <2>1, AwayStays
  <2> QED
    BY <2>2, <2>3
<1> QED
  BY <1>2, <1>4, <1>5, <1>10, <1>11, <1>12, KeepsOn DEF k

\* The block that waits is being sent; a cancel is remembered.
LEMMA StartsPush ==
    ASSUME NEW j, NEW l, NEW d, NEW u, InvOf(j, l, d, u), pend(j) = << >>, j.push # << >>
    PROVE  LET b == Head(j.push)
               c == b.cmd \in {"REQUEST_CANCEL", "READY_CANCEL_TRADE"}
               k == begin_send([j EXCEPT !.push = << >>, !.cancel_after_send = @ \/ c,
                                         !.cancelled = @ \/ c], b)
           IN  InvOf(k, l, d, u) /\ Keeps(j, k, l)
<1> DEFINE b == Head(j.push)
           c == b.cmd \in {"REQUEST_CANCEL", "READY_CANCEL_TRADE"}
           s == [j EXCEPT !.push = << >>, !.cancel_after_send = @ \/ c, !.cancelled = @ \/ c]
           k == begin_send(s, b)
<1>1. IsJoiner(j) /\ DOMAIN j = JoinerFields /\ Stage(j, l, d, u)
  BY DEF InvOf, IsJoiner
<1>2. b \in Move /\ j.push = <<b>>
  BY <1>1 DEF IsJoiner
<1>3. /\ DOMAIN s = JoinerFields
      /\ s.lp_sent = j.lp_sent /\ s.party = j.party /\ s.party_sent = j.party_sent
      /\ s.host_party = j.host_party /\ s.ribbons = j.ribbons /\ s.selected = j.selected
      /\ s.round = j.round /\ s.pending_confirm = j.pending_confirm
      /\ s.leaving = j.leaving /\ s.bar = j.bar /\ s.host_cursor = j.host_cursor
      /\ s.cancel_wait = j.cancel_wait /\ s.anim = j.anim /\ s.finish_sent = j.finish_sent
      /\ s.push = << >> /\ (s.cancelled <=> j.cancelled \/ c)
  BY <1>1 DEF JoinerFields
<1> HIDE DEF s, k
<1>4. b \in JoinerBlock
  BY <1>2 DEF JoinerBlock
<1>5. /\ DOMAIN k = JoinerFields /\ Alike(s, k) /\ k.push = s.push /\ k.leaving = s.leaving
      /\ k.bar = s.bar /\ k.sender = [block |-> b, left |-> BlockFrames] /\ pend(k) = <<b>>
  BY <1>3, <1>4, Begins DEF k
<1>6. UpFlows(j, u, k, u)
  <2>1. \A W : /\ NoneIn(u, << >>, <<b>>, W) => NoneIn(u, <<b>>, << >>, W)
               /\ OneIn(u, << >>, <<b>>, W) => OneIn(u, <<b>>, << >>, W)
    BY PipeStart
  <2> QED
    BY <1>2, <1>3, <1>5, <2>1 DEF UpFlows, NoneUp, OneUp
<1>7. BlockFrames \in Nat
  BY JoinerAssumption
<1>8. IsJoiner(k)
  BY <1>1, <1>3, <1>4, <1>5, <1>7 DEF IsJoiner, Alike
<1>9. CASE ~c \/ j.cancelled
  <2>1. (k.cancelled <=> j.cancelled)
    BY <1>1, <1>3, <1>5, <1>9 DEF Alike
  <2>2. Alike(j, k)
    BY <1>3, <1>5, <2>1 DEF Alike
  <2>3. Stage(k, l, d, u)
    BY <1>1, <1>6, <2>2, SameFlows, StageKept
  <2> QED
    BY <1>3, <1>5, <1>8, <2>2, <2>3, KeepsOn DEF InvOf, k, s
<1>10. CASE c
  <2>1. \A A : Up(j, u, A) => b \in A
    <3>1. \A A : Up(j, u, A) => \E m \in A \cap Move : j.push = <<m>>
      BY <1>1, PushIs
    <3>2. \A m : <<b>> = <<m>> => b = m
      OBVIOUS
    <3> QED
      BY <1>2, <3>1, <3>2
  <2>2. /\ \A A : Up(j, u, A) => Up(k, u, A)
        /\ NoParty(j, u) => NoParty(k, u)
    BY <1>3, <1>5, <1>6, UpKept DEF Alike
  <2>3. CASE Apart(j, l, d, u) \/ Owing(j, l, d, u)
    BY <2>1, <2>3 DEF Apart, Owing
  <2>4. CASE Choosing(j, l, d, u)
    <3>1. offer(j) # b
      BY <1>10 DEF offer, Select
    <3>2. l.reply = "none" /\ Down(l, d, {}) /\ Up(j, u, {Block("REQUEST_CANCEL")}) /\ j.selected
      BY <2>1, <2>4, <3>1 DEF Choosing, AtMenu
    <3>3. AtMenu(k, l, d, u)
      BY <1>3, <1>5, <2>2, <3>2 DEF AtMenu, Alike
    <3>4. Shown(k, l, d)
      BY <1>3, <1>5, <2>4 DEF Choosing, Shown, Alike
    <3>5. Choosing(k, l, d, u)
      BY <1>3, <1>5, <2>2, <2>4, <3>3, <3>4 DEF Choosing, SameRound, Still, Alike
    <3>6. Keeps(j, k, l)
      BY <1>3, <1>5 DEF Keeps, Alike
    <3> QED
      BY <1>3, <1>5, <1>8, <3>5, <3>6 DEF InvOf, Stage, k, s
  <2>5. CASE Agreed(j, l, d, u)
    <3>1. /\ Block("INIT_BLOCK") # b /\ Block("READY_FINISH_TRADE") # b
      BY <1>10 DEF Block
    <3>2. l.at = "prompt" /\ ~j.anim /\ Answering(j, l, d, u)
      BY <2>1, <2>5, <3>1 DEF Agreed, Watching
    <3>3. l.reply = "none" /\ Down(l, d, {}) /\ Up(j, u, {Block("READY_CANCEL_TRADE")}) /\ ~j.cancel_wait
      BY <2>1, <3>1, <3>2 DEF Answering
    <3>4. Answering(k, l, d, u)
      BY <1>3, <1>5, <2>2, <3>3 DEF Answering, Alike
    <3>5. Promised(k, l) /\ SameRound(k, l) /\ l.theirs = Offered[k.round + 1]
      BY <1>3, <1>5, <2>5 DEF Agreed, Promised, SameRound, Alike
    <3>6. Agreed(k, l, d, u)
      BY <1>3, <1>5, <2>2, <2>5, <3>2, <3>4, <3>5 DEF Agreed, Alike
    <3>7. Keeps(j, k, l)
      BY <1>3, <1>5 DEF Keeps, Alike
    <3> QED
      BY <1>3, <1>5, <1>8, <3>6, <3>7 DEF InvOf, Stage, k, s
  <2>6. CASE Leaving(j, l, d, u)
    <3>1. BarOk(k.bar, l.count) /\ k.round = j.round /\ k.party = j.party
      BY <1>3, <1>5 DEF InvOf, Alike
    <3> QED
      BY <1>8, <2>6, <3>1, AwayStays DEF k, s
  <2> QED
    BY <1>1, <2>3, <2>4, <2>5, <2>6 DEF Stage
<1> QED
  BY <1>9, <1>10

LEMMA MenuTells ==
    ASSUME NEW j, NEW l, NEW d, NEW u, InvOf(j, l, d, u), pend(j) = << >>, NEW over
    PROVE  Tells(j, l, d, u, tick_menu_and_push(j, over))
<1> DEFINE t == advance_timers(j, over)
           s == enter_seam(t)
           k == select_offer(s)
           b == Head(k.push)
           c == b.cmd \in {"REQUEST_CANCEL", "READY_CANCEL_TRADE"}
           p == begin_send([k EXCEPT !.push = << >>, !.cancel_after_send = @ \/ c,
                                     !.cancelled = @ \/ c], b)
<1>1. InvOf(t, l, d, u) /\ Keeps(j, t, l) /\ t.sender = j.sender
  BY TimersRun
<1>2. tick_menu_and_push(j, over) = IF k.push = << >> THEN Out(k, Yield) ELSE tick_sender(p)
  BY DEF tick_menu_and_push
<1> HIDE DEF t
<1>3. InvOf(s, l, d, u) /\ Keeps(t, s, l) /\ s.sender = t.sender
  <2>1. DOMAIN t = JoinerFields /\ l.count \in Nat /\ BarOk(t.bar, l.count)
    BY <1>1 DEF InvOf, IsJoiner, IsLeader
  <2>2. Steady(t, s, l.count)
    BY <2>1, BarsSame
  <2> QED
    BY <1>1, <2>2, SteadyKeeps
<1> HIDE DEF s
<1>4. InvOf(k, l, d, u) /\ Keeps(s, k, l) /\ k.sender = s.sender
  BY <1>3, Offers
<1> HIDE DEF k
<1>5. Keeps(j, k, l) /\ pend(k) = << >>
  <2>1. k.sender = j.sender
    BY <1>1, <1>3, <1>4
  <2> QED
    BY <1>1, <1>3, <1>4, <2>1, KeepsOn DEF pend, sending
<1>6. CASE k.push = << >>
  <2>1. Out(k, Yield).j = k /\ Out(k, Yield).out = Yield /\ Land(u, Yield) = u
    BY DEF Out, Land
  <2> QED
    BY <1>2, <1>4, <1>5, <1>6, <2>1 DEF Tells
<1>7. CASE k.push # << >>
  <2>1. InvOf(p, l, d, u) /\ Keeps(k, p, l)
    BY <1>4, <1>5, <1>7, StartsPush
  <2> HIDE DEF p
  <2>2. Tells(p, l, d, u, tick_sender(p))
    BY <2>1, SenderTells
  <2> QED
    BY <1>2, <1>5, <1>7, <2>1, <2>2, KeepsOn DEF Tells
<1> QED
  BY <1>6, <1>7

-----------------------------------------------------------------------------
(* The whole tick.                                                         *)

LEMMA TellsOn ==
    ASSUME NEW j, NEW l, NEW d, NEW u, NEW o, Tells(j, l, d, u, o), NEW n,
           \/ o.out # Yield /\ n = o
           \/ o.out = Yield /\ (InvOf(o.j, l, d, u) => Tells(o.j, l, d, u, n))
    PROVE  Tells(j, l, d, u, n)
<1>1. CASE o.out # Yield /\ n = o
  BY <1>1
<1>2. CASE o.out = Yield /\ (InvOf(o.j, l, d, u) => Tells(o.j, l, d, u, n))
  <2>1. InvOf(o.j, l, d, u) /\ Keeps(j, o.j, l)
    BY <1>2, YieldIs DEF Tells
  <2>2. Tells(o.j, l, d, u, n)
    BY <1>2, <2>1
  <2> QED
    BY <2>1, <2>2, KeepsOn DEF Tells
<1> QED
  BY <1>1, <1>2

LEMMA TickTells ==
    ASSUME NEW j, NEW l, NEW d, NEW u, InvOf(j, l, d, u), NEW over, NEW resend
    PROVE  Tells(j, l, d, u, tick(j, over, resend)) /\ tick(j, over, resend).out # Yield
<1> DEFINE t1 == tick_sender(j)
           t2 == IF t1.out = Yield THEN tick_exit_barriers(t1.j) ELSE t1
           t3 == IF t2.out = Yield THEN tick_save_chain(t2.j) ELSE t2
           t4 == IF t3.out = Yield THEN tick_menu_and_push(t3.j, over) ELSE t3
           t5 == IF t4.out = Yield THEN tick_warp_standbys(t4.j) ELSE t4
           t6 == IF t5.out = Yield THEN tick_seat_standbys(t5.j, over, resend) ELSE t5
           t7 == IF t6.out = Yield THEN barrier_words(t6.j) ELSE t6
<1>1. tick(j, over, resend) = t7
  BY DEF tick
<1>2. Tells(j, l, d, u, t1) /\ (t1.out = Yield => t1.j = j /\ pend(t1.j) = << >>)
  BY SenderTells
<1> HIDE DEF t1
<1>3. Tells(j, l, d, u, t2) /\ (t2.out = Yield => pend(t2.j) = << >>)
  <2>1. CASE t1.out # Yield
    BY <1>2, <2>1
  <2>2. CASE t1.out = Yield
    <3>1. t2 = tick_exit_barriers(t1.j) /\ InvOf(t1.j, l, d, u)
      BY <1>2, <2>2
    <3>2. Tells(t1.j, l, d, u, t2) /\ (t2.out = Yield => Steady(t1.j, t2.j, l.count))
      BY <3>1, ExitTells
    <3>3. t2.out = Yield => pend(t2.j) = pend(t1.j)
      BY <3>2 DEF Steady, pend, sending
    <3> QED
      BY <1>2, <2>2, <3>2, <3>3
  <2> QED
    BY <2>1, <2>2
<1> HIDE DEF t2
<1>4. Tells(j, l, d, u, t3) /\ (t3.out = Yield => pend(t3.j) = << >>)
  <2>1. CASE t2.out # Yield
    BY <1>3, <2>1
  <2>2. CASE t2.out = Yield
    <3>1. t3 = tick_save_chain(t2.j) /\ InvOf(t2.j, l, d, u)
      BY <1>3, <2>2, YieldIs DEF Tells
    <3>2. Tells(t2.j, l, d, u, t3) /\ (t3.out = Yield => Steady(t2.j, t3.j, l.count))
      BY <3>1, SaveTells
    <3>3. t3.out = Yield => pend(t3.j) = pend(t2.j)
      BY <3>2 DEF Steady, pend, sending
    <3>4. Tells(j, l, d, u, t3)
      BY <1>3, <2>2, <3>2, TellsOn
    <3> QED
      BY <1>3, <2>2, <3>3, <3>4
  <2> QED
    BY <2>1, <2>2
<1> HIDE DEF t3
<1>5. Tells(j, l, d, u, t4)
  <2>1. t3.out = Yield => (InvOf(t3.j, l, d, u) => Tells(t3.j, l, d, u, tick_menu_and_push(t3.j, over)))
    BY <1>4, MenuTells
  <2> QED
    BY <1>4, <2>1, TellsOn
<1> HIDE DEF t4
<1>6. Tells(j, l, d, u, t5)
  BY <1>5, WarpTells, TellsOn
<1> HIDE DEF t5
<1>7. Tells(j, l, d, u, t6)
  BY <1>6, SeatTells, TellsOn
<1> HIDE DEF t6
<1>8. Tells(j, l, d, u, t7) /\ t7.out # Yield
  <2>1. InvOf(t6.j, l, d, u) => Tells(t6.j, l, d, u, barrier_words(t6.j)) /\ barrier_words(t6.j).out # Yield
    <3>1. InvOf(t6.j, l, d, u) => Steady(t6.j, t6.j, l.count)
      BY SteadyOn DEF InvOf, IsJoiner
    <3> QED
      BY <3>1, BarrierSpeaks
  <2>2. t6.out = Yield => InvOf(t6.j, l, d, u)
    BY <1>7, YieldIs DEF Tells
  <2>3. Tells(j, l, d, u, t7)
    BY <1>7, <2>1, TellsOn
  <2>4. t7.out # Yield
    BY <2>1, <2>2
  <2> QED
    BY <2>3, <2>4
<1> QED
  BY <1>1, <1>8

\* A held key takes the place of an idle slot.
LEMMA KeysTell ==
    ASSUME NEW j, NEW l, NEW d, NEW u, u \in Seq(Slot), NEW o, Tells(j, l, d, u, o), o.out # Yield
    PROVE  LET n == with_keys(o)
           IN  InvOf(n.j, l, d, Append(u, n.out)) /\ Keeps(j, n.j, l)
<1> DEFINE n == with_keys(o)
           x == [o.j EXCEPT !.exit_key = FALSE]
           y == [o.j EXCEPT !.route = @ - 1]
           z == [o.j EXCEPT !.route = 0]
<1>1. InvOf(o.j, l, d, Append(u, o.out)) /\ Keeps(j, o.j, l) /\ o.out \in Slot
  BY YieldIs DEF Tells
<1>2. \/ n = o
      \/ o.out = Idle /\ n = Out(x, Key("EXIT"))
      \/ o.out = Idle /\ n = Out(y, Key("EMPTY"))
      \/ o.out = Idle /\ n = Out(z, Key("READY"))
      \/ o.out = Idle /\ n = Out(o.j, Key("EMPTY"))
  BY DEF with_keys, next_key
<1>3. /\ Steady(o.j, x, l.count) /\ Steady(o.j, y, l.count) /\ Steady(o.j, z, l.count)
      /\ Steady(o.j, o.j, l.count)
  <2>1. DOMAIN o.j = JoinerFields
    BY <1>1 DEF InvOf, IsJoiner
  <2> QED
    BY <2>1, SteadyOn DEF Steady, Alike, JoinerFields
<1> HIDE DEF n, x, y, z
<1>4. ASSUME NEW k, Steady(o.j, k, l.count), NEW s \in Filler, o.out = Idle, n = Out(k, s)
      PROVE  InvOf(n.j, l, d, Append(u, n.out)) /\ Keeps(j, n.j, l)
  <2>1. n.j = k /\ n.out = s
    BY <1>4 DEF Out
  <2>2. UpFlows(o.j, Append(u, Idle), o.j, Append(u, s)) /\ Append(u, s) \in Seq(Slot)
    BY <1>1, <1>4, UpFills
  <2>3. Stage(o.j, l, d, Append(u, Idle))
    BY <1>1, <1>4 DEF InvOf
  <2>4. Stage(o.j, l, d, Append(u, s))
    BY <2>2, <2>3, SameFlows, StageKept
  <2>5. InvOf(o.j, l, d, Append(u, s))
    BY <1>1, <2>2, <2>4 DEF InvOf
  <2>6. InvOf(k, l, d, Append(u, s)) /\ Keeps(o.j, k, l)
    BY <1>4, <2>5, SteadyKeeps
  <2> QED
    BY <1>1, <2>1, <2>6, KeepsOn
<1>5. Key("EXIT") \in Filler /\ Key("EMPTY") \in Filler /\ Key("READY") \in Filler
  BY Fillers
<1>6. InvOf(n.j, l, d, Append(u, n.out)) /\ Keeps(j, n.j, l)
  <2>1. CASE n = o
    BY <1>1, <2>1
  <2> QED
    BY <1>2, <1>3, <1>4, <1>5, <2>1
<1> QED
  BY <1>6 DEF n

LEMMA LooksAround ==
    ASSUME NEW j, NEW l, NEW d, NEW u, InvOf(j, l, d, u)
    PROVE  InvOf(looked(j), l, d, u) /\ Keeps(j, looked(j), l)
<1> DEFINE s == handle_seating(j)
           k == looked(j)
<1>1. DOMAIN j = JoinerFields
  BY DEF InvOf, IsJoiner
<1>2. Steady(j, s, l.count)
  BY <1>1 DEF handle_seating, Steady, Alike, JoinerFields
<1>3. k = s \/ k = [s EXCEPT !.responded_exit = TRUE, !.exit_key = TRUE]
  BY DEF looked, handle_exit
<1> HIDE DEF s, k
<1>4. Steady(s, k, l.count)
  <2>1. DOMAIN s = JoinerFields
    BY <1>2 DEF Steady
  <2>2. CASE k = s
    BY <2>1, <2>2, SteadyOn
  <2>3. CASE k = [s EXCEPT !.responded_exit = TRUE, !.exit_key = TRUE]
    BY <2>1, <2>3 DEF Steady, Alike, JoinerFields
  <2> QED
    BY <1>3, <2>2, <2>3
<1>5. Steady(j, k, l.count)
  BY <1>2, <1>4, SteadyOn
<1> QED
  BY <1>5, SteadyKeeps DEF k

-----------------------------------------------------------------------------
(* Init and the steps.                                                     *)

LEMMA InvInit == Init => Inv
<1> SUFFICES ASSUME Init PROVE Inv
  OBVIOUS
<1> DEFINE j == NewJoiner
           l == LeaderInit
<1>1. joiner = j /\ leader = l /\ downlink = << >> /\ uplink = << >>
  BY DEF Init
<1>2. 0 < Trades
  <2>1. Offered \in Seq(DOMAIN JoinerMons) /\ Offered # << >>
    BY JoinerAssumption
  <2>2. Len(Offered) \in Nat \ {0}
    BY <2>1, TailIs
  <2> QED
    BY <2>2 DEF Trades
<1>3. LeaderMons \in LeaderParty /\ JoinerMons \in JoinerParty
  <2>1. \A i \in DOMAIN LeaderMons : LeaderMons[i] \in Mon
    BY DEF Mon
  <2>2. \A i \in DOMAIN JoinerMons : JoinerMons[i] \in Mon
    BY DEF Mon
  <2>3. LeaderMons = [slot \in DOMAIN LeaderMons |-> LeaderMons[slot]]
    BY LeaderAssumption
  <2>4. JoinerMons = [slot \in DOMAIN JoinerMons |-> JoinerMons[slot]]
    BY JoinerAssumption
  <2> QED
    BY <2>1, <2>2, <2>3, <2>4 DEF LeaderParty, JoinerParty
<1>4. /\ DOMAIN j = JoinerFields /\ j.party = JoinerMons /\ j.round = 0 /\ j.party_sent = 0
      /\ ~j.leaving /\ ~j.pending_confirm /\ j.push = << >> /\ j.sender = << >>
      /\ j.bar = NewBarrier /\ ~j.lp_sent /\ j.host_party = << >> /\ ~j.ribbons
      /\ ~j.anim /\ ~j.cancel_wait /\ ~j.cancelled
  BY DEF NewJoiner, JoinerFields
<1>5. /\ DOMAIN l = LeaderFields /\ l.party = LeaderMons /\ l.round = 0 /\ l.count = 0 /\ l.todo = 0
      /\ l.repeat = 0 /\ l.out = <<Req("200")>> /\ l.echo = << >> /\ ~l.finish /\ l.at = "link"
      /\ l.choice = "none" /\ l.reply = "none"
  BY DEF LeaderInit, LeaderFields
<1> HIDE DEF j, l
<1>6. IsJoiner(j)
  BY <1>2, <1>3, <1>4 DEF IsJoiner
<1>7. IsLeader(l)
  <2>1. Req("200") \in SpokenWord
    BY DEF SpokenWord, Pull
  <2>2. l.out \in Seq(SpokenWord) /\ l.echo \in Seq(Slot)
    BY <1>5, <2>1, ShortSeqs
  <2> QED
    BY <1>3, <1>5, <2>2 DEF IsLeader
<1>8. BarOk(j.bar, l.count)
  BY <1>4, <1>5 DEF BarOk, NewBarrier, BarFields
<1>9. Passed(<< >>, l.count)
  BY DEF Passed
<1>10. owns(<< >>) = << >> /\ pend(j) = << >>
  BY <1>4 DEF owns, pend, sending
<1>11. \A W : NoneUp(j, << >>, W) /\ OneUp(j, << >>, W)
  BY <1>4, <1>10, ShortSeqs DEF NoneUp, OneUp, NoneIn, OneIn
<1>12. /\ \A W : OneDown(l, << >>, W)
       /\ \A W : Req("200") \notin W => NoneDown(l, << >>, W)
  BY <1>5, <1>10, ShortSeqs DEF NoneDown, OneDown, NoneIn, OneIn
<1>13. Req("200") \notin TradeWord /\ Req("200") \notin TheirParty /\ Req("200") \notin Ribbons
  BY DEF TradeWord, SwapWord, CancelWord, TheirParty, Ribbons, Req, Select, Block, Mons
<1>14. Asked(j, l, << >>, << >>)
  BY <1>4, <1>5, <1>11, <1>12 DEF Asked, OnePull, NoParty
<1>15. Shown(j, l, << >>)
  BY <1>4, <1>5, <1>12, <1>13 DEF Shown, NoView, Before
<1>16. Down(l, << >>, {}) /\ Up(j, << >>, {})
  <2>1. NoneDown(l, << >>, TradeWord \ {})
    BY <1>12, <1>13
  <2> QED
    BY <2>1, <1>11, <1>12 DEF Down, Up
<1>17. Apart(j, l, << >>, << >>)
  BY <1>4, <1>5, <1>12, <1>13, <1>14, <1>15, <1>16 DEF Apart, Before, Still, SameRound
<1>18. InvOf(j, l, << >>, << >>)
  BY <1>6, <1>7, <1>8, <1>9, <1>17, ShortSeqs DEF InvOf, Stage
<1> QED
  BY <1>1, <1>18 DEF Inv

\* The party of at most one end changes, and only by a commit.
Step ==
    \/ joiner' = joiner /\ leader'.party = leader.party /\ leader'.round = leader.round
    \/ joiner' = joiner /\ Gives(joiner, leader, leader')
    \/ leader' = leader /\ JoinerMoves(joiner, joiner', leader)

\* A tick, and what the loop does after it.
LEMMA TickLands ==
    ASSUME NEW j, NEW l, NEW d, NEW u, InvOf(j, l, d, u), NEW over, NEW resend
    PROVE  LET o == with_keys(tick(j, over, resend))
           IN  InvOf(looked(o.j), l, d, Append(u, o.out)) /\ Keeps(j, looked(o.j), l)
<1> DEFINE t == tick(j, over, resend)
           o == with_keys(t)
<1>1. u \in Seq(Slot)
  BY DEF InvOf
<1>2. Tells(j, l, d, u, t) /\ t.out # Yield
  BY TickTells
<1> HIDE DEF t
<1>3. InvOf(o.j, l, d, Append(u, o.out)) /\ Keeps(j, o.j, l)
  BY <1>1, <1>2, KeysTell
<1> HIDE DEF o
<1>4. InvOf(looked(o.j), l, d, Append(u, o.out)) /\ Keeps(o.j, looked(o.j), l)
  BY <1>3, LooksAround
<1>5. Keeps(j, looked(o.j), l)
  BY <1>3, <1>4, KeepsOn
<1> QED
  BY <1>4, <1>5 DEF o, t

\* A slot that the shut window keeps back.
LEMMA GateKeeps ==
    ASSUME NEW j, NEW l, NEW d, NEW u, InvOf(j, l, d, u), NEW over
    PROVE  LET k == looked(poll_send_done(j, over))
           IN  InvOf(k, l, d, u) /\ Keeps(j, k, l)
<1> DEFINE t == advance_timers(j, over)
           s == sender_done(t)
           p == poll_send_done(j, over)
<1>1. InvOf(t, l, d, u) /\ Keeps(j, t, l)
  BY TimersRun
<1>2. p = IF holding(t) /\ t.mirrored THEN s ELSE t
  BY DEF poll_send_done
<1> HIDE DEF t, p
<1>3. InvOf(p, l, d, u) /\ Keeps(j, p, l)
  <2>1. CASE holding(t) /\ t.mirrored
    <3>1. InvOf(s, l, d, u) /\ Keeps(t, s, l)
      BY <1>1, <2>1, DoneIs
    <3> HIDE DEF s
    <3>2. Keeps(j, s, l)
      BY <1>1, <3>1, KeepsOn
    <3> QED
      BY <1>2, <2>1, <3>1, <3>2
  <2> QED
    BY <1>1, <1>2, <2>1
<1>4. InvOf(looked(p), l, d, u) /\ Keeps(p, looked(p), l)
  BY <1>3, LooksAround
<1>5. Keeps(j, looked(p), l)
  BY <1>3, <1>4, KeepsOn
<1> QED
  BY <1>4, <1>5 DEF p

LEMMA InvNext == Inv /\ [Next]_vars => Inv' /\ Step
<1> SUFFICES ASSUME Inv, [Next]_vars PROVE Inv' /\ Step
  OBVIOUS
<1>1. InvOf(joiner, leader, downlink, uplink)
  BY DEF Inv
<1>2. CASE leaderHear
  <2>1. /\ uplink # << >> /\ leader' = heard(leader, Head(uplink)) /\ uplink' = Tail(uplink)
        /\ joiner' = joiner /\ downlink' = downlink
    BY <1>2 DEF leaderHear
  <2>2. /\ InvOf(joiner, heard(leader, Head(uplink)), downlink, Tail(uplink))
        /\ heard(leader, Head(uplink)).party = leader.party
        /\ heard(leader, Head(uplink)).round = leader.round
    BY <1>1, <2>1, Hears
  <2> QED
    BY <2>1, <2>2 DEF Inv, Step
<1>3. CASE leaderTick
  <2>1. joiner' = joiner /\ uplink' = uplink
    BY <1>3 DEF leaderTick
  <2>2. /\ InvOf(joiner, leader', downlink', uplink)
        /\ leader'.party = leader.party /\ leader'.round = leader.round
    BY <1>1, <1>3, TickStep
  <2> QED
    BY <2>1, <2>2 DEF Inv, Step
<1>4. CASE leaderMove
  <2>1. /\ leader.todo = 0 /\ leader' \in Moves(leader)
        /\ joiner' = joiner /\ downlink' = downlink /\ uplink' = uplink
    BY <1>4 DEF leaderMove
  <2>2. /\ InvOf(joiner, leader', downlink, uplink)
        /\ \/ leader'.party = leader.party /\ leader'.round = leader.round
           \/ Gives(joiner, leader, leader')
    BY <1>1, <2>1, MoveStep
  <2> QED
    BY <2>1, <2>2 DEF Inv, Step
<1>5. CASE joinerHear
  <2>1. /\ downlink # << >> /\ downlink' = Tail(downlink)
        /\ joiner' = IF Head(downlink).own = Disconnect THEN [joiner EXCEPT !.gone = TRUE]
                     ELSE feed_in_frame(joiner, Head(downlink))
        /\ leader' = leader /\ uplink' = uplink
    BY <1>5 DEF joinerHear
  <2>2. InvOf(joiner', leader, Tail(downlink), uplink) /\ JoinerMoves(joiner, joiner', leader)
    BY <1>1, <2>1, JoinerHears
  <2> QED
    BY <2>1, <2>2 DEF Inv, Step
<1>6. CASE joinerLeave
  <2>1. joiner' = [joiner EXCEPT !.gone = TRUE]
        /\ leader' = leader /\ downlink' = downlink /\ uplink' = uplink
    BY <1>6 DEF joinerLeave
  <2>2. DOMAIN joiner = JoinerFields
    BY <1>1 DEF InvOf, IsJoiner
  <2>3. Steady(joiner, joiner', leader.count)
    BY <2>1, <2>2 DEF Steady, Alike, JoinerFields
  <2>4. InvOf(joiner', leader, downlink, uplink) /\ Keeps(joiner, joiner', leader)
    BY <1>1, <2>3, SteadyKeeps
  <2> QED
    BY <2>1, <2>4 DEF Inv, Step, JoinerMoves
<1>7. ASSUME NEW over \in BOOLEAN, NEW resend \in BOOLEAN, joinerTick(over, resend)
      PROVE  Inv' /\ Step
  <2> DEFINE o == with_keys(tick(joiner, over, resend))
  <2>1. /\ joiner' = looked(o.j) /\ uplink' = Append(uplink, o.out)
        /\ leader' = leader /\ downlink' = downlink
    BY <1>7 DEF joinerTick
  <2>2. InvOf(looked(o.j), leader, downlink, Append(uplink, o.out)) /\ Keeps(joiner, looked(o.j), leader)
    BY <1>1, TickLands
  <2> HIDE DEF o
  <2> QED
    BY <2>1, <2>2 DEF Inv, Step, JoinerMoves
<1>8. ASSUME NEW over \in BOOLEAN, joinerGated(over)
      PROVE  Inv' /\ Step
  <2> DEFINE k == looked(poll_send_done(joiner, over))
  <2>1. joiner' = k /\ leader' = leader /\ downlink' = downlink /\ uplink' = uplink
    BY <1>8 DEF joinerGated
  <2>2. InvOf(k, leader, downlink, uplink) /\ Keeps(joiner, k, leader)
    BY <1>1, GateKeeps
  <2> HIDE DEF k
  <2> QED
    BY <2>1, <2>2 DEF Inv, Step, JoinerMoves
<1>9. CASE UNCHANGED vars
  BY <1>9 DEF vars, Inv, Step
<1> QED
  BY <1>2, <1>3, <1>4, <1>5, <1>6, <1>7, <1>8, <1>9 DEF Next

-----------------------------------------------------------------------------
(* The theorems.                                                           *)

LEMMA InvAlways == Spec => []Inv
BY InvInit, InvNext, PTL DEF Spec

\* The joiner starts or mirrors no round of barriers that the console has not come to,
\* however often a count is repeated, however late it lands and whichever of the two
\* timeouts of BarrierResponder ends a round (observe_frame, _tick_menu_and_push).
THEOREM JoinerNeverAhead == Spec => []NeverAhead
<1>1. Inv => NeverAhead
  BY DEF Inv, InvOf, BarOk, NeverAhead
<1> QED
  BY <1>1, InvAlways, PTL

\* From START_TRADE to the commit the console and the joiner mean the same two Pokemon,
\* whatever was offered, declined or cancelled before (_tick_menu_and_push, on_linkcmd).
THEOREM JoinerShownIsTraded == Spec => []ShownIsTraded
<1>1. Inv => ShownIsTraded
  <2> SUFFICES ASSUME Inv, leader.at \in InTrade, Level
               PROVE  /\ leader.theirs = Offered[joiner.round + 1]
                      /\ leader.view[leader.theirs] = joiner.party[leader.theirs]
                      /\ joiner.host_party[joiner.host_cursor] = leader.party[leader.mine]
    BY DEF ShownIsTraded, InTrade
  <2>1. joiner.round \in Nat /\ Stage(joiner, leader, downlink, uplink)
    BY DEF Inv, InvOf, IsJoiner
  <2>2. Agreed(joiner, leader, downlink, uplink)
    BY <2>1 DEF Stage, Apart, Choosing, Owing, Leaving, Before, Lent, Away, InTrade
  <2> QED
    BY <2>2 DEF Agreed, Promised, InTrade
<1> QED
  BY <1>1, InvAlways, PTL

\* Each step of the joiner and of the console is a step of Swap or leaves it.
LEMMA StepImplements == Inv /\ Step => [Trade!Next]_(Trade!vars)
<1> SUFFICES ASSUME Inv, Step PROVE Trade!Next \/ UNCHANGED Trade!vars
  OBVIOUS
<1>1. joiner.round \in Nat /\ leader.round \in Nat
  BY DEF Inv, InvOf, IsJoiner, IsLeader
<1>2. CASE joiner' = joiner /\ leader'.party = leader.party /\ leader'.round = leader.round
  <2>1. Owed' = Owed
    BY <1>2 DEF Owed, Level
  <2> QED
    BY <1>2, <2>1 DEF Trade!vars
<1>3. CASE joiner' = joiner /\ Gives(joiner, leader, leader')
  <2> DEFINE place == Offered[joiner.round + 1]
  <2>1. /\ leader.round = joiner.round /\ leader'.round = leader.round + 1
        /\ leader.mine \in DOMAIN LeaderMons /\ place \in DOMAIN JoinerMons
        /\ leader'.party = [leader.party EXCEPT ![leader.mine] = joiner.party[place]]
        /\ joiner.host_party[joiner.host_cursor] = leader.party[leader.mine]
    BY <1>3 DEF Gives
  <2>2. Level /\ ~Level'
    BY <1>1, <1>3, <2>1 DEF Level
  <2>3. /\ Owed = << >>
        /\ Owed' = <<[mon |-> leader.party[leader.mine], at |-> place]>>
    BY <1>3, <2>1, <2>2 DEF Owed
  <2> HIDE DEF place
  <2>4. Trade!First(leader.mine, place)
    BY <1>3, <2>1, <2>3 DEF Trade!First, Trade!NothingOwed
  <2> QED
    BY <2>1, <2>4 DEF Trade!Next
<1>4. CASE leader' = leader /\ Keeps(joiner, joiner', leader)
  <2>1. joiner'.party = joiner.party /\ joiner'.round = joiner.round
    BY <1>4 DEF Keeps
  <2>2. Owed' = Owed
    BY <1>4, <2>1 DEF Keeps, Owed, Level
  <2> QED
    BY <1>4, <2>1, <2>2 DEF Trade!vars
<1>5. CASE leader' = leader /\ Receives(joiner, joiner', leader)
  <2>1. ~Level /\ Level'
    BY <1>5 DEF Receives, Level
  <2>2. /\ Owed' = << >> /\ Owed # << >>
        /\ Owed[1].mon = joiner.host_party[joiner.host_cursor]
        /\ Owed[1].at = Offered[joiner.round + 1]
    BY <2>1 DEF Owed
  <2>3. joiner'.party = [joiner.party EXCEPT ![Offered[joiner.round + 1]] =
                                                  joiner.host_party[joiner.host_cursor]]
    BY <1>5 DEF Receives
  <2>4. Trade!Second
    BY <1>5, <2>2, <2>3 DEF Trade!Second, Trade!NothingOwed
  <2> QED
    BY <2>4 DEF Trade!Next
<1> QED
  BY <1>2, <1>3, <1>4, <1>5 DEF Step, JoinerMoves

\* The console and the engine implement Swap: the console commits first, and
\* CONFIRM_FINISH_TRADE makes the joiner commit the same exchange, before the
\* console can start another (TradeEngine._commit, on_linkcmd).
THEOREM JoinerImplementsSwap == Spec => ImplementsSwap
<1>1. Init => Trade!Init
  <2> SUFFICES ASSUME Init PROVE Trade!Init
    OBVIOUS
  <2>1. joiner.party = JoinerMons /\ joiner.round = 0
    BY DEF Init, NewJoiner
  <2>2. leader.party = LeaderMons /\ leader.round = 0
    BY DEF Init, LeaderInit
  <2>3. Owed = << >>
    BY <2>1, <2>2 DEF Owed, Level
  <2> QED
    BY <2>1, <2>2, <2>3 DEF Trade!Init, Trade!NothingOwed
<1>2. Inv /\ [Next]_vars => [Trade!Next]_(Trade!vars)
  BY InvNext, StepImplements
<1> QED
  BY <1>1, <1>2, InvAlways, PTL DEF Spec, ImplementsSwap, Trade!Spec

Swapping == INSTANCE SwapProofs WITH FollowerMons <- JoinerMons, leader <- leader.party,
                                     follower <- joiner.party, owed <- Owed

\* So no trade that the joiner follows loses or duplicates a Pokemon: parties that hold
\* none twice and none in common hold or owe each exactly once in every state.
THEOREM JoinerConserves == Swapping!Parties /\ Spec => []Swapping!Conserved
<1>1. Spec => Swapping!Spec
  <2>1. Trade!Init <=> Swapping!Init
    BY DEF Trade!Init, Swapping!Init, Trade!NothingOwed, Swapping!NothingOwed
  <2>2. [Trade!Next]_(Trade!vars) <=> [Swapping!Next]_(Swapping!vars)
    BY DEF Trade!Next, Swapping!Next, Trade!vars, Swapping!vars, Trade!First, Swapping!First,
           Trade!Second, Swapping!Second, Trade!NothingOwed, Swapping!NothingOwed
  <2> QED
    BY <2>1, <2>2, JoinerImplementsSwap, PTL DEF ImplementsSwap, Trade!Spec, Swapping!Spec
<1> QED
  BY <1>1, Swapping!SwapConserves, PTL
=============================================================================
