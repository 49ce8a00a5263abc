--------------------------- MODULE HostTradeProofs --------------------------
(***************************************************************************)
(* The two commits of a trade that the host leads are one exchange of two  *)
(* Pokemon, for any two parties, any number of trades, and however the     *)
(* timers of the two ends run: no quiet window, repeat or delay is needed  *)
(* for it.  Along the way a trade goes through stages; in each of them at  *)
(* most one word of the host and one move of the console are on their way. *)
(***************************************************************************)
EXTENDS HostTrade, TLAPS, SequenceTheorems

-----------------------------------------------------------------------------
(* What travels.                                                           *)

Mon        == {HostMons[i] : i \in DOMAIN HostMons} \cup {ChildMons[i] : i \in DOMAIN ChildMons}
HostParty  == [DOMAIN HostMons -> Mon]
ChildParty == [DOMAIN ChildMons -> Mon]

\* The host's words that end a stage, and all its words.
SwapWord ==
    {Select("SET_MONS_TO_TRADE", s) : s \in DOMAIN HostMons}
        \cup {Block("START_TRADE"), Block("CONFIRM_FINISH_TRADE")}
TradeWord ==
    SwapWord \cup {Mons(p) : p \in HostParty}
        \cup {Block("BOTH_CANCEL_TRADE"), Block("PARTNER_CANCEL_TRADE"), Block("PLAYER_CANCEL_TRADE")}
HostBlock == TradeWord \cup {Block("link_player"), Block("card")}
PartyReq  == {Req("party")}
OtherWord == {Req("link_player"), Req("card"), Close} \cup {Standby(n) : n \in Nat}
HostWord  == PartyReq \cup OtherWord \cup HostBlock \cup {Idle, Disconnect, Key("READY"), Key("EXIT")}

\* The console's slots, its moves apart.
Repeated   == {Standby(n) : n \in Nat}
PartyReply == {Mons(p) : p \in ChildParty}
OtherReply == {Block("link_player"), Block("card"), Close, Key("READY"), Key("EXIT")}
Move ==
    {Select("READY_TO_TRADE", s) : s \in DOMAIN ChildMons}
        \cup {Block("REQUEST_CANCEL"), Block("INIT_BLOCK"), Block("READY_CANCEL_TRADE"),
              Block("READY_FINISH_TRADE")}
Slot == {Idle} \cup Repeated \cup PartyReply \cup OtherReply \cup Move

-----------------------------------------------------------------------------
(* Sequences.                                                              *)

\* No word of W is in s; at most one is.
Free(s, W)   == \A i \in 1 .. Len(s) : s[i] \notin W
Single(s, W) == \A i, j \in 1 .. Len(s) : s[i] \in W /\ s[j] \in W => i = j

LEMMA TailIs ==
    ASSUME NEW S, NEW s \in Seq(S), s # << >>
    PROVE  /\ Head(s) = s[1] /\ Head(s) \in S /\ Len(s) \in Nat \ {0}
           /\ Tail(s) \in Seq(S) /\ Len(Tail(s)) = Len(s) - 1
           /\ \A n \in 1 .. Len(s) - 1 : n + 1 \in 1 .. Len(s) /\ Tail(s)[n] = s[n + 1]
BY HeadTailProperties, EmptySeq, LenProperties

LEMMA AppendIs ==
    ASSUME NEW S, NEW s \in Seq(S), NEW e \in S
    PROVE  /\ Append(s, e) \in Seq(S) /\ Len(s) \in Nat /\ Len(Append(s, e)) = Len(s) + 1
           /\ \A n \in 1 .. Len(s) : Append(s, e)[n] = s[n]
           /\ Append(s, e)[Len(s) + 1] = e
BY AppendProperties, LenProperties

LEMMA ShortSeqs ==
    /\ \A S : << >> \in Seq(S)
    /\ \A S : \A e \in S : <<e>> \in Seq(S)
    /\ \A W : Free(<< >>, W) /\ Single(<< >>, W)
    /\ \A e, W : Single(<<e>>, W) /\ (Free(<<e>>, W) <=> e \notin W)
    /\ \A e : <<e>> # << >> /\ Head(<<e>>) = e
BY DEF Free, Single

LEMMA FreeIsSingle == \A s, W : Free(s, W) => Single(s, W)
BY DEF Free, Single

LEMMA FreeTail ==
    ASSUME NEW S, NEW s \in Seq(S), s # << >>, NEW W
    PROVE  /\ Free(s, W) => Free(Tail(s), W) /\ Head(s) \notin W
           /\ Single(s, W) => Single(Tail(s), W)
           /\ Single(s, W) /\ Head(s) \in W => Free(Tail(s), W)
<1> DEFINE L == Len(s)
<1>1. /\ Head(s) = s[1] /\ L \in Nat \ {0} /\ Len(Tail(s)) = L - 1
      /\ \A n \in 1 .. L - 1 : n + 1 \in 1 .. L /\ Tail(s)[n] = s[n + 1]
  BY TailIs
<1>2. 1 \in 1 .. L /\ \A n \in 1 .. L - 1 : n + 1 # 1
  BY <1>1
<1> HIDE DEF L
<1>3. Free(s, W) => Free(Tail(s), W) /\ Head(s) \notin W
  BY <1>1, <1>2 DEF Free, L
<1>4. Single(s, W) => Single(Tail(s), W)
  <2> SUFFICES ASSUME Single(s, W), NEW i \in 1 .. L - 1, NEW j \in 1 .. L - 1,
                      Tail(s)[i] \in W, Tail(s)[j] \in W
               PROVE  i = j
    BY <1>1 DEF Single
  <2>1. i + 1 = j + 1
    BY <1>1 DEF Single, L
  <2> QED
    BY <2>1
<1>5. Single(s, W) /\ Head(s) \in W => Free(Tail(s), W)
  BY <1>1, <1>2 DEF Single, Free, L
<1> QED
  BY <1>3, <1>4, <1>5

LEMMA FreeAppend ==
    ASSUME NEW S, NEW s \in Seq(S), NEW e \in S, NEW W
    PROVE  /\ Free(s, W) /\ e \notin W => Free(Append(s, e), W)
           /\ Single(s, W) /\ e \notin W => Single(Append(s, e), W)
           /\ Free(s, W) => Single(Append(s, e), W)
<1> DEFINE L == Len(s)
<1>1. /\ L \in Nat /\ Len(Append(s, e)) = L + 1 /\ Append(s, e)[L + 1] = e
      /\ \A n \in 1 .. L : Append(s, e)[n] = s[n]
  BY AppendIs
<1>2. \A n \in 1 .. L + 1 : n \in 1 .. L \/ n = L + 1
  BY <1>1
<1> HIDE DEF L
<1>3. Free(s, W) /\ e \notin W => Free(Append(s, e), W)
  BY <1>1, <1>2 DEF Free, L
<1>4. Single(s, W) /\ e \notin W => Single(Append(s, e), W)
  BY <1>1, <1>2 DEF Single, L
<1>5. Free(s, W) => Single(Append(s, e), W)
  BY <1>1, <1>2 DEF Free, Single, L
<1> QED
  BY <1>3, <1>4, <1>5

LEMMA FreeConcat ==
    ASSUME NEW S, NEW s \in Seq(S), NEW t \in Seq(S)
    PROVE  /\ s \o t \in Seq(S)
           /\ \A W : Free(s, W) /\ Free(t, W) => Free(s \o t, W)
           /\ \A W : Single(s, W) /\ Free(t, W) => Single(s \o t, W)
           /\ \A W : Free(s, W) /\ Single(t, W) => Single(s \o t, W)
<1> DEFINE L == Len(s)
           K == Len(t)
<1>1. /\ s \o t \in Seq(S) /\ L \in Nat /\ K \in Nat /\ Len(s \o t) = L + K
      /\ \A n \in 1 .. L + K : (s \o t)[n] = IF n <= L THEN s[n] ELSE t[n - L]
  BY ConcatProperties, LenProperties
<1>2. \A n \in 1 .. L + K : (n \in 1 .. L /\ n <= L) \/ (~(n <= L) /\ n - L \in 1 .. K)
  BY <1>1
<1>3. \A m, n \in 1 .. L + K : m - L = n - L => m = n
  BY <1>1
<1> HIDE DEF L, K
<1>4. \A n \in 1 .. L + K : \/ n \in 1 .. L /\ (s \o t)[n] = s[n]
                            \/ n - L \in 1 .. K /\ (s \o t)[n] = t[n - L]
  BY <1>1, <1>2
<1>5. \A W : Free(s, W) /\ Free(t, W) => Free(s \o t, W)
  BY <1>1, <1>4 DEF Free, L, K
<1>6. \A W : Single(s, W) /\ Free(t, W) => Single(s \o t, W)
  BY <1>1, <1>4 DEF Free, Single, L, K
<1>7. \A W : Free(s, W) /\ Single(t, W) => Single(s \o t, W)
  BY <1>1, <1>3, <1>4 DEF Free, Single, L, K
<1> QED
  BY <1>1, <1>5, <1>6, <1>7

LEMMA TimesIs ==
    ASSUME NEW S, NEW w \in S, NEW n \in Nat
    PROVE  times(w, n) \in Seq(S) /\ \A W : w \notin W => Free(times(w, n), W)
<1>1. times(w, n) \in [1 .. n -> S]
  BY DEF times
<1>2. times(w, n) \in Seq(S) /\ Len(times(w, n)) = n
  BY <1>1, SeqDef, LenProperties
<1> QED
  BY <1>2 DEF Free, times

\* A sequence of other words has none of W.
LEMMA FreeOf ==
    ASSUME NEW S, NEW s \in Seq(S), NEW W
    PROVE  S \cap W = {} => Free(s, W)
BY ElementOfSeq DEF Free

LEMMA FreeWithin == \A s, V, W : V \subseteq W /\ Free(s, W) => Free(s, V)
BY DEF Free

\* A sequence that only grew by words of S.
Grows(s, t, S) ==
    \/ t = s
    \/ \E e \in S : t = Append(s, e)
    \/ \E w \in Seq(S) : t = s \o w

LEMMA GrowsFree ==
    ASSUME NEW T, NEW s \in Seq(T), NEW S, S \subseteq T, NEW t, Grows(s, t, S)
    PROVE  /\ t \in Seq(T)
           /\ \A W : W \cap S = {} => (Free(s, W) => Free(t, W)) /\ (Single(s, W) => Single(t, W))
<1>1. CASE t = s
  BY <1>1
<1>2. ASSUME NEW e \in S, t = Append(s, e)
      PROVE  /\ t \in Seq(T)
             /\ \A W : W \cap S = {} => (Free(s, W) => Free(t, W)) /\ (Single(s, W) => Single(t, W))
  <2>1. e \in T /\ t \in Seq(T)
    BY <1>2, AppendIs
  <2>2. \A W : W \cap S = {} => e \notin W
    BY <1>2
  <2>3. \A W : e \notin W => (Free(s, W) => Free(t, W)) /\ (Single(s, W) => Single(t, W))
    BY <1>2, <2>1, FreeAppend
  <2> QED
    BY <2>1, <2>2, <2>3
<1>3. ASSUME NEW w \in Seq(S), t = s \o w
      PROVE  /\ t \in Seq(T)
             /\ \A W : W \cap S = {} => (Free(s, W) => Free(t, W)) /\ (Single(s, W) => Single(t, W))
  <2>1. w \in Seq(T) /\ \A W : W \cap S = {} => Free(w, W)
    <3>1. \A W : S \cap W = {} => Free(w, W)
      BY <1>3, FreeOf
    <3>2. Seq(S) \subseteq Seq(T)
      BY SeqDef
    <3> QED
      BY <3>1, <3>2, <1>3
  <2>2. /\ t \in Seq(T)
        /\ \A W : Free(s, W) /\ Free(w, W) => Free(t, W)
        /\ \A W : Single(s, W) /\ Free(w, W) => Single(t, W)
    BY <1>3, <2>1, FreeConcat
  <2> QED
    BY <2>1, <2>2
<1> QED
  BY <1>1, <1>2, <1>3 DEF Grows

-----------------------------------------------------------------------------
(* A block of the host waits in `blocks', goes through `sender' and is then  *)
(* on its way: d, s and q.                                                 *)

NoneIn(d, s, q, W) == Free(d, W) /\ Free(s, W) /\ Free(q, W)
OneIn(d, s, q, W) ==
    /\ Single(d, W) /\ Single(s, W) /\ Single(q, W)
    /\ \/ Free(d, W) /\ Free(s, W)
       \/ Free(d, W) /\ Free(q, W)
       \/ Free(s, W) /\ Free(q, W)

\* Another word lands on the link.
LEMMA LinkAdd ==
    ASSUME NEW S, NEW d \in Seq(S), NEW e \in S, NEW s, NEW q, NEW W, e \notin W
    PROVE  /\ NoneIn(d, s, q, W) => NoneIn(Append(d, e), s, q, W)
           /\ OneIn(d, s, q, W) => OneIn(Append(d, e), s, q, W)
BY FreeAppend DEF NoneIn, OneIn

\* The block that was being sent is on its way.
LEMMA LinkEnd ==
    ASSUME NEW S, NEW d \in Seq(S), NEW e \in S, NEW q, NEW W
    PROVE  /\ NoneIn(d, <<e>>, q, W) => NoneIn(Append(d, e), << >>, q, W)
           /\ OneIn(d, <<e>>, q, W) => OneIn(Append(d, e), << >>, q, W)
<1>1. /\ Free(d, W) /\ e \notin W => Free(Append(d, e), W)
      /\ Single(d, W) /\ e \notin W => Single(Append(d, e), W)
      /\ Free(d, W) => Single(Append(d, e), W)
  BY FreeAppend
<1>2. Free(<< >>, W) /\ Single(<< >>, W) /\ (Free(<<e>>, W) <=> e \notin W)
  BY ShortSeqs
<1> QED
  BY <1>1, <1>2, FreeIsSingle DEF NoneIn, OneIn

\* The next block is being sent.
LEMMA LinkStart ==
    ASSUME NEW S, NEW q \in Seq(S), q # << >>, NEW d, NEW W
    PROVE  /\ NoneIn(d, << >>, q, W) => NoneIn(d, <<Head(q)>>, Tail(q), W)
           /\ OneIn(d, << >>, q, W) => OneIn(d, <<Head(q)>>, Tail(q), W)
<1>1. /\ Free(q, W) => Free(Tail(q), W) /\ Head(q) \notin W
      /\ Single(q, W) => Single(Tail(q), W)
      /\ Single(q, W) /\ Head(q) \in W => Free(Tail(q), W)
  BY FreeTail
<1>2. /\ Single(<<Head(q)>>, W) /\ (Free(<<Head(q)>>, W) <=> Head(q) \notin W)
      /\ Free(<< >>, W)
  BY ShortSeqs
<1> QED
  BY <1>1, <1>2, FreeIsSingle DEF NoneIn, OneIn

\* One more block waits.
LEMMA LinkQueue ==
    ASSUME NEW S, NEW q \in Seq(S), NEW e \in S, NEW d, NEW s, NEW W
    PROVE  /\ NoneIn(d, s, q, W) => OneIn(d, s, Append(q, e), W)
           /\ NoneIn(d, s, q, W) /\ e \notin W => NoneIn(d, s, Append(q, e), W)
BY FreeAppend, FreeIsSingle DEF NoneIn, OneIn

-----------------------------------------------------------------------------
(* The stages of a trade, over the host, the console and the two links.    *)

NoneOf(h, d, W) == NoneIn(d, h.sender, h.blocks, W)
OneOf(h, d, W)  == OneIn(d, h.sender, h.blocks, W)

\* At most one word of a trade is on its way down, and it is in A; so for up.
Down(h, d, A) == OneOf(h, d, TradeWord) /\ NoneOf(h, d, TradeWord \ A)
Up(u, A)      == Single(u, Move) /\ Free(u, Move \ A)

\* The request for the party, in the words that wait or on its way.
NoReq(h, d) == Free(d, PartyReq) /\ Free(h.words, PartyReq)
OneReq(h, d) ==
    /\ Single(d, PartyReq) /\ Single(h.words, PartyReq)
    /\ Free(d, PartyReq) \/ Free(h.words, PartyReq)

\* The party of the console, about to be sent or on its way: the one it has.
NoParty(c, u) == Free(u, PartyReply) /\ Free(c.out, PartyReply)
OneParty(c, u) ==
    /\ Single(u, PartyReply) /\ Single(c.out, PartyReply)
    /\ Free(u, PartyReply) \/ Free(c.out, PartyReply)
    /\ Free(u, PartyReply \ {Mons(c.party)}) /\ Free(c.out, PartyReply \ {Mons(c.party)})

Early == {"LINK_PLAYER", "ENTRY_CARD", "ENTRY_SEAT", "SAVE"}
Late  == {"LEAVE_MENU", "CANCEL", "RETURN_FIELD", "EXIT", "CLOSE", "DONE"}

Before  == {"link", "linked", "card", "carding", "carded", "room", "seat", "saving", "party"}
AtTable == {"party", "partying", "menu", "asked", "cancelling", "prompt", "started",
            "declined", "anim", "finishing"}
InTrade == {"prompt", "started", "anim", "finishing"}
Away    == {"left", "field", "exiting", "out", "closing", "gone"}

Level(h, c) == h.round = c.round

\* Not yet at the menu, before the first trade or after one.
Apart(h, c, d, u) ==
    /\ h.state \in Early /\ ~h.waiting_idle
    /\ Level(h, c) /\ c.at \in Before
    /\ Down(h, d, {}) /\ NoReq(h, d) /\ Up(u, {}) /\ NoParty(c, u)

\* The host has asked for the party and sends its own.
Asking(h, c, d, u) ==
    /\ h.state = "PARTY" /\ ~h.waiting_idle
    /\ Level(h, c) /\ c.at \in Before
    /\ Down(h, d, {Mons(h.party)}) /\ OneReq(h, d) /\ Up(u, {}) /\ NoParty(c, u)

\* What the console sees and does, from its party to its choice.
AtMenu(h, c, d, u) ==
    \/ c.at = "partying" /\ Down(h, d, {Mons(h.party)}) /\ Up(u, {})
    \/ c.at = "menu" /\ c.view = h.party /\ Down(h, d, {}) /\ Up(u, {})
    \/ /\ c.at = "asked" /\ c.view = h.party /\ c.cursor \in DOMAIN ChildMons
       /\ Down(h, d, {}) /\ Up(u, {Select("READY_TO_TRADE", c.cursor)})
    \/ /\ c.at = "cancelling" /\ c.view = h.party
       /\ \/ Down(h, d, {}) /\ Up(u, {Block("REQUEST_CANCEL")})
          \/ Down(h, d, {Block("PARTNER_CANCEL_TRADE")}) /\ Up(u, {})

\* No standby follows a move of the console.
MoveLast(u) == \A i, j \in 1 .. Len(u) : i < j /\ u[i] \in Move => u[j] \notin Repeated

Choosing(h, c, d, u) ==
    /\ h.state \in {"PARTY", "SELECT"}
    /\ h.state = "SELECT" => h.round < Trades /\ ~h.waiting_idle
    /\ Level(h, c) /\ NoReq(h, d) /\ OneParty(c, u)
    /\ h.state = "SELECT" \/ h.waiting_idle => NoParty(c, u) /\ h.child_party = c.party
    /\ AtMenu(h, c, d, u)
    /\ MoveLast(u)

\* Both ends mean the same two Pokemon.
Answering(h, c, d, u) ==
    \/ c.at = "asked" /\ Down(h, d, {set_mons(h)}) /\ Up(u, {})
    \/ c.at = "prompt" /\ Down(h, d, {}) /\ Up(u, {})
    \/ c.at = "started" /\ Down(h, d, {}) /\ Up(u, {Block("INIT_BLOCK")})
    \/ c.at = "declined" /\ Down(h, d, {}) /\ Up(u, {Block("READY_CANCEL_TRADE")})

Watching(h, c, d, u) ==
    \/ c.at = "started" /\ Down(h, d, {Block("START_TRADE")}) /\ Up(u, {}) /\ ~h.child_finish
    \/ c.at = "anim" /\ Down(h, d, {}) /\ Up(u, {}) /\ ~h.child_finish
    \/ /\ c.at = "finishing" /\ Down(h, d, {})
       /\ Up(u, IF h.child_finish THEN {} ELSE {Block("READY_FINISH_TRADE")})

Agreed(h, c, d, u) ==
    /\ h.round < Trades /\ ~h.waiting_idle
    /\ Level(h, c) /\ NoReq(h, d) /\ NoParty(c, u) /\ Free(u, Repeated)
    /\ c.view = h.party /\ h.child_party = c.party
    /\ c.cursor \in DOMAIN ChildMons /\ h.child_cursor = c.cursor
    /\ \/ h.state = "CONFIRM" /\ Answering(h, c, d, u)
       \/ h.state = "ANIM" /\ Watching(h, c, d, u)
    /\ c.at # "asked" => c.offer = Offered[h.round + 1]

\* The host has committed, the console has not.
Owing(h, c, d, u) ==
    /\ h.state = "SAVE" /\ ~h.final_seen /\ ~h.waiting_idle
    /\ h.round = c.round + 1 /\ c.at = "finishing"
    /\ c.offer \in DOMAIN HostMons /\ c.cursor \in DOMAIN ChildMons /\ c.view \in HostParty
    /\ Down(h, d, {Block("CONFIRM_FINISH_TRADE")}) /\ NoReq(h, d)
    /\ Up(u, {}) /\ NoParty(c, u) /\ Free(u, Repeated)

\* No trade any more.
Leaving(h, c, d, u) ==
    /\ h.state \in Late
    /\ Level(h, c) /\ c.at \notin InTrade
    /\ NoneOf(h, d, SwapWord)

Stage(h, c, d, u) ==
    \/ Apart(h, c, d, u) \/ Asking(h, c, d, u) \/ Choosing(h, c, d, u)
    \/ Agreed(h, c, d, u) \/ Owing(h, c, d, u) \/ Leaving(h, c, d, u)

HostFields ==
    {"state", "expected", "words", "blocks", "sender", "held", "steady", "party",
     "child_party", "child_cursor", "round", "quiet", "waiting_idle", "final_seen",
     "last_standby", "save_last", "save_rounds", "child_finish", "select_cancels",
     "leave_wait", "host_cancel_ready", "child_cancel", "cancel_standby", "exit_wait",
     "child_exit_seen", "close_confirmed", "grace", "close_poll_sent",
     "disconnect_requested"}
ConsoleFields ==
    {"at", "out", "count", "todo", "pending", "quiet", "missed", "party", "view", "cursor",
     "offer", "round", "extra"}

IsHost(h) ==
    /\ DOMAIN h = HostFields
    /\ h.words \in Seq(PartyReq \cup OtherWord) /\ h.blocks \in Seq(HostBlock)
    /\ h.sender = << >> \/ \E b \in HostBlock : h.sender = <<b>>
    /\ h.held \in Seq({"READY", "EXIT"})
    /\ h.party \in HostParty /\ h.round \in Nat
    /\ h.disconnect_requested => h.state \in Late
    /\ h.state # "ANIM" => ~h.child_finish

\* A console that still has standbys to pass is not at the trade table.
IsConsole(c) ==
    /\ DOMAIN c = ConsoleFields
    /\ c.out \in Seq(PartyReply \cup OtherReply)
    /\ c.party \in ChildParty
    /\ c.count \in Nat /\ c.todo \in Nat /\ c.round \in Nat
    /\ c.pending => c.todo > 0
    /\ c.at \in AtTable => c.todo = 0

InvOf(h, c, d, u) ==
    /\ IsHost(h) /\ IsConsole(c) /\ d \in Seq(HostWord) /\ u \in Seq(Slot)
    /\ Stage(h, c, d, u)

Inv == InvOf(host, console, downlink, uplink)

-----------------------------------------------------------------------------
(* What keeps a stage.                                                     *)

\* The words of a trade on their way from g over e are no more than from h over d.
Flows(h, d, g, e) ==
    /\ \A W : W \subseteq TradeWord => (NoneOf(h, d, W) => NoneOf(g, e, W))
                                       /\ (OneOf(h, d, W) => OneOf(g, e, W))
    /\ NoReq(h, d) => NoReq(g, e)
    /\ OneReq(h, d) => OneReq(g, e)

\* Nothing that a trade depends on changed in the host, its state apart.
Alike(h, g) ==
    /\ g.party = h.party /\ g.child_party = h.child_party /\ g.child_cursor = h.child_cursor
    /\ g.round = h.round /\ g.waiting_idle = h.waiting_idle /\ g.child_finish = h.child_finish

LEMMA FlowsDown ==
    ASSUME NEW h, NEW d, NEW g, NEW e, Flows(h, d, g, e)
    PROVE  /\ \A A : Down(h, d, A) => Down(g, e, A)
           /\ NoReq(h, d) => NoReq(g, e)
           /\ OneReq(h, d) => OneReq(g, e)
           /\ NoneOf(h, d, SwapWord) => NoneOf(g, e, SwapWord)
<1>1. \A A : TradeWord \ A \subseteq TradeWord
  OBVIOUS
<1>2. SwapWord \subseteq TradeWord
  BY DEF TradeWord
<1> HIDE DEF TradeWord
<1> QED
  BY <1>1, <1>2 DEF Flows, Down

LEMMA StageKept ==
    ASSUME NEW h, NEW g, NEW c, NEW d, NEW e, NEW u,
           Flows(h, d, g, e), Alike(h, g), g.state = h.state,
           h.state = "SAVE" /\ ~h.final_seen => ~g.final_seen,
           Stage(h, c, d, u)
    PROVE  Stage(g, c, e, u)
<1>1. /\ \A A : Down(h, d, A) => Down(g, e, A)
      /\ NoReq(h, d) => NoReq(g, e)
      /\ OneReq(h, d) => OneReq(g, e)
      /\ NoneOf(h, d, SwapWord) => NoneOf(g, e, SwapWord)
  BY FlowsDown
<1>2. set_mons(g) = set_mons(h) /\ (Level(h, c) => Level(g, c))
  BY DEF set_mons, Level, Alike
<1>3. Apart(h, c, d, u) => Apart(g, c, e, u)
  BY <1>1, <1>2 DEF Apart, Alike
<1>4. Asking(h, c, d, u) => Asking(g, c, e, u)
  BY <1>1, <1>2 DEF Asking, Alike
<1>5. Choosing(h, c, d, u) => Choosing(g, c, e, u)
  <2>1. AtMenu(h, c, d, u) => AtMenu(g, c, e, u)
    BY <1>1 DEF AtMenu, Alike
  <2> QED
    BY <1>1, <1>2, <2>1 DEF Choosing, Alike
<1>6. Agreed(h, c, d, u) => Agreed(g, c, e, u)
  <2>1. Answering(h, c, d, u) => Answering(g, c, e, u)
    BY <1>1, <1>2 DEF Answering
  <2>2. Watching(h, c, d, u) => Watching(g, c, e, u)
    BY <1>1 DEF Watching, Alike
  <2> QED
    BY <1>1, <1>2, <2>1, <2>2 DEF Agreed, Alike
<1>7. Owing(h, c, d, u) => Owing(g, c, e, u)
  BY <1>1 DEF Owing, Alike
<1>8. Leaving(h, c, d, u) => Leaving(g, c, e, u)
  BY <1>1, <1>2 DEF Leaving
<1> QED
  BY <1>3, <1>4, <1>5, <1>6, <1>7, <1>8 DEF Stage

\* A slot that lands leaves the stage as it is.
LEMMA UpTail ==
    ASSUME NEW u \in Seq(Slot), u # << >>
    PROVE  /\ \A A : Up(u, A) => Up(Tail(u), A)
           /\ \A A : Up(u, A) /\ Head(u) \in Move => Head(u) \in A /\ Up(Tail(u), {})
           /\ \A W : Free(u, W) => Free(Tail(u), W)
           /\ \A W : Single(u, W) => Single(Tail(u), W)
           /\ \A W : Single(u, W) /\ Head(u) \in W => Free(Tail(u), W)
           /\ MoveLast(u) => MoveLast(Tail(u))
           /\ MoveLast(u) /\ Head(u) \in Move => Free(Tail(u), Repeated)
<1>1. /\ \A W : Free(u, W) => Free(Tail(u), W) /\ Head(u) \notin W
      /\ \A W : Single(u, W) => Single(Tail(u), W)
      /\ \A W : Single(u, W) /\ Head(u) \in W => Free(Tail(u), W)
  BY FreeTail
<1>2. \A A : Free(Tail(u), Move) => Free(Tail(u), Move \ A)
  BY DEF Free
<1>3. /\ Head(u) = u[1] /\ Len(u) \in Nat \ {0} /\ Len(Tail(u)) = Len(u) - 1
      /\ \A n \in 1 .. Len(u) - 1 : n + 1 \in 1 .. Len(u) /\ Tail(u)[n] = u[n + 1]
  BY TailIs
<1>4. MoveLast(u) => MoveLast(Tail(u))
  BY <1>3 DEF MoveLast
<1>5. MoveLast(u) /\ Head(u) \in Move => Free(Tail(u), Repeated)
  BY <1>3 DEF MoveLast, Free
<1>6. \A A : Up(u, A) => Up(Tail(u), A)
  BY <1>1 DEF Up
<1>7. \A A : Up(u, A) /\ Head(u) \in Move => Head(u) \in A /\ Up(Tail(u), {})
  <2> SUFFICES ASSUME NEW A, Up(u, A), Head(u) \in Move
               PROVE  Head(u) \in A /\ Up(Tail(u), {})
    OBVIOUS
  <2>1. Head(u) \in A
    BY <1>1 DEF Up
  <2> QED
    BY <1>1, <1>2, <2>1, FreeIsSingle DEF Up
<1> QED
  BY <1>1, <1>4, <1>5, <1>6, <1>7

LEMMA StageLanded ==
    ASSUME NEW h, NEW c, NEW d, NEW u \in Seq(Slot), u # << >>, Stage(h, c, d, u)
    PROVE  Stage(h, c, d, Tail(u))
<1>1. /\ \A A : Up(u, A) => Up(Tail(u), A)
      /\ \A W : Free(u, W) => Free(Tail(u), W)
      /\ \A W : Single(u, W) => Single(Tail(u), W)
      /\ MoveLast(u) => MoveLast(Tail(u))
  BY UpTail
<1>2. NoParty(c, u) => NoParty(c, Tail(u))
  BY <1>1 DEF NoParty
<1>3. OneParty(c, u) => OneParty(c, Tail(u))
  BY <1>1 DEF OneParty
<1>4. Apart(h, c, d, u) => Apart(h, c, d, Tail(u))
  BY <1>1, <1>2 DEF Apart
<1>5. Asking(h, c, d, u) => Asking(h, c, d, Tail(u))
  BY <1>1, <1>2 DEF Asking
<1>6. Choosing(h, c, d, u) => Choosing(h, c, d, Tail(u))
  BY <1>1, <1>2, <1>3 DEF Choosing, AtMenu
<1>7. Agreed(h, c, d, u) => Agreed(h, c, d, Tail(u))
  BY <1>1, <1>2 DEF Agreed, Answering, Watching
<1>8. Owing(h, c, d, u) => Owing(h, c, d, Tail(u))
  BY <1>1, <1>2 DEF Owing
<1>9. Leaving(h, c, d, u) => Leaving(h, c, d, Tail(u))
  BY DEF Leaving
<1> QED
  BY <1>4, <1>5, <1>6, <1>7, <1>8, <1>9 DEF Stage

-----------------------------------------------------------------------------
(* What the words are.                                                     *)

PlainBlock == {Block("link_player"), Block("card")}
AnyWord    == PartyReq \cup OtherWord

LEMMA WordKinds ==
    /\ \A w \in TradeWord : w.op = "block" /\ w.cmd \notin {"link_player", "card"}
    /\ \A w \in PlainBlock : w.op = "block" /\ w.cmd \in {"link_player", "card"}
    /\ \A w \in PartyReq : w.op = "req" /\ w.of = "party"
    /\ \A w \in OtherWord : w.op \in {"req", "close", "standby"} /\ (w.op = "req" => w.of # "party")
    /\ Idle.op = "idle" /\ Disconnect.op = "D" /\ \A k : Key(k).op = "key"
BY DEF TradeWord, SwapWord, PlainBlock, PartyReq, OtherWord, Select, Block, Mons, Req, Close,
       Standby, Idle, Disconnect, Key

LEMMA SlotKinds ==
    /\ \A s \in Repeated : s.op = "standby" /\ s.count \in Nat
    /\ \A s \in PartyReply : s.op = "block" /\ s.cmd = "party" /\ s.mons \in ChildParty /\ s = Mons(s.mons)
    /\ \A s \in OtherReply : s.op \in {"block", "close", "key"}
                             /\ (s.op = "block" => s.cmd \in {"link_player", "card"})
    /\ \A s \in Move : s.op = "block" /\ s.cmd \in {"READY_TO_TRADE", "REQUEST_CANCEL", "INIT_BLOCK",
                                                    "READY_CANCEL_TRADE", "READY_FINISH_TRADE"}
BY DEF Repeated, PartyReply, OtherReply, Move, Select, Block, Mons, Close, Standby, Key

LEMMA WordsApart ==
    /\ TradeWord \cap PlainBlock = {} /\ PartyReq \cap OtherWord = {}
    /\ TradeWord \cap AnyWord = {} /\ PartyReq \cap HostBlock = {}
    /\ \A w \in {Idle, Disconnect, Key("READY"), Key("EXIT")} : w \notin TradeWord /\ w \notin PartyReq
    /\ PlainBlock \subseteq HostBlock /\ TradeWord \subseteq HostBlock
    /\ AnyWord \subseteq HostWord /\ HostBlock \subseteq HostWord
    /\ {Idle, Disconnect, Key("READY"), Key("EXIT")} \subseteq HostWord
<1>1. \A w \in HostBlock : w.op = "block"
  BY WordKinds DEF HostBlock, Block
<1>2. HostBlock = TradeWord \cup PlainBlock
  BY DEF HostBlock, PlainBlock
<1> HIDE DEF HostBlock, TradeWord, PlainBlock, PartyReq, OtherWord, Idle, Disconnect, Key
<1>3. /\ TradeWord \cap PlainBlock = {} /\ PartyReq \cap OtherWord = {}
      /\ TradeWord \cap AnyWord = {} /\ PartyReq \cap HostBlock = {}
  BY <1>1, WordKinds DEF AnyWord
<1>4. \A w \in {Idle, Disconnect, Key("READY"), Key("EXIT")} : w \notin TradeWord /\ w \notin PartyReq
  BY WordKinds
<1> QED
  BY <1>2, <1>3, <1>4 DEF HostWord, AnyWord

-----------------------------------------------------------------------------
(* A step of the host that no trade depends on.                            *)

\* From s to t only words of S came, and both hold words of T.
Adds(s, t, S, T) ==
    s \in Seq(T) =>
        /\ t \in Seq(T)
        /\ \A W : W \cap S = {} => (Free(s, W) => Free(t, W)) /\ (Single(s, W) => Single(t, W))

LEMMA GrowsAdds ==
    ASSUME NEW s, NEW t, NEW S, NEW T, S \subseteq T, Grows(s, t, S)
    PROVE  Adds(s, t, S, T)
BY GrowsFree DEF Adds

HeldKey == {"READY", "EXIT"}

Steady(h, g) ==
    /\ DOMAIN h = HostFields => DOMAIN g = HostFields
    /\ Alike(h, g) /\ g.sender = h.sender /\ g.disconnect_requested = h.disconnect_requested
    /\ Adds(h.words, g.words, OtherWord, AnyWord)
    /\ Adds(h.blocks, g.blocks, PlainBlock, HostBlock)
    /\ h.held \in Seq(HeldKey) => g.held \in Seq(HeldKey)

LEMMA SteadyBy ==
    ASSUME NEW h, NEW g, DOMAIN g = HostFields, Alike(h, g), g.sender = h.sender,
           g.disconnect_requested = h.disconnect_requested,
           Grows(h.words, g.words, OtherWord), Grows(h.blocks, g.blocks, PlainBlock),
           g.held = h.held \/ g.held \in Seq(HeldKey)
    PROVE  Steady(h, g)
<1>1. OtherWord \subseteq AnyWord /\ PlainBlock \subseteq HostBlock
  BY WordsApart DEF AnyWord
<1> HIDE DEF OtherWord, AnyWord, PlainBlock, HostBlock
<1>2. Adds(h.words, g.words, OtherWord, AnyWord) /\ Adds(h.blocks, g.blocks, PlainBlock, HostBlock)
  BY <1>1, GrowsAdds
<1> QED
  BY <1>2 DEF Steady

LEMMA SteadyTwice ==
    ASSUME NEW f, NEW g, NEW h, Steady(f, g), Steady(g, h)
    PROVE  Steady(f, h)
<1>1. \A r, s, t, S, T : Adds(r, s, S, T) /\ Adds(s, t, S, T) => Adds(r, t, S, T)
  BY DEF Adds
<1> QED
  BY <1>1 DEF Steady, Alike

\* It moves no word of a trade.
LEMMA SteadyFlows ==
    ASSUME NEW h, IsHost(h), NEW g, Steady(h, g), NEW d
    PROVE  Flows(h, d, g, d)
<1>1. h.words \in Seq(AnyWord) /\ h.blocks \in Seq(HostBlock)
  BY DEF IsHost, AnyWord
<1>2. /\ PartyReq \cap OtherWord = {}
      /\ \A W : W \subseteq TradeWord => W \cap PlainBlock = {}
  BY WordsApart
<1> HIDE DEF OtherWord, AnyWord, PlainBlock, HostBlock, PartyReq, TradeWord
<1>3. /\ \A W : W \cap OtherWord = {} => (Free(h.words, W) => Free(g.words, W))
                                         /\ (Single(h.words, W) => Single(g.words, W))
      /\ \A W : W \cap PlainBlock = {} => (Free(h.blocks, W) => Free(g.blocks, W))
                                          /\ (Single(h.blocks, W) => Single(g.blocks, W))
      /\ g.sender = h.sender
  BY <1>1 DEF Steady, Adds
<1>4. (NoReq(h, d) => NoReq(g, d)) /\ (OneReq(h, d) => OneReq(g, d))
  BY <1>2, <1>3 DEF NoReq, OneReq
<1>5. \A W : W \subseteq TradeWord => (NoneOf(h, d, W) => NoneOf(g, d, W))
                                      /\ (OneOf(h, d, W) => OneOf(g, d, W))
  BY <1>2, <1>3 DEF NoneOf, OneOf, NoneIn, OneIn
<1> QED
  BY <1>4, <1>5 DEF Flows

LEMMA SteadyHost ==
    ASSUME NEW h, IsHost(h), NEW g, Steady(h, g),
           g.state = h.state \/ (h.state \in Early /\ g.state \in Early)
    PROVE  IsHost(g)
<1>1. h.words \in Seq(AnyWord) /\ h.blocks \in Seq(HostBlock) /\ DOMAIN h = HostFields
      /\ h.held \in Seq(HeldKey)
  BY DEF IsHost, AnyWord, HeldKey
<1>2. /\ g.words \in Seq(AnyWord) /\ g.blocks \in Seq(HostBlock) /\ DOMAIN g = HostFields
      /\ g.held \in Seq(HeldKey)
  BY <1>1 DEF Steady, Adds
<1>3. /\ g.sender = h.sender /\ g.party = h.party /\ g.round = h.round
      /\ g.disconnect_requested = h.disconnect_requested /\ g.child_finish = h.child_finish
  BY DEF Steady, Alike
<1>4. (g.disconnect_requested => g.state \in Late) /\ (g.state # "ANIM" => ~g.child_finish)
  BY <1>3 DEF IsHost, Early, Late
<1> QED
  BY <1>2, <1>3, <1>4 DEF IsHost, AnyWord, HeldKey

-----------------------------------------------------------------------------
(* feed_child_slot, for the slots that are no move of a trade.             *)

Rest(h) == [h EXCEPT !.quiet = 0]

LEMMA RestSteady ==
    ASSUME NEW h, DOMAIN h = HostFields
    PROVE  /\ Steady(h, Rest(h)) /\ DOMAIN Rest(h) = HostFields
           /\ \A k \in HostFields \ {"quiet"} : Rest(h)[k] = h[k]
<1>1. DOMAIN Rest(h) = HostFields /\ \A k \in HostFields \ {"quiet"} : Rest(h)[k] = h[k]
  BY DEF Rest, HostFields
<1>2. /\ Alike(h, Rest(h)) /\ Rest(h).sender = h.sender
      /\ Rest(h).disconnect_requested = h.disconnect_requested
      /\ Rest(h).words = h.words /\ Rest(h).blocks = h.blocks /\ Rest(h).held = h.held
  BY DEF Rest, HostFields, Alike
<1> QED
  BY <1>1, <1>2, SteadyBy DEF Grows

LEMMA CardSteady ==
    ASSUME NEW h, DOMAIN h = HostFields
    PROVE  Steady(h, begin_card_exchange(h)) /\ begin_card_exchange(h).state = "ENTRY_CARD"
<1> DEFINE g == begin_card_exchange(h)
<1>1. /\ DOMAIN g = HostFields /\ Alike(h, g) /\ g.sender = h.sender
      /\ g.disconnect_requested = h.disconnect_requested /\ g.held = h.held
      /\ g.words = h.words \o <<Req("card")>> /\ g.blocks = Append(h.blocks, Block("card"))
      /\ g.state = "ENTRY_CARD"
  BY DEF HostFields, begin_card_exchange, request_and_send, send, say, enter, Alike
<1>2. Req("card") \in OtherWord /\ Block("card") \in PlainBlock
  BY DEF OtherWord, PlainBlock
<1> HIDE DEF g, OtherWord, PlainBlock
<1>3. Grows(h.words, g.words, OtherWord) /\ Grows(h.blocks, g.blocks, PlainBlock)
  BY <1>1, <1>2, ShortSeqs DEF Grows
<1>4. Steady(h, g)
  BY <1>1, <1>3, SteadyBy
<1> QED
  BY <1>1, <1>4 DEF g

LEMMA EchoSteady ==
    ASSUME NEW h, DOMAIN h = HostFields, NEW n \in Nat
    PROVE  /\ Steady(h, echoed(h, n)) /\ DOMAIN echoed(h, n) = HostFields
           /\ \A k \in HostFields \ {"words", "last_standby"} : echoed(h, n)[k] = h[k]
<1> DEFINE g == echoed(h, n)
<1>1. PICK m \in Nat : g = [say(h, times(Standby(n), m)) EXCEPT !.last_standby = n]
  BY TradeAssumption DEF echoed
<1>2. DOMAIN g = HostFields /\ \A k \in HostFields \ {"words", "last_standby"} : g[k] = h[k]
  BY <1>1 DEF HostFields, say
<1>3. /\ Alike(h, g) /\ g.sender = h.sender /\ g.disconnect_requested = h.disconnect_requested
      /\ g.held = h.held /\ g.blocks = h.blocks
      /\ g.words = h.words \o times(Standby(n), m)
  BY <1>1 DEF HostFields, say, Alike
<1>4. Standby(n) \in OtherWord
  BY DEF OtherWord
<1> HIDE DEF g, OtherWord
<1>5. times(Standby(n), m) \in Seq(OtherWord)
  BY <1>4, TimesIs
<1>6. Grows(h.words, g.words, OtherWord) /\ Grows(h.blocks, g.blocks, PlainBlock)
  BY <1>3, <1>5 DEF Grows
<1>7. Steady(h, g)
  BY <1>2, <1>3, <1>6, SteadyBy
<1> QED
  BY <1>2, <1>7 DEF g

\* The engine takes its seat, counts a save round or is on its way out.
LEMMA SeatSteady ==
    ASSUME NEW h, DOMAIN h = HostFields
    PROVE  /\ Steady(h, maybe_finish_entry(h)) /\ maybe_finish_entry(h).state = h.state
           /\ h.state # "ENTRY_SEAT" => maybe_finish_entry(h) = h
<1> DEFINE g == maybe_finish_entry(h)
<1>1. /\ DOMAIN g = HostFields /\ Alike(h, g) /\ g.sender = h.sender
      /\ g.disconnect_requested = h.disconnect_requested /\ (g.held = h.held \/ g.held = << >>)
      /\ g.words = h.words /\ g.blocks = h.blocks
      /\ g.state = h.state /\ (h.state # "ENTRY_SEAT" => g = h)
  BY DEF HostFields, maybe_finish_entry, Alike
<1> HIDE DEF g
<1>2. Steady(h, g)
  BY <1>1, SteadyBy, ShortSeqs DEF Grows
<1> QED
  BY <1>1, <1>2 DEF g

LEMMA SaveSteady ==
    ASSUME NEW h, DOMAIN h = HostFields, NEW n
    PROVE  Steady(h, saveRound(h, n)) /\ saveRound(h, n).state = h.state
<1> DEFINE g == saveRound(h, n)
<1>1. /\ DOMAIN g = HostFields /\ Alike(h, g) /\ g.sender = h.sender
      /\ g.disconnect_requested = h.disconnect_requested /\ g.held = h.held
      /\ g.words = h.words /\ g.blocks = h.blocks /\ g.state = h.state
  BY DEF HostFields, saveRound, Alike
<1> HIDE DEF g
<1>2. Steady(h, g)
  BY <1>1, SteadyBy DEF Grows
<1> QED
  BY <1>1, <1>2 DEF g

LEMMA EntrySteady ==
    ASSUME NEW h, DOMAIN h = HostFields
    PROVE  LET g == [enter(h, "ENTRY_SEAT") EXCEPT !.expected = "warp2", !.held = <<"READY">>]
           IN  Steady(h, g) /\ g.state = "ENTRY_SEAT"
<1> DEFINE g == [enter(h, "ENTRY_SEAT") EXCEPT !.expected = "warp2", !.held = <<"READY">>]
<1>1. /\ DOMAIN g = HostFields /\ Alike(h, g) /\ g.sender = h.sender
      /\ g.disconnect_requested = h.disconnect_requested /\ g.held = <<"READY">>
      /\ g.words = h.words /\ g.blocks = h.blocks /\ g.state = "ENTRY_SEAT"
  BY DEF HostFields, enter, Alike
<1>2. <<"READY">> \in Seq(HeldKey)
  BY ShortSeqs DEF HeldKey
<1> HIDE DEF g
<1>3. Steady(h, g)
  BY <1>1, <1>2, SteadyBy DEF Grows
<1> QED
  BY <1>1, <1>3 DEF g

\* What such a slot leaves: the same stage.
Calm(h, g, slot) ==
    /\ Steady(h, g)
    /\ g.state = h.state \/ (h.state \in Early /\ g.state \in Early)
    /\ h.state = "SAVE" /\ ~h.final_seen /\ slot \notin Repeated => g.state = "SAVE" /\ ~g.final_seen

LEMMA SteadySame == \A h : DOMAIN h = HostFields => Steady(h, h)
<1> TAKE h
<1>1. ASSUME DOMAIN h = HostFields PROVE Alike(h, h) /\ Grows(h.words, h.words, OtherWord)
                                         /\ Grows(h.blocks, h.blocks, PlainBlock)
  BY DEF Alike, Grows
<1> QED
  BY <1>1, SteadyBy

LEMMA FeedStandby ==
    ASSUME NEW h, DOMAIN h = HostFields, h.state \notin Late, NEW slot \in Repeated
    PROVE  Calm(h, feed_child_slot(h, slot), slot)
<1> DEFINE n == slot.count
           f == IF h.state \in {"PARTY", "LINK_PLAYER"} THEN [h EXCEPT !.quiet = 0] ELSE h
           e == echoed(f, n)
           seat == [enter(e, "ENTRY_SEAT") EXCEPT !.expected = "warp2", !.held = <<"READY">>]
           g == feed_child_slot(h, slot)
<1>1. slot.op = "standby" /\ n \in Nat
  BY SlotKinds
<1>2. g = on_child_standby(f, n)
  BY <1>1 DEF feed_child_slot
<1>3. f = Rest(h) \/ f = h
  BY DEF Rest
<1>4. Steady(h, f) /\ DOMAIN f = HostFields /\ f.state = h.state
  BY <1>3, RestSteady, SteadySame DEF HostFields
<1> HIDE DEF f
<1>5. Steady(f, e) /\ DOMAIN e = HostFields /\ e.state = f.state
  BY <1>1, <1>4, EchoSteady DEF HostFields
<1>6. \/ g = Rest(f) \/ g = e
      \/ g = begin_card_exchange(e) /\ f.state = "LINK_PLAYER"
      \/ g = seat /\ f.state = "ENTRY_CARD"
      \/ g = maybe_finish_entry(e)
      \/ g = saveRound(e, n)
      \/ g = cancelRound(e, n) /\ f.state = "CANCEL"
  BY <1>2 DEF on_child_standby, Rest
<1>7. ~(f.state = "CANCEL")
  BY <1>4 DEF Late
<1> HIDE DEF e, g, n
<1>8. Steady(f, Rest(f)) /\ Rest(f).state = f.state
  BY <1>4, RestSteady DEF HostFields
<1>9. /\ Steady(e, begin_card_exchange(e)) /\ begin_card_exchange(e).state = "ENTRY_CARD"
      /\ Steady(e, maybe_finish_entry(e)) /\ maybe_finish_entry(e).state = e.state
      /\ Steady(e, saveRound(e, n)) /\ saveRound(e, n).state = e.state
  BY <1>5, CardSteady, SeatSteady, SaveSteady
<1>10. Steady(e, seat) /\ seat.state = "ENTRY_SEAT"
  BY <1>5, EntrySteady
<1> HIDE DEF seat
<1>11. Steady(f, g) /\ (g.state = h.state \/ (h.state \in Early /\ g.state \in Early))
  BY <1>4, <1>5, <1>6, <1>7, <1>8, <1>9, <1>10, SteadyTwice DEF Early
<1>12. Steady(h, g)
  BY <1>4, <1>11, SteadyTwice
<1> QED
  BY <1>11, <1>12 DEF Calm, g

LEMMA FeedIdle ==
    ASSUME NEW h, DOMAIN h = HostFields, h.state \notin Late
    PROVE  LET g == feed_child_slot(h, Idle)
           IN  \/ Calm(h, g, Idle)
               \/ g = begin_party_exchange(h) /\ h.state \in Early /\ (h.state = "SAVE" => h.final_seen)
               \/ g = finish_party_exchange(h) /\ h.state = "PARTY" /\ h.waiting_idle
<1> DEFINE g == feed_child_slot(h, Idle)
           more == [h EXCEPT !.quiet = @ + 1]
<1>1. g = feed_idle_slot(h)
  BY DEF feed_child_slot, Idle
<1>2. \/ g = begin_party_exchange(h) /\ h.state \in Early /\ (h.state = "SAVE" => h.final_seen)
      \/ g = finish_party_exchange(h) /\ h.state = "PARTY" /\ h.waiting_idle
      \/ g = begin_card_exchange(h) /\ h.state = "LINK_PLAYER"
      \/ g = more \/ g = h
  BY <1>1 DEF feed_idle_slot, counted, Early
<1>3. Steady(h, more) /\ more.state = h.state /\ more.final_seen = h.final_seen
  <2>1. /\ DOMAIN more = HostFields /\ Alike(h, more) /\ more.sender = h.sender
        /\ more.disconnect_requested = h.disconnect_requested /\ more.held = h.held
        /\ more.words = h.words /\ more.blocks = h.blocks
        /\ more.state = h.state /\ more.final_seen = h.final_seen
    BY DEF HostFields, Alike
  <2> HIDE DEF more
  <2> QED
    BY <2>1, SteadyBy DEF Grows
<1>4. Steady(h, h)
  BY SteadySame
<1> HIDE DEF g, more
<1>5. CASE g = begin_card_exchange(h) /\ h.state = "LINK_PLAYER"
  BY <1>5, CardSteady DEF Calm, Early, g
<1>6. CASE g = more \/ g = h
  BY <1>3, <1>4, <1>6 DEF Calm, g
<1> QED
  BY <1>2, <1>5, <1>6 DEF g

LEMMA FeedOther ==
    ASSUME NEW h, DOMAIN h = HostFields, h.state \notin Late, NEW slot \in OtherReply
    PROVE  Calm(h, feed_child_slot(h, slot), slot)
<1> DEFINE f == IF h.state \in {"PARTY", "LINK_PLAYER"} THEN [h EXCEPT !.quiet = 0] ELSE h
           g == feed_child_slot(h, slot)
           lp == send([f EXCEPT !.expected = "warp0"], Block("link_player"))
           cd == [f EXCEPT !.expected = "warp1"]
<1>1. f = Rest(h) \/ f = h
  BY DEF Rest
<1>2. /\ Steady(h, f) /\ DOMAIN f = HostFields /\ f.state = h.state
      /\ f.final_seen = h.final_seen
  BY <1>1, RestSteady, SteadySame DEF HostFields
<1>3. /\ slot.op \in {"block", "close", "key"}
      /\ slot.op = "block" => slot.cmd \in {"link_player", "card"}
  BY SlotKinds
<1>4. \/ slot.op = "block" /\ g = after_child_block(f, slot)
      \/ slot.op = "key" /\ g = child_send_held_keys(f, slot.key)
      \/ slot.op = "close" /\ g = child_ready_close_link(f)
  BY <1>3 DEF feed_child_slot, on_child_block
<1> HIDE DEF f
<1>5. \/ g = lp \/ g = cd \/ g = f
      \/ g = maybe_finish_entry(f) /\ f.state = "ENTRY_SEAT"
  BY <1>2, <1>3, <1>4 DEF after_child_block, child_send_held_keys, child_ready_close_link, Late
<1>6. Steady(f, lp) /\ lp.state = f.state /\ lp.final_seen = f.final_seen
  <2>1. /\ DOMAIN lp = HostFields /\ Alike(f, lp) /\ lp.sender = f.sender
        /\ lp.disconnect_requested = f.disconnect_requested /\ lp.held = f.held
        /\ lp.words = f.words /\ lp.blocks = Append(f.blocks, Block("link_player"))
        /\ lp.state = f.state /\ lp.final_seen = f.final_seen
    BY <1>2 DEF HostFields, Alike, send
  <2>2. Block("link_player") \in PlainBlock
    BY DEF PlainBlock
  <2> HIDE DEF lp, PlainBlock
  <2> QED
    BY <2>1, <2>2, SteadyBy DEF Grows
<1>7. Steady(f, cd) /\ cd.state = f.state /\ cd.final_seen = f.final_seen
  <2>1. /\ DOMAIN cd = HostFields /\ Alike(f, cd) /\ cd.sender = f.sender
        /\ cd.disconnect_requested = f.disconnect_requested /\ cd.held = f.held
        /\ cd.words = f.words /\ cd.blocks = f.blocks
        /\ cd.state = f.state /\ cd.final_seen = f.final_seen
    BY <1>2 DEF HostFields, Alike
  <2> HIDE DEF cd
  <2> QED
    BY <2>1, SteadyBy DEF Grows
<1>8. Steady(f, maybe_finish_entry(f)) /\ maybe_finish_entry(f).state = f.state
  BY <1>2, SeatSteady
<1>9. Steady(f, f)
  BY <1>2, SteadySame
<1> HIDE DEF g, lp, cd
<1>10. /\ Steady(f, g) /\ g.state = h.state
       /\ h.state = "SAVE" => g.final_seen = h.final_seen
  BY <1>2, <1>5, <1>6, <1>7, <1>8, <1>9
<1>11. Steady(h, g)
  BY <1>2, <1>10, SteadyTwice
<1> QED
  BY <1>10, <1>11 DEF Calm, g

-----------------------------------------------------------------------------
(* Once no trade is left, nothing starts one.                              *)

LateBlock == PlainBlock \cup {Block("BOTH_CANCEL_TRADE"), Block("PLAYER_CANCEL_TRADE")}

LateOn(h, g) ==
    /\ DOMAIN g = HostFields
    /\ Adds(h.words, g.words, OtherWord, AnyWord)
    /\ Adds(h.blocks, g.blocks, LateBlock, HostBlock)
    /\ h.held \in Seq(HeldKey) => g.held \in Seq(HeldKey)
    /\ g.sender = h.sender /\ g.party = h.party /\ g.round = h.round
    /\ g.child_finish = h.child_finish
    /\ g.state \in Late

LEMMA LateBlocks == LateBlock \subseteq HostBlock /\ SwapWord \cap LateBlock = {} /\ PlainBlock \subseteq LateBlock
<1>1. SwapWord \cap PlainBlock = {}
  BY WordsApart DEF TradeWord
<1>2. \A w \in SwapWord : w.cmd \in {"SET_MONS_TO_TRADE", "START_TRADE", "CONFIRM_FINISH_TRADE"}
  BY DEF SwapWord, Select, Block
<1>3. \A cmd : Block(cmd).cmd = cmd
  BY DEF Block
<1>4. LateBlock \subseteq HostBlock
  BY DEF LateBlock, PlainBlock, HostBlock, TradeWord
<1> HIDE DEF SwapWord, PlainBlock
<1> QED
  BY <1>1, <1>2, <1>3, <1>4 DEF LateBlock

LEMMA LateBy ==
    ASSUME NEW h, NEW g, DOMAIN g = HostFields,
           Grows(h.words, g.words, OtherWord), Grows(h.blocks, g.blocks, LateBlock),
           g.held = h.held \/ g.held \in Seq(HeldKey),
           g.sender = h.sender, g.party = h.party, g.round = h.round,
           g.child_finish = h.child_finish, g.state \in Late
    PROVE  LateOn(h, g)
<1>1. OtherWord \subseteq AnyWord /\ LateBlock \subseteq HostBlock
  BY LateBlocks DEF AnyWord
<1> HIDE DEF OtherWord, AnyWord, LateBlock, HostBlock, Late
<1>2. Adds(h.words, g.words, OtherWord, AnyWord) /\ Adds(h.blocks, g.blocks, LateBlock, HostBlock)
  BY <1>1, GrowsAdds
<1> QED
  BY <1>2 DEF LateOn

LEMMA LateSteady ==
    ASSUME NEW h, NEW g, DOMAIN h = HostFields, Steady(h, g), g.state \in Late
    PROVE  LateOn(h, g)
<1>1. PlainBlock \subseteq LateBlock
  BY LateBlocks
<1>2. \A W : W \cap LateBlock = {} => W \cap PlainBlock = {}
  BY <1>1
<1> HIDE DEF PlainBlock, LateBlock, Late
<1> QED
  BY <1>2 DEF LateOn, Steady, Alike, Adds

LEMMA LateTwice ==
    ASSUME NEW f, NEW g, NEW h, LateOn(f, g), LateOn(g, h)
    PROVE  LateOn(f, h)
<1>1. \A r, s, t, S, T : Adds(r, s, S, T) /\ Adds(s, t, S, T) => Adds(r, t, S, T)
  BY DEF Adds
<1> HIDE DEF Late
<1> QED
  BY <1>1 DEF LateOn

LEMMA LateHost ==
    ASSUME NEW h, IsHost(h), h.state # "ANIM", NEW g, LateOn(h, g)
    PROVE  /\ IsHost(g)
           /\ \A d : NoneOf(h, d, SwapWord) => NoneOf(g, d, SwapWord)
<1>1. h.words \in Seq(AnyWord) /\ h.blocks \in Seq(HostBlock) /\ h.held \in Seq(HeldKey)
  BY DEF IsHost, AnyWord, HeldKey
<1>2. SwapWord \cap LateBlock = {}
  BY LateBlocks
<1> HIDE DEF AnyWord, HostBlock, LateBlock, SwapWord, HeldKey
<1>3. /\ g.words \in Seq(AnyWord) /\ g.blocks \in Seq(HostBlock) /\ g.held \in Seq(HeldKey)
      /\ Free(h.blocks, SwapWord) => Free(g.blocks, SwapWord)
  BY <1>1, <1>2 DEF LateOn, Adds
<1>4. \A d : NoneOf(h, d, SwapWord) => NoneOf(g, d, SwapWord)
  BY <1>3 DEF NoneOf, NoneIn, LateOn
<1>5. IsHost(g)
  BY <1>1, <1>3 DEF IsHost, LateOn, AnyWord, HeldKey
<1> QED
  BY <1>4, <1>5

\* The ways out.
LEMMA CancelLate ==
    ASSUME NEW h, DOMAIN h = HostFields
    PROVE  LateOn(h, enter_cancel_to_leave(h))
<1> DEFINE g == enter_cancel_to_leave(h)
<1>1. /\ DOMAIN g = HostFields /\ g.words = h.words
      /\ g.blocks = Append(h.blocks, Block("BOTH_CANCEL_TRADE"))
      /\ g.held = h.held /\ g.sender = h.sender /\ g.party = h.party /\ g.round = h.round
      /\ g.child_finish = h.child_finish /\ g.state = "CANCEL"
  BY DEF HostFields, enter_cancel_to_leave, send, enter
<1>2. Block("BOTH_CANCEL_TRADE") \in LateBlock
  BY DEF LateBlock
<1> HIDE DEF g, LateBlock
<1>3. Grows(h.words, g.words, OtherWord) /\ Grows(h.blocks, g.blocks, LateBlock) /\ g.state \in Late
  BY <1>1, <1>2 DEF Grows, Late
<1> QED
  BY <1>1, <1>3, LateBy DEF g

LEMMA ExitLate ==
    ASSUME NEW h, DOMAIN h = HostFields, NEW child_first
    PROVE  LateOn(h, begin_room_exit(h, child_first))
<1> DEFINE g == begin_room_exit(h, child_first)
<1>1. /\ DOMAIN g = HostFields /\ g.words = h.words /\ g.blocks = h.blocks
      /\ g.held = <<"EXIT">> /\ g.sender = h.sender /\ g.party = h.party /\ g.round = h.round
      /\ g.child_finish = h.child_finish /\ g.state = "EXIT"
  BY DEF HostFields, begin_room_exit, enter
<1>2. <<"EXIT">> \in Seq(HeldKey)
  BY ShortSeqs DEF HeldKey
<1> HIDE DEF g
<1>3. Grows(h.words, g.words, OtherWord) /\ Grows(h.blocks, g.blocks, LateBlock) /\ g.state \in Late
  BY <1>1 DEF Grows, Late
<1> QED
  BY <1>1, <1>2, <1>3, LateBy DEF g

LEMMA CloseLate ==
    ASSUME NEW h, DOMAIN h = HostFields
    PROVE  LateOn(h, complete_room_exit(h))
<1> DEFINE g == complete_room_exit(h)
<1>1. /\ DOMAIN g = HostFields /\ g.words = h.words \o times(Close, EchoFrames) /\ g.blocks = h.blocks
      /\ g.held = << >> /\ g.sender = h.sender /\ g.party = h.party /\ g.round = h.round
      /\ g.child_finish = h.child_finish /\ g.state = "CLOSE"
  BY DEF HostFields, complete_room_exit, enter, say
<1>2. Close \in OtherWord /\ EchoFrames \in Nat /\ << >> \in Seq(HeldKey)
  BY TradeAssumption, ShortSeqs DEF OtherWord
<1> HIDE DEF g, OtherWord
<1>3. times(Close, EchoFrames) \in Seq(OtherWord)
  BY <1>2, TimesIs
<1>4. Grows(h.words, g.words, OtherWord) /\ Grows(h.blocks, g.blocks, LateBlock) /\ g.state \in Late
  BY <1>1, <1>3 DEF Grows, Late
<1> QED
  BY <1>1, <1>2, <1>4, LateBy DEF g

\* A change of the fields no stage depends on.
LEMMA MarkLate ==
    ASSUME NEW h, NEW g, DOMAIN g = HostFields,
           g.words = h.words, g.blocks = h.blocks, g.held = h.held, g.sender = h.sender,
           g.party = h.party, g.round = h.round, g.child_finish = h.child_finish,
           g.state \in Late
    PROVE  LateOn(h, g)
BY LateBy DEF Grows

LEMMA FeedLate ==
    ASSUME NEW h, DOMAIN h = HostFields, h.state \in Late, NEW slot \in Slot
    PROVE  LateOn(h, feed_child_slot(h, slot))
<1> DEFINE g == feed_child_slot(h, slot)
           e == echoed(h, slot.count)
           lp == send([h EXCEPT !.expected = "warp0"], Block("link_player"))
           cd == [h EXCEPT !.expected = "warp1"]
           no == send(h, Block("PLAYER_CANCEL_TRADE"))
           asked == [h EXCEPT !.child_cancel = TRUE]
           gone == [h EXCEPT !.child_exit_seen = TRUE]
           done == [h EXCEPT !.close_confirmed = TRUE, !.grace = TRUE]
<1>1. h.state \notin {"PARTY", "LINK_PLAYER", "SAVE", "ENTRY_SEAT", "ENTRY_CARD", "SELECT", "CONFIRM", "ANIM"}
  BY DEF Late
<1>2. CASE slot.op = "idle"
  <2>1. g = h
    BY <1>1, <1>2 DEF feed_child_slot, feed_idle_slot
  <2> HIDE DEF g
  <2>2. LateOn(h, g)
    BY <2>1, MarkLate
  <2> QED
    BY <2>2 DEF g
<1>3. CASE slot.op = "standby"
  <2>1. slot.count \in Nat
    BY <1>3, SlotKinds DEF Slot, Idle
  <2>2. g = on_child_standby(h, slot.count)
    BY <1>1, <1>3 DEF feed_child_slot
  <2>3. g = e \/ g = cancelRound(e, slot.count)
    BY <1>1, <2>2 DEF on_child_standby
  <2>4. /\ Steady(h, e) /\ DOMAIN e = HostFields /\ e.state = h.state
    BY <2>1, EchoSteady DEF HostFields
  <2>5. LateOn(h, e)
    BY <2>4, LateSteady
  <2> HIDE DEF e, g
  <2>6. LateOn(e, cancelRound(e, slot.count))
    <3> DEFINE x == cancelRound(e, slot.count)
    <3>1. /\ DOMAIN x = HostFields /\ x.words = e.words /\ x.blocks = e.blocks /\ x.held = e.held
          /\ x.sender = e.sender /\ x.party = e.party /\ x.round = e.round
          /\ x.child_finish = e.child_finish /\ (x.state = e.state \/ x.state = "RETURN_FIELD")
      BY <2>4 DEF cancelRound, enter, HostFields
    <3>2. x.state \in Late
      BY <2>4, <3>1 DEF Late
    <3> HIDE DEF x
    <3>3. LateOn(e, x)
      BY <3>1, <3>2, MarkLate
    <3> QED
      BY <3>3 DEF x
  <2>7. LateOn(h, g)
    BY <2>3, <2>5, <2>6, LateTwice
  <2> QED
    BY <2>7 DEF g
<1>4. CASE slot.op = "close"
  <2>1. g = child_ready_close_link(h)
    BY <1>1, <1>4 DEF feed_child_slot
  <2>2. g = done \/ g = h
    BY <2>1 DEF child_ready_close_link
  <2>3. /\ DOMAIN done = HostFields /\ done.words = h.words /\ done.blocks = h.blocks
        /\ done.held = h.held /\ done.sender = h.sender /\ done.party = h.party
        /\ done.round = h.round /\ done.child_finish = h.child_finish /\ done.state = h.state
    BY DEF HostFields
  <2> HIDE DEF done, g
  <2>4. LateOn(h, g)
    BY <2>2, <2>3, MarkLate
  <2> QED
    BY <2>4 DEF g
<1>5. CASE slot.op = "key"
  <2>1. g = child_send_held_keys(h, slot.key)
    BY <1>1, <1>5 DEF feed_child_slot
  <2>2. \/ g = h
        \/ g = begin_room_exit(h, TRUE)
        \/ g = complete_room_exit(gone)
    BY <1>1, <2>1 DEF child_send_held_keys
  <2>3. /\ DOMAIN gone = HostFields /\ gone.words = h.words /\ gone.blocks = h.blocks
        /\ gone.held = h.held /\ gone.sender = h.sender /\ gone.party = h.party
        /\ gone.round = h.round /\ gone.child_finish = h.child_finish /\ gone.state = h.state
    BY DEF HostFields
  <2> HIDE DEF gone, g
  <2>4. LateOn(h, gone) /\ LateOn(h, h)
    BY <2>3, MarkLate
  <2>5. LateOn(gone, complete_room_exit(gone)) /\ LateOn(h, begin_room_exit(h, TRUE))
    BY <2>3, CloseLate, ExitLate
  <2>6. LateOn(h, g)
    BY <2>2, <2>4, <2>5, LateTwice
  <2> QED
    BY <2>6 DEF g
<1>6. CASE slot.op = "block"
  <2>1. g = on_child_block(h, slot)
    BY <1>1, <1>6 DEF feed_child_slot
  <2>2. \/ g = lp \/ g = cd \/ g = h
        \/ g = on_child_party(h, slot.mons)
        \/ g = enter_cancel_to_leave(asked) \/ g = asked
        \/ g = no
    BY <1>1, <2>1 DEF on_child_block, after_child_block, on_child_linkcmd, cancel_at_leave
  <2>3. LateOn(h, lp)
    <3>1. /\ DOMAIN lp = HostFields /\ lp.words = h.words
          /\ lp.blocks = Append(h.blocks, Block("link_player"))
          /\ lp.held = h.held /\ lp.sender = h.sender /\ lp.party = h.party
          /\ lp.round = h.round /\ lp.child_finish = h.child_finish /\ lp.state = h.state
      BY DEF HostFields, send
    <3>2. Block("link_player") \in LateBlock
      BY DEF LateBlock, PlainBlock
    <3> HIDE DEF lp, LateBlock
    <3> QED
      BY <3>1, <3>2, LateBy DEF Grows
  <2>4. LateOn(h, no)
    <3>1. /\ DOMAIN no = HostFields /\ no.words = h.words
          /\ no.blocks = Append(h.blocks, Block("PLAYER_CANCEL_TRADE"))
          /\ no.held = h.held /\ no.sender = h.sender /\ no.party = h.party
          /\ no.round = h.round /\ no.child_finish = h.child_finish /\ no.state = h.state
      BY DEF HostFields, send
    <3>2. Block("PLAYER_CANCEL_TRADE") \in LateBlock
      BY DEF LateBlock
    <3> HIDE DEF no, LateBlock
    <3> QED
      BY <3>1, <3>2, LateBy DEF Grows
  <2>5. LateOn(h, cd)
    <3>1. /\ DOMAIN cd = HostFields /\ cd.words = h.words /\ cd.blocks = h.blocks
          /\ cd.held = h.held /\ cd.sender = h.sender /\ cd.party = h.party
          /\ cd.round = h.round /\ cd.child_finish = h.child_finish /\ cd.state = h.state
      BY DEF HostFields
    <3> HIDE DEF cd
    <3> QED
      BY <3>1, MarkLate
  <2>6. LateOn(h, on_child_party(h, slot.mons))
    <3> DEFINE x == on_child_party(h, slot.mons)
    <3>1. /\ DOMAIN x = HostFields /\ x.words = h.words /\ x.blocks = h.blocks
          /\ x.held = h.held /\ x.sender = h.sender /\ x.party = h.party
          /\ x.round = h.round /\ x.child_finish = h.child_finish /\ x.state = h.state
      BY DEF HostFields, on_child_party
    <3> HIDE DEF x
    <3>2. LateOn(h, x)
      BY <3>1, MarkLate
    <3> QED
      BY <3>2 DEF x
  <2>7. LateOn(h, asked) /\ DOMAIN asked = HostFields
    <3>1. /\ DOMAIN asked = HostFields /\ asked.words = h.words /\ asked.blocks = h.blocks
          /\ asked.held = h.held /\ asked.sender = h.sender /\ asked.party = h.party
          /\ asked.round = h.round /\ asked.child_finish = h.child_finish /\ asked.state = h.state
      BY DEF HostFields
    <3> HIDE DEF asked
    <3> QED
      BY <3>1, MarkLate
  <2> HIDE DEF g, lp, cd, no, asked
  <2>8. LateOn(h, enter_cancel_to_leave(asked))
    BY <2>7, CancelLate, LateTwice
  <2>9. LateOn(h, h)
    BY MarkLate
  <2>10. LateOn(h, g)
    BY <2>2, <2>3, <2>4, <2>5, <2>6, <2>7, <2>8, <2>9
  <2> QED
    BY <2>10 DEF g
<1>7. slot.op \in {"idle", "standby", "close", "key", "block"}
  BY SlotKinds DEF Slot, Idle
<1> QED
  BY <1>2, <1>3, <1>4, <1>5, <1>6, <1>7

LEMMA TimersLate ==
    ASSUME NEW h, DOMAIN h = HostFields, h.state \in Late, NEW over, NEW again
    PROVE  LateOn(h, timers(h, over, again))
<1> DEFINE g == timers(h, over, again)
           ready == [h EXCEPT !.leave_wait = FALSE, !.host_cancel_ready = TRUE]
           waits == [h EXCEPT !.exit_wait = @ - 1]
           shut  == [h EXCEPT !.grace = @ /\ ~over, !.disconnect_requested = h.grace /\ over]
<1>1. \/ g = ready \/ g = enter_cancel_to_leave(ready)
      \/ g = begin_room_exit(h, FALSE) \/ g = waits
      \/ g = say(shut, times(Close, EchoFrames)) /\ h.state = "CLOSE"
      \/ g = shut \/ g = h
  BY DEF timers, leader_cancel_is_ready, Late
<1>2. LateOn(h, ready) /\ DOMAIN ready = HostFields
  <2>1. /\ DOMAIN ready = HostFields /\ ready.words = h.words /\ ready.blocks = h.blocks
        /\ ready.held = h.held /\ ready.sender = h.sender /\ ready.party = h.party
        /\ ready.round = h.round /\ ready.child_finish = h.child_finish /\ ready.state = h.state
    BY DEF HostFields
  <2> HIDE DEF ready
  <2> QED
    BY <2>1, MarkLate
<1>3. LateOn(h, waits)
  <2>1. /\ DOMAIN waits = HostFields /\ waits.words = h.words /\ waits.blocks = h.blocks
        /\ waits.held = h.held /\ waits.sender = h.sender /\ waits.party = h.party
        /\ waits.round = h.round /\ waits.child_finish = h.child_finish /\ waits.state = h.state
    BY DEF HostFields
  <2> HIDE DEF waits
  <2> QED
    BY <2>1, MarkLate
<1>4. LateOn(h, shut) /\ DOMAIN shut = HostFields /\ shut.state = h.state
  <2>1. /\ DOMAIN shut = HostFields /\ shut.words = h.words /\ shut.blocks = h.blocks
        /\ shut.held = h.held /\ shut.sender = h.sender /\ shut.party = h.party
        /\ shut.round = h.round /\ shut.child_finish = h.child_finish /\ shut.state = h.state
    BY DEF HostFields
  <2> HIDE DEF shut
  <2> QED
    BY <2>1, MarkLate
<1> HIDE DEF g, ready, waits, shut
<1>5. LateOn(shut, say(shut, times(Close, EchoFrames)))
  <2> DEFINE x == say(shut, times(Close, EchoFrames))
  <2>1. /\ DOMAIN x = HostFields /\ x.words = shut.words \o times(Close, EchoFrames)
        /\ x.blocks = shut.blocks /\ x.held = shut.held /\ x.sender = shut.sender
        /\ x.party = shut.party /\ x.round = shut.round /\ x.child_finish = shut.child_finish
        /\ x.state = shut.state
    BY <1>4 DEF HostFields, say
  <2>2. Close \in OtherWord /\ EchoFrames \in Nat
    BY TradeAssumption DEF OtherWord
  <2> HIDE DEF x, OtherWord
  <2>3. times(Close, EchoFrames) \in Seq(OtherWord)
    BY <2>2, TimesIs
  <2>4. Grows(shut.words, x.words, OtherWord) /\ Grows(shut.blocks, x.blocks, LateBlock)
        /\ x.state \in Late
    BY <1>4, <2>1, <2>3 DEF Grows
  <2>5. LateOn(shut, x)
    BY <2>1, <2>4, LateBy
  <2> QED
    BY <2>5 DEF x
<1>6. LateOn(h, enter_cancel_to_leave(ready)) /\ LateOn(h, say(shut, times(Close, EchoFrames)))
  BY <1>2, <1>4, <1>5, CancelLate, LateTwice
<1>7. LateOn(h, begin_room_exit(h, FALSE)) /\ LateOn(h, h)
  BY ExitLate, MarkLate
<1>8. LateOn(h, g)
  BY <1>1, <1>2, <1>3, <1>4, <1>6, <1>7
<1> QED
  BY <1>8 DEF g

-----------------------------------------------------------------------------
(* From one stage to the next, on a slot of the console.                   *)

\* A block is queued when none is on its way.
LEMMA DownQueue ==
    ASSUME NEW h, NEW g, NEW d, h.blocks \in Seq(HostBlock), NEW e \in TradeWord,
           g.sender = h.sender, g.blocks = Append(h.blocks, e), Down(h, d, {})
    PROVE  Down(g, d, {e})
<1>1. NoneOf(h, d, TradeWord) /\ e \in HostBlock
  <2>1. TradeWord \ {} = TradeWord
    OBVIOUS
  <2> QED
    BY <2>1, WordsApart DEF Down
<1>2. \A W : W \subseteq TradeWord => NoneOf(h, d, W)
  BY <1>1, FreeWithin DEF NoneOf, NoneIn
<1>3. e \notin TradeWord \ {e} /\ TradeWord \ {e} \subseteq TradeWord
  OBVIOUS
<1> HIDE DEF TradeWord, HostBlock
<1>4. OneOf(g, d, TradeWord)
  BY <1>1, LinkQueue DEF NoneOf, OneOf
<1>5. NoneOf(g, d, TradeWord \ {e})
  BY <1>1, <1>2, <1>3, LinkQueue DEF NoneOf
<1> QED
  BY <1>4, <1>5 DEF Down

\* What is queued with nothing else of a trade keeps the words of an end off.
LEMMA DownNone ==
    ASSUME NEW h, NEW d, NEW A, Down(h, d, A)
    PROVE  \A W : W \subseteq TradeWord /\ W \cap A = {} => NoneOf(h, d, W)
<1>1. \A W : W \subseteq TradeWord /\ W \cap A = {} => W \subseteq TradeWord \ A
  OBVIOUS
<1> HIDE DEF TradeWord
<1> QED
  BY <1>1, FreeWithin DEF Down, NoneOf, NoneIn

LEMMA PartyWords ==
    /\ \A p \in HostParty : Mons(p) \in TradeWord /\ Mons(p) \notin SwapWord
    /\ Block("PARTNER_CANCEL_TRADE") \in TradeWord /\ Block("PARTNER_CANCEL_TRADE") \notin SwapWord
    /\ Block("START_TRADE") \in TradeWord /\ Block("CONFIRM_FINISH_TRADE") \in TradeWord
    /\ SwapWord \subseteq TradeWord
<1>1. \A w \in SwapWord : w.cmd \in {"SET_MONS_TO_TRADE", "START_TRADE", "CONFIRM_FINISH_TRADE"}
  BY DEF SwapWord, Select, Block
<1>2. (\A p : Mons(p).cmd = "party") /\ \A cmd : Block(cmd).cmd = cmd
  BY DEF Mons, Block
<1> QED
  BY <1>1, <1>2 DEF TradeWord, SwapWord

\* begin_party_exchange.
LEMMA PartyStarts ==
    ASSUME NEW h, NEW c, NEW d, NEW u, IsHost(h), Apart(h, c, d, u),
           NEW g, g = begin_party_exchange(h)
    PROVE  IsHost(g) /\ Asking(g, c, d, u) /\ g.party = h.party /\ g.round = h.round
<1>1. DOMAIN h = HostFields
  BY DEF IsHost
<1>2. /\ DOMAIN g = HostFields /\ g.words = h.words \o <<Req("party")>>
      /\ g.blocks = Append(h.blocks, Mons(h.party)) /\ g.held = h.held /\ g.sender = h.sender
      /\ g.party = h.party /\ g.round = h.round /\ g.child_finish = h.child_finish
      /\ g.waiting_idle = h.waiting_idle /\ g.state = "PARTY"
      /\ g.disconnect_requested = h.disconnect_requested
  BY <1>1 DEF HostFields, begin_party_exchange, request_and_send, say, send, enter
<1>3. Mons(h.party) \in TradeWord /\ Mons(h.party) \in HostBlock
  BY WordsApart, PartyWords DEF IsHost
<1>4. h.words \in Seq(AnyWord) /\ h.blocks \in Seq(HostBlock) /\ Req("party") \in AnyWord
  BY DEF IsHost, AnyWord, PartyReq
<1> HIDE DEF AnyWord, TradeWord, HostBlock, PartyReq, OtherWord, Mons, Req
<1>5. /\ g.words \in Seq(AnyWord)
      /\ \A W : Free(h.words, W) => Single(g.words, W)
  <2>1. <<Req("party")>> \in Seq(AnyWord) /\ \A W : Single(<<Req("party")>>, W)
    BY <1>4, ShortSeqs
  <2> QED
    BY <1>2, <1>4, <2>1, FreeConcat
<1>6. g.blocks \in Seq(HostBlock)
  BY <1>2, <1>3, <1>4, AppendIs
<1>7. IsHost(g)
  <2>1. ~h.disconnect_requested /\ ~h.child_finish
    BY DEF IsHost, Apart, Early, Late
  <2> QED
    BY <1>2, <1>5, <1>6, <2>1 DEF IsHost, AnyWord
<1>8. Down(g, d, {Mons(g.party)})
  BY <1>2, <1>3, <1>4, DownQueue DEF Apart
<1>9. OneReq(g, d)
  BY <1>5, FreeIsSingle DEF Apart, NoReq, OneReq
<1> QED
  BY <1>2, <1>7, <1>8, <1>9 DEF Asking, Apart, Level

\* finish_party_exchange.
LEMMA PartyEnds ==
    ASSUME NEW h, NEW c, NEW d, NEW u, IsHost(h), Choosing(h, c, d, u),
           h.state = "PARTY", h.waiting_idle, NEW g, g = finish_party_exchange(h)
    PROVE  IsHost(g) /\ Stage(g, c, d, u) /\ g.party = h.party /\ g.round = h.round
<1>1. DOMAIN h = HostFields /\ Trades \in Nat
  BY TradeAssumption, LenProperties DEF IsHost, Trades
<1>2. /\ DOMAIN g = HostFields /\ g.words = h.words /\ g.blocks = h.blocks
      /\ g.held = h.held /\ g.sender = h.sender
      /\ g.party = h.party /\ g.round = h.round /\ g.child_finish = h.child_finish
      /\ g.child_party = h.child_party
      /\ g.waiting_idle = FALSE
      /\ g.disconnect_requested = h.disconnect_requested
      /\ \/ g.state = "LEAVE_MENU"
         \/ g.state = "SELECT" /\ ~(h.round >= Trades)
  BY <1>1 DEF HostFields, finish_party_exchange, enter
<1>3. IsHost(g)
  BY <1>2 DEF IsHost, Late
<1>4. \A W : (NoneOf(h, d, W) => NoneOf(g, d, W)) /\ (OneOf(h, d, W) => OneOf(g, d, W))
  BY <1>2 DEF NoneOf, OneOf
<1>5. /\ \A A : Down(h, d, A) => Down(g, d, A)
      /\ NoReq(h, d) => NoReq(g, d)
  BY <1>2, <1>4 DEF Down, NoReq
<1>6. CASE g.state = "LEAVE_MENU"
  <2>1. c.at \in {"partying", "menu", "asked", "cancelling"}
    BY DEF Choosing, AtMenu
  <2>2. NoneOf(h, d, SwapWord)
    <3>1. \A A : A \subseteq {Mons(h.party), Block("PARTNER_CANCEL_TRADE")} => SwapWord \cap A = {}
      BY PartyWords DEF IsHost
    <3>2. SwapWord \subseteq TradeWord
      BY PartyWords
    <3> HIDE DEF SwapWord, TradeWord
    <3> QED
      BY <3>1, <3>2, DownNone DEF Choosing, AtMenu
  <2> QED
    BY <1>2, <1>3, <1>4, <1>6, <2>1, <2>2 DEF Stage, Leaving, Late, InTrade, Choosing, Level
<1>7. CASE g.state = "SELECT"
  <2>1. g.round < Trades
    BY <1>1, <1>2, <1>7 DEF IsHost
  <2>2. AtMenu(g, c, d, u)
    BY <1>2, <1>5 DEF Choosing, AtMenu
  <2> QED
    BY <1>2, <1>3, <1>5, <1>7, <2>1, <2>2 DEF Stage, Choosing, Level
<1> QED
  BY <1>2, <1>6, <1>7, <1>3

LEMMA SeesIs ==
    ASSUME NEW h, DOMAIN h = HostFields, NEW mons,
           NEW g, g = on_child_party(h, mons) \/ g = h
    PROVE  /\ DOMAIN g = HostFields /\ g.words = h.words /\ g.blocks = h.blocks
           /\ g.held = h.held /\ g.sender = h.sender
           /\ g.party = h.party /\ g.round = h.round /\ g.child_finish = h.child_finish
           /\ g.state = h.state /\ g.disconnect_requested = h.disconnect_requested
           /\ g.waiting_idle => g.child_party = mons \/ h.waiting_idle
BY DEF HostFields, on_child_party

Confirming(h, cursor, w) ==
    send([enter(h, "CONFIRM") EXCEPT !.select_cancels = 0, !.child_cursor = cursor], w)

LEMMA ReadyIs ==
    ASSUME NEW h, DOMAIN h = HostFields, NEW cursor, NEW w, NEW g, g = Confirming(h, cursor, w)
    PROVE  /\ DOMAIN g = HostFields /\ g.words = h.words /\ g.blocks = Append(h.blocks, w)
           /\ g.held = h.held /\ g.sender = h.sender
           /\ g.party = h.party /\ g.round = h.round /\ g.child_finish = h.child_finish
           /\ g.child_party = h.child_party /\ g.child_cursor = cursor
           /\ g.waiting_idle = h.waiting_idle
           /\ g.state = "CONFIRM" /\ g.disconnect_requested = h.disconnect_requested
BY DEF HostFields, Confirming, send, enter

\* on_child_party: what the console has is what the host now sees.
LEMMA FeedParty ==
    ASSUME NEW h, NEW c, NEW d, NEW u \in Seq(Slot), u # << >>, IsHost(h),
           Choosing(h, c, d, u), Head(u) \in PartyReply,
           NEW g, g = feed_child_slot(h, Head(u))
    PROVE  IsHost(g) /\ Choosing(g, c, d, Tail(u)) /\ g.party = h.party /\ g.round = h.round
<1> DEFINE v == Tail(u)
           mons == Head(u).mons
<1>1. DOMAIN h = HostFields
  BY DEF IsHost
<1>2. Head(u).op = "block" /\ Head(u).cmd = "party" /\ Head(u) = Mons(mons)
  BY SlotKinds
<1>3. /\ \A W : Free(u, W) => Head(u) \notin W
      /\ \A A : Up(u, A) => Up(v, A)
      /\ \A W : Free(u, W) => Free(v, W)
      /\ \A W : Single(u, W) => Single(v, W)
      /\ \A W : Single(u, W) /\ Head(u) \in W => Free(v, W)
      /\ MoveLast(u) => MoveLast(v)
  BY UpTail, FreeTail
<1> HIDE DEF v, PartyReply
<1>4. ~NoParty(c, u) /\ NoParty(c, v) /\ Head(u) = Mons(c.party)
  BY <1>3 DEF NoParty, OneParty, Choosing
<1>5. h.state = "PARTY" /\ ~h.waiting_idle
  BY <1>4 DEF Choosing
<1>6. mons = c.party
  BY <1>2, <1>4 DEF Mons
<1> HIDE DEF mons
<1>7. g = Rest(h) \/ g = on_child_party(Rest(h), c.party)
  BY <1>2, <1>5, <1>6 DEF feed_child_slot, on_child_block, after_child_block, Rest, mons
<1>8. /\ DOMAIN g = HostFields /\ g.words = h.words /\ g.blocks = h.blocks
      /\ g.held = h.held /\ g.sender = h.sender
      /\ g.party = h.party /\ g.round = h.round /\ g.child_finish = h.child_finish
      /\ g.state = "PARTY" /\ g.disconnect_requested = h.disconnect_requested
      /\ g.waiting_idle => g.child_party = c.party
  <2>1. DOMAIN Rest(h) = HostFields /\ \A k \in HostFields \ {"quiet"} : Rest(h)[k] = h[k]
    BY <1>1, RestSteady
  <2>2. {"words", "blocks", "held", "sender", "party", "round", "child_finish", "state",
         "disconnect_requested", "waiting_idle"} \subseteq HostFields \ {"quiet"}
    BY DEF HostFields
  <2> HIDE DEF HostFields
  <2>3. /\ DOMAIN g = HostFields /\ g.words = Rest(h).words /\ g.blocks = Rest(h).blocks
        /\ g.held = Rest(h).held /\ g.sender = Rest(h).sender
        /\ g.party = Rest(h).party /\ g.round = Rest(h).round
        /\ g.child_finish = Rest(h).child_finish
        /\ g.state = Rest(h).state /\ g.disconnect_requested = Rest(h).disconnect_requested
        /\ g.waiting_idle => g.child_party = c.party \/ Rest(h).waiting_idle
    BY <1>7, <2>1, SeesIs
  <2> QED
    BY <1>5, <2>1, <2>2, <2>3
<1>9. IsHost(g)
  BY <1>5, <1>8 DEF IsHost
<1>10. \A W : (NoneOf(h, d, W) => NoneOf(g, d, W)) /\ (OneOf(h, d, W) => OneOf(g, d, W))
  BY <1>8 DEF NoneOf, OneOf
<1>11. /\ \A A : Down(h, d, A) => Down(g, d, A)
       /\ NoReq(h, d) => NoReq(g, d)
  BY <1>8, <1>10 DEF Down, NoReq
<1>12. AtMenu(g, c, d, v)
  BY <1>3, <1>8, <1>11 DEF Choosing, AtMenu
<1>13. OneParty(c, v)
  BY <1>3 DEF Choosing, OneParty
<1>14. Choosing(g, c, d, v)
  BY <1>3, <1>4, <1>8, <1>11, <1>12, <1>13 DEF Choosing, Level
<1> QED
  BY <1>8, <1>9, <1>14 DEF v

LEMMA OfferedIs ==
    ASSUME NEW n \in Nat, n < Trades
    PROVE  Offered[n + 1] \in DOMAIN HostMons
<1>1. Offered \in Seq(DOMAIN HostMons)
  BY TradeAssumption
<1>2. Trades \in Nat /\ n + 1 \in 1 .. Trades
  BY <1>1, LenProperties DEF Trades
<1> QED
  BY <1>1, <1>2, ElementOfSeq DEF Trades

\* READY_TO_TRADE while the host offers: both ends now mean the same Pokemon.
LEMMA FeedReady ==
    ASSUME NEW h, NEW c, NEW d, NEW u \in Seq(Slot), u # << >>, IsHost(h),
           Choosing(h, c, d, u), h.state = "SELECT", c.at = "asked",
           Head(u) = Select("READY_TO_TRADE", c.cursor),
           NEW g, g = feed_child_slot(h, Head(u))
    PROVE  IsHost(g) /\ Agreed(g, c, d, Tail(u)) /\ g.party = h.party /\ g.round = h.round
<1> DEFINE v == Tail(u)
           w == set_mons(h)
<1>1. DOMAIN h = HostFields /\ h.round \in Nat /\ h.round < Trades /\ ~h.waiting_idle
  BY DEF IsHost, Choosing
<1>2. Head(u).op = "block" /\ Head(u).cmd = "READY_TO_TRADE" /\ Head(u).cursor = c.cursor
  BY DEF Select
<1>3. c.cursor \in DOMAIN ChildMons /\ Down(h, d, {}) /\ c.view = h.party
  BY DEF Choosing, AtMenu
<1>4. Head(u) \in Move /\ Up(u, {Select("READY_TO_TRADE", c.cursor)})
  BY <1>3 DEF Move, Choosing, AtMenu
<1>5. Up(v, {}) /\ Free(v, Repeated) /\ NoParty(c, v)
  <2>1. MoveLast(u) /\ NoParty(c, u)
    BY DEF Choosing
  <2> HIDE DEF Move, Repeated
  <2> QED
    BY <1>4, <2>1, UpTail DEF NoParty
<1>6. g = Confirming(h, c.cursor, w)
  BY <1>2 DEF feed_child_slot, on_child_block, on_child_linkcmd, Confirming
<1>7. w \in TradeWord
  BY <1>1, OfferedIs DEF TradeWord, SwapWord, set_mons
<1> HIDE DEF w
<1>8. /\ DOMAIN g = HostFields /\ g.words = h.words /\ g.blocks = Append(h.blocks, w)
      /\ g.held = h.held /\ g.sender = h.sender
      /\ g.party = h.party /\ g.round = h.round /\ g.child_finish = h.child_finish
      /\ g.child_party = h.child_party /\ g.child_cursor = c.cursor
      /\ g.waiting_idle = h.waiting_idle
      /\ g.state = "CONFIRM" /\ g.disconnect_requested = h.disconnect_requested
  BY <1>1, <1>6, ReadyIs
<1>9. h.blocks \in Seq(HostBlock) /\ w \in HostBlock
  BY <1>7, WordsApart DEF IsHost
<1> HIDE DEF TradeWord, HostBlock, v
<1>10. IsHost(g)
  <2>1. g.blocks \in Seq(HostBlock)
    BY <1>8, <1>9, AppendIs
  <2>2. ~h.disconnect_requested /\ ~h.child_finish
    BY DEF IsHost, Late
  <2> QED
    BY <1>8, <2>1, <2>2 DEF IsHost
<1>11. Down(g, d, {w}) /\ w = set_mons(g)
  BY <1>3, <1>7, <1>8, <1>9, DownQueue DEF set_mons, w
<1>12. NoReq(g, d)
  BY <1>8 DEF Choosing, NoReq
<1>13. h.child_party = c.party /\ Level(h, c)
  BY DEF Choosing
<1>14. Agreed(g, c, d, v)
  BY <1>1, <1>3, <1>5, <1>8, <1>11, <1>12, <1>13 DEF Agreed, Answering, Level
<1> QED
  BY <1>8, <1>10, <1>14 DEF v

\* REQUEST_CANCEL while the host offers: a refusal, or the end.
LEMMA FeedCancel ==
    ASSUME NEW h, NEW c, NEW d, NEW u \in Seq(Slot), u # << >>, IsHost(h),
           Choosing(h, c, d, u), h.state = "SELECT", c.at = "cancelling",
           Head(u) = Block("REQUEST_CANCEL"), Down(h, d, {}), Up(u, {Block("REQUEST_CANCEL")}),
           NEW g, g = feed_child_slot(h, Head(u))
    PROVE  IsHost(g) /\ Stage(g, c, d, Tail(u)) /\ g.party = h.party /\ g.round = h.round
<1> DEFINE v == Tail(u)
           w == Block("PARTNER_CANCEL_TRADE")
           more == [h EXCEPT !.select_cancels = @ + 1]
           both == [more EXCEPT !.host_cancel_ready = TRUE, !.child_cancel = TRUE]
<1>1. DOMAIN h = HostFields
  BY DEF IsHost
<1>2. Head(u).op = "block" /\ Head(u).cmd = "REQUEST_CANCEL"
  BY DEF Block
<1>3. g = enter_cancel_to_leave(both) \/ g = send(more, w)
  BY <1>2 DEF feed_child_slot, on_child_block, on_child_linkcmd, cancel_at_select
<1>4. /\ DOMAIN both = HostFields /\ both.words = h.words /\ both.blocks = h.blocks
      /\ both.held = h.held /\ both.sender = h.sender /\ both.party = h.party
      /\ both.round = h.round /\ both.child_finish = h.child_finish
  BY <1>1 DEF HostFields
<1>5. LET x == send(more, w) IN
      /\ DOMAIN x = HostFields /\ x.words = h.words /\ x.blocks = Append(h.blocks, w)
      /\ x.held = h.held /\ x.sender = h.sender
      /\ x.party = h.party /\ x.round = h.round /\ x.child_finish = h.child_finish
      /\ x.child_party = h.child_party /\ x.child_cursor = h.child_cursor
      /\ x.waiting_idle = h.waiting_idle
      /\ x.state = h.state /\ x.disconnect_requested = h.disconnect_requested
  BY <1>1 DEF HostFields, send
<1>6. Head(u) \in Move
  BY DEF Move
<1>7. Up(v, {}) /\ MoveLast(v) /\ NoParty(c, v)
  <2>1. MoveLast(u) /\ NoParty(c, u)
    BY DEF Choosing
  <2> HIDE DEF Move
  <2> QED
    BY <1>6, <2>1, UpTail DEF NoParty
<1>8. w \in TradeWord /\ w \in HostBlock /\ h.blocks \in Seq(HostBlock)
  BY WordsApart, PartyWords DEF IsHost
<1>9. CASE g = send(more, w)
  <2>1. /\ DOMAIN g = HostFields /\ g.words = h.words /\ g.blocks = Append(h.blocks, w)
        /\ g.held = h.held /\ g.sender = h.sender
        /\ g.party = h.party /\ g.round = h.round /\ g.child_finish = h.child_finish
        /\ g.child_party = h.child_party /\ g.child_cursor = h.child_cursor
        /\ g.waiting_idle = h.waiting_idle
        /\ g.state = h.state /\ g.disconnect_requested = h.disconnect_requested
    BY <1>5, <1>9
  <2> HIDE DEF TradeWord, HostBlock, v
  <2>2. IsHost(g)
    <3>1. g.blocks \in Seq(HostBlock)
      BY <1>8, <2>1, AppendIs
    <3> QED
      BY <2>1, <3>1 DEF IsHost
  <2>3. Down(g, d, {w})
    BY <1>8, <2>1, DownQueue
  <2>4. NoReq(g, d) /\ OneParty(c, v)
    BY <1>7, <2>1, FreeWithin, FreeIsSingle DEF Choosing, NoReq, OneParty, NoParty
  <2>5. c.view = h.party
    BY DEF Choosing, AtMenu
  <2>6. Choosing(g, c, d, v)
    BY <1>7, <2>1, <2>3, <2>4, <2>5 DEF Choosing, AtMenu, Level
  <2> QED
    BY <2>1, <2>2, <2>6 DEF Stage, v
<1>10. CASE g = enter_cancel_to_leave(both)
  <2> HIDE DEF both
  <2>1. LateOn(both, g)
    BY <1>4, <1>10, CancelLate
  <2>2. LateOn(h, g)
    BY <1>4, <2>1 DEF LateOn
  <2>3. IsHost(g) /\ \A e : NoneOf(h, e, SwapWord) => NoneOf(g, e, SwapWord)
    BY <2>2, LateHost
  <2>4. NoneOf(h, d, SwapWord)
    <3>1. SwapWord \subseteq TradeWord /\ SwapWord \cap {} = {}
      BY PartyWords
    <3> HIDE DEF SwapWord, TradeWord
    <3> QED
      BY <3>1, DownNone
  <2>5. Leaving(g, c, d, v)
    BY <2>2, <2>3, <2>4 DEF Leaving, LateOn, InTrade, Choosing, Level
  <2> QED
    BY <2>2, <2>3, <2>5 DEF Stage, LateOn, v
<1> QED
  BY <1>3, <1>9, <1>10

Starting(h) == send(enter(h, "ANIM"), Block("START_TRADE"))

LEMMA StartIs ==
    ASSUME NEW h, DOMAIN h = HostFields, NEW g, g = Starting(h)
    PROVE  /\ DOMAIN g = HostFields /\ g.words = h.words
           /\ g.blocks = Append(h.blocks, Block("START_TRADE"))
           /\ g.held = h.held /\ g.sender = h.sender
           /\ g.party = h.party /\ g.round = h.round /\ g.child_finish = h.child_finish
           /\ g.child_party = h.child_party /\ g.child_cursor = h.child_cursor
           /\ g.waiting_idle = h.waiting_idle
           /\ g.state = "ANIM" /\ g.disconnect_requested = h.disconnect_requested
BY DEF HostFields, Starting, send, enter

\* INIT_BLOCK at the confirm prompt: the trade starts.
LEMMA FeedInit ==
    ASSUME NEW h, NEW c, NEW d, NEW u \in Seq(Slot), u # << >>, IsHost(h),
           Agreed(h, c, d, u), h.state = "CONFIRM", c.at = "started",
           Head(u) = Block("INIT_BLOCK"),
           NEW g, g = feed_child_slot(h, Head(u))
    PROVE  IsHost(g) /\ Agreed(g, c, d, Tail(u)) /\ g.party = h.party /\ g.round = h.round
<1> DEFINE v == Tail(u)
           w == Block("START_TRADE")
<1>1. DOMAIN h = HostFields
  BY DEF IsHost
<1>2. Head(u).op = "block" /\ Head(u).cmd = "INIT_BLOCK" /\ Head(u) \in Move
  <2>1. Head(u) \in Move
    BY DEF Move
  <2> QED
    BY <2>1 DEF Block
<1>3. Down(h, d, {}) /\ Up(u, {Block("INIT_BLOCK")})
  BY DEF Agreed, Answering
<1>4. Up(v, {}) /\ Free(v, Repeated) /\ NoParty(c, v)
  <2>1. Free(u, Repeated) /\ NoParty(c, u)
    BY DEF Agreed
  <2> HIDE DEF Move, Repeated
  <2> QED
    BY <1>2, <1>3, <2>1, UpTail DEF NoParty
<1>5. g = Starting(h)
  BY <1>2 DEF feed_child_slot, on_child_block, on_child_linkcmd, Starting
<1>6. /\ DOMAIN g = HostFields /\ g.words = h.words /\ g.blocks = Append(h.blocks, w)
      /\ g.held = h.held /\ g.sender = h.sender
      /\ g.party = h.party /\ g.round = h.round /\ g.child_finish = h.child_finish
      /\ g.child_party = h.child_party /\ g.child_cursor = h.child_cursor
      /\ g.waiting_idle = h.waiting_idle
      /\ g.state = "ANIM" /\ g.disconnect_requested = h.disconnect_requested
  BY <1>1, <1>5, StartIs
<1>7. w \in TradeWord /\ w \in HostBlock /\ h.blocks \in Seq(HostBlock)
  BY WordsApart, PartyWords DEF IsHost
<1>8. ~h.child_finish /\ ~h.disconnect_requested
  BY DEF IsHost, Late
<1> HIDE DEF TradeWord, HostBlock, v
<1>9. g.blocks \in Seq(HostBlock)
  BY <1>6, <1>7, AppendIs
<1>10. IsHost(g)
  BY <1>6, <1>8, <1>9 DEF IsHost
<1>11. Down(g, d, {w})
  BY <1>3, <1>6, <1>7, DownQueue
<1>12. NoReq(g, d)
  BY <1>6 DEF Agreed, NoReq
<1>13. Agreed(g, c, d, v)
  BY <1>4, <1>6, <1>8, <1>11, <1>12 DEF Agreed, Watching, Level
<1> QED
  BY <1>6, <1>10, <1>13 DEF v

\* READY_FINISH_TRADE: the console has seen the animation.
LEMMA FeedFinish ==
    ASSUME NEW h, NEW c, NEW d, NEW u \in Seq(Slot), u # << >>, IsHost(h),
           Agreed(h, c, d, u), h.state = "ANIM", c.at = "finishing",
           Head(u) = Block("READY_FINISH_TRADE"), Up(u, {Block("READY_FINISH_TRADE")}),
           NEW g, g = feed_child_slot(h, Head(u))
    PROVE  IsHost(g) /\ Agreed(g, c, d, Tail(u)) /\ g.party = h.party /\ g.round = h.round
<1> DEFINE v == Tail(u)
<1>1. DOMAIN h = HostFields
  BY DEF IsHost
<1>2. Head(u).op = "block" /\ Head(u).cmd = "READY_FINISH_TRADE" /\ Head(u) \in Move
  <2>1. Head(u) \in Move
    BY DEF Move
  <2> QED
    BY <2>1 DEF Block
<1>3. Up(v, {}) /\ Free(v, Repeated) /\ NoParty(c, v)
  <2>1. Free(u, Repeated) /\ NoParty(c, u)
    BY DEF Agreed
  <2> HIDE DEF Move, Repeated
  <2> QED
    BY <1>2, <2>1, UpTail DEF NoParty
<1>4. g = [h EXCEPT !.child_finish = TRUE]
  BY <1>2 DEF feed_child_slot, on_child_block, on_child_linkcmd
<1>5. /\ DOMAIN g = HostFields /\ g.words = h.words /\ g.blocks = h.blocks
      /\ g.held = h.held /\ g.sender = h.sender
      /\ g.party = h.party /\ g.round = h.round /\ g.child_finish = TRUE
      /\ g.child_party = h.child_party /\ g.child_cursor = h.child_cursor
      /\ g.waiting_idle = h.waiting_idle
      /\ g.state = "ANIM" /\ g.disconnect_requested = h.disconnect_requested
  BY <1>1, <1>4 DEF HostFields
<1>6. IsHost(g)
  BY <1>5 DEF IsHost
<1>7. Down(h, d, {}) /\ (Down(h, d, {}) => Down(g, d, {})) /\ NoReq(g, d)
  BY <1>5 DEF Agreed, Watching, Down, NoneOf, OneOf, NoReq
<1> HIDE DEF v
<1>8. Agreed(g, c, d, v)
  BY <1>3, <1>5, <1>7 DEF Agreed, Watching, Level
<1> QED
  BY <1>5, <1>6, <1>8 DEF v

LEMMA CalmKeeps ==
    ASSUME NEW h, NEW c, NEW d, NEW v, IsHost(h), Stage(h, c, d, v),
           NEW g, Steady(h, g), g.state = h.state,
           h.state = "SAVE" /\ ~h.final_seen => ~g.final_seen
    PROVE  IsHost(g) /\ Stage(g, c, d, v) /\ g.party = h.party /\ g.round = h.round
<1>1. IsHost(g) /\ Flows(h, d, g, d)
  BY SteadyHost, SteadyFlows
<1>2. Alike(h, g)
  BY DEF Steady
<1> QED
  BY <1>1, <1>2, StageKept DEF Alike

LEMMA LateLeaves ==
    ASSUME NEW h, NEW c, NEW d, NEW u, Stage(h, c, d, u)
    PROVE  h.state \in Late <=> Leaving(h, c, d, u)
BY DEF Stage, Apart, Asking, Choosing, Agreed, Owing, Leaving, Early, Late

\* A move of the console.
LEMMA FeedMove ==
    ASSUME NEW h, NEW c, NEW d, NEW u \in Seq(Slot), u # << >>, IsHost(h),
           Stage(h, c, d, u), h.state \notin Late, Head(u) \in Move,
           NEW g, g = feed_child_slot(h, Head(u))
    PROVE  IsHost(g) /\ Stage(g, c, d, Tail(u)) /\ g.party = h.party /\ g.round = h.round
<1>1. DOMAIN h = HostFields
  BY DEF IsHost
<1>2. \A A : Up(u, A) => Head(u) \in A
  BY UpTail
<1>3. Choosing(h, c, d, u) \/ Agreed(h, c, d, u)
  BY <1>2, LateLeaves DEF Stage, Apart, Asking, Owing
<1>4. /\ Head(u).op = "block"
      /\ Head(u).cmd \in {"READY_TO_TRADE", "REQUEST_CANCEL", "INIT_BLOCK", "READY_CANCEL_TRADE",
                          "READY_FINISH_TRADE"}
  BY SlotKinds
<1>5. Stage(h, c, d, Tail(u))
  BY StageLanded
<1>6. ASSUME g = h \/ g = Rest(h)
      PROVE  IsHost(g) /\ Stage(g, c, d, Tail(u)) /\ g.party = h.party /\ g.round = h.round
  <2>1. Steady(h, g) /\ g.state = h.state /\ g.final_seen = h.final_seen
    BY <1>1, <1>6, RestSteady, SteadySame DEF HostFields
  <2> QED
    BY <1>5, <2>1, CalmKeeps
<1>7. CASE Choosing(h, c, d, u) /\ h.state = "PARTY"
  <2>1. g = Rest(h)
    BY <1>4, <1>7 DEF feed_child_slot, on_child_block, on_child_linkcmd, Rest
  <2> QED
    BY <1>6, <2>1
<1>8. CASE Choosing(h, c, d, u) /\ h.state = "SELECT"
  <2>1. \/ c.at = "asked" /\ Head(u) = Select("READY_TO_TRADE", c.cursor)
        \/ /\ c.at = "cancelling" /\ Head(u) = Block("REQUEST_CANCEL")
           /\ Down(h, d, {}) /\ Up(u, {Block("REQUEST_CANCEL")})
    BY <1>2, <1>8 DEF Choosing, AtMenu
  <2>2. CASE c.at = "asked" /\ Head(u) = Select("READY_TO_TRADE", c.cursor)
    BY <1>8, <2>2, FeedReady DEF Stage
  <2>3. CASE /\ c.at = "cancelling" /\ Head(u) = Block("REQUEST_CANCEL")
             /\ Down(h, d, {}) /\ Up(u, {Block("REQUEST_CANCEL")})
    BY <1>8, <2>3, FeedCancel
  <2> QED
    BY <2>1, <2>2, <2>3
<1>9. CASE Agreed(h, c, d, u)
  <2>1. \/ h.state = "CONFIRM" /\ c.at = "started" /\ Head(u) = Block("INIT_BLOCK")
        \/ h.state = "CONFIRM" /\ c.at = "declined" /\ Head(u) = Block("READY_CANCEL_TRADE")
        \/ /\ h.state = "ANIM" /\ c.at = "finishing" /\ Head(u) = Block("READY_FINISH_TRADE")
           /\ Up(u, {Block("READY_FINISH_TRADE")})
    BY <1>2, <1>9 DEF Agreed, Answering, Watching
  <2>2. CASE h.state = "CONFIRM" /\ c.at = "started" /\ Head(u) = Block("INIT_BLOCK")
    BY <1>9, <2>2, FeedInit DEF Stage
  <2>3. CASE h.state = "CONFIRM" /\ c.at = "declined" /\ Head(u) = Block("READY_CANCEL_TRADE")
    <3>1. Head(u).cmd = "READY_CANCEL_TRADE"
      BY <2>3 DEF Block
    <3>2. g = h
      BY <1>4, <2>3, <3>1 DEF feed_child_slot, on_child_block, on_child_linkcmd
    <3> QED
      BY <1>6, <3>2
  <2>4. CASE /\ h.state = "ANIM" /\ c.at = "finishing" /\ Head(u) = Block("READY_FINISH_TRADE")
             /\ Up(u, {Block("READY_FINISH_TRADE")})
    BY <1>9, <2>4, FeedFinish DEF Stage
  <2> QED
    BY <2>1, <2>2, <2>3, <2>4
<1> QED
  BY <1>3, <1>7, <1>8, <1>9 DEF Choosing

\* feed_child_slot keeps the stages, and trades nothing.
LEMMA FeedStep ==
    ASSUME NEW h, NEW c, NEW d, NEW u, InvOf(h, c, d, u), u # << >>,
           NEW g, g = feed_child_slot(h, Head(u))
    PROVE  InvOf(g, c, d, Tail(u)) /\ g.party = h.party /\ g.round = h.round
<1> DEFINE v == Tail(u)
           slot == Head(u)
<1>1. /\ IsHost(h) /\ IsConsole(c) /\ d \in Seq(HostWord) /\ u \in Seq(Slot) /\ Stage(h, c, d, u)
      /\ DOMAIN h = HostFields
  BY DEF InvOf, IsHost
<1>2. v \in Seq(Slot) /\ slot \in Slot
  BY <1>1, TailIs
<1>3. Stage(h, c, d, v)
  BY <1>1, StageLanded
<1>4. SUFFICES IsHost(g) /\ Stage(g, c, d, v) /\ g.party = h.party /\ g.round = h.round
  BY <1>1, <1>2 DEF InvOf
<1>5. CASE h.state \in Late
  <2>1. Leaving(h, c, d, v) /\ h.state # "ANIM"
    BY <1>3, <1>5, LateLeaves DEF Late
  <2>2. LateOn(h, g)
    BY <1>1, <1>2, <1>5, FeedLate
  <2>3. IsHost(g) /\ \A e : NoneOf(h, e, SwapWord) => NoneOf(g, e, SwapWord)
    BY <1>1, <2>1, <2>2, LateHost
  <2>4. Leaving(g, c, d, v)
    BY <2>1, <2>2, <2>3 DEF Leaving, LateOn, Level
  <2> QED
    BY <2>2, <2>3, <2>4 DEF Stage, LateOn
<1>6. CASE h.state \notin Late /\ slot \in Move
  BY <1>1, <1>6, FeedMove
<1>7. CASE h.state \notin Late /\ slot \in PartyReply
  <2>1. ~NoParty(c, u)
    BY <1>1, <1>7, FreeTail DEF NoParty
  <2>2. Choosing(h, c, d, u)
    BY <1>1, <1>7, <2>1, LateLeaves DEF Stage, Apart, Asking, Agreed, Owing
  <2> QED
    BY <1>1, <1>7, <2>2, FeedParty DEF Stage
<1>8. CASE h.state \notin Late /\ slot \in {Idle} \cup Repeated \cup OtherReply
  <2>1. CASE Calm(h, g, slot)
    <3>1. Steady(h, g)
      BY <2>1 DEF Calm
    <3>2. IsHost(g) /\ Flows(h, d, g, d) /\ Alike(h, g)
      BY <1>1, <2>1, <3>1, SteadyHost, SteadyFlows DEF Calm, Steady
    <3>3. CASE Apart(h, c, d, v)
      <4>1. g.state \in Early
        BY <2>1, <3>3 DEF Calm, Apart
      <4>2. Apart(g, c, d, v)
        BY <3>2, <3>3, <4>1, FlowsDown DEF Apart, Alike, Level
      <4> QED
        BY <3>2, <4>2 DEF Stage, Alike
    <3>4. CASE ~Apart(h, c, d, v)
      <4>1. h.state \in Early => Owing(h, c, d, v) /\ h.state = "SAVE" /\ ~h.final_seen
        BY <1>3, <3>4 DEF Stage, Asking, Choosing, Agreed, Owing, Leaving, Early, Late
      <4>2. h.state \in Early => slot \notin Repeated
        <5>1. ASSUME h.state \in Early
              PROVE  Free(u, Repeated)
          <6>1. ~Apart(h, c, d, u)
            <7>1. ASSUME Apart(h, c, d, u) PROVE Level(h, c) /\ ~(h.round = c.round + 1)
              BY <7>1, <1>1 DEF Apart, Level, InvOf, IsHost, IsConsole
            <7> QED
              BY <4>1, <5>1, <7>1 DEF Owing
          <6>2. Owing(h, c, d, u)
            BY <1>1, <5>1, <6>1 DEF Stage, Asking, Choosing, Agreed, Leaving, Early, Late
          <6> QED
            BY <6>2 DEF Owing
        <5> QED
          BY <1>1, <5>1, FreeTail
      <4>3. g.state = h.state /\ (h.state = "SAVE" /\ ~h.final_seen => ~g.final_seen)
        BY <2>1, <4>1, <4>2 DEF Calm, Early
      <4> QED
        BY <1>1, <1>3, <3>1, <4>3, CalmKeeps
    <3> QED
      BY <3>3, <3>4
  <2>2. CASE /\ g = begin_party_exchange(h) /\ h.state \in Early /\ (h.state = "SAVE" => h.final_seen)
    <3>1. Apart(h, c, d, v)
      BY <1>3, <2>2 DEF Stage, Asking, Choosing, Agreed, Owing, Leaving, Early, Late
    <3> QED
      BY <1>1, <2>2, <3>1, PartyStarts DEF Stage
  <2>3. CASE g = finish_party_exchange(h) /\ h.state = "PARTY" /\ h.waiting_idle
    <3>1. Choosing(h, c, d, v)
      BY <1>3, <2>3 DEF Stage, Apart, Asking, Choosing, Agreed, Owing, Leaving, Early, Late
    <3> QED
      BY <1>1, <2>3, <3>1, PartyEnds
  <2> HIDE DEF v, slot, OtherReply, Repeated
  <2>4. \/ Calm(h, g, slot)
        \/ g = begin_party_exchange(h) /\ h.state \in Early /\ (h.state = "SAVE" => h.final_seen)
        \/ g = finish_party_exchange(h) /\ h.state = "PARTY" /\ h.waiting_idle
    <3>1. g = feed_child_slot(h, slot)
      BY DEF slot
    <3> QED
      BY <1>1, <1>8, <3>1, FeedIdle, FeedStandby, FeedOther
  <2> QED
    BY <2>1, <2>2, <2>3, <2>4
<1> QED
  BY <1>2, <1>5, <1>6, <1>7, <1>8 DEF Slot

-----------------------------------------------------------------------------
(* tick: the timers.                                                       *)

\* The two commits of a trade are over the same places.
Commits(h, c, g) ==
    /\ h.round = c.round /\ g.round = h.round + 1
    /\ c.offer \in DOMAIN HostMons /\ c.cursor \in DOMAIN ChildMons
    /\ c.view[c.offer] = h.party[c.offer]
    /\ g.party = [h.party EXCEPT ![c.offer] = c.party[c.cursor]]

Traded(h) == [h.party EXCEPT ![Offered[h.round + 1]] = h.child_party[h.child_cursor]]

LEMMA CommitIs ==
    ASSUME NEW h, DOMAIN h = HostFields, NEW g, g = commit(h)
    PROVE  /\ DOMAIN g = HostFields /\ g.words = h.words
           /\ g.blocks = Append(h.blocks, Block("CONFIRM_FINISH_TRADE"))
           /\ g.held = h.held /\ g.sender = h.sender
           /\ g.party = Traded(h)
           /\ g.round = h.round + 1 /\ g.child_finish = FALSE
           /\ g.waiting_idle = h.waiting_idle /\ g.final_seen = FALSE
           /\ g.state = "SAVE" /\ g.disconnect_requested = h.disconnect_requested
BY DEF HostFields, commit, send, enter, Traded

LEMMA MonsAre ==
    /\ \A p \in HostParty, i \in DOMAIN HostMons : p[i] \in Mon
    /\ \A q \in ChildParty, j \in DOMAIN ChildMons : q[j] \in Mon
    /\ \A p \in HostParty, i \in DOMAIN HostMons, m \in Mon : [p EXCEPT ![i] = m] \in HostParty
    /\ \A q \in ChildParty, j \in DOMAIN ChildMons, m \in Mon : [q EXCEPT ![j] = m] \in ChildParty
<1> HIDE DEF Mon
<1> QED
  BY DEF HostParty, ChildParty

LEMMA CommitStep ==
    ASSUME NEW h, NEW c, NEW d, NEW u, IsHost(h), IsConsole(c), Agreed(h, c, d, u),
           h.state = "ANIM", h.child_finish, NEW g, g = commit(h)
    PROVE  IsHost(g) /\ Owing(g, c, d, u) /\ Commits(h, c, g)
<1> DEFINE w == Block("CONFIRM_FINISH_TRADE")
           a == Offered[h.round + 1]
<1>1. DOMAIN h = HostFields /\ h.round \in Nat
  BY DEF IsHost
<1>2. /\ c.at = "finishing" /\ Down(h, d, {}) /\ Up(u, {})
      /\ c.offer = a /\ h.child_party = c.party /\ h.child_cursor = c.cursor
      /\ c.view = h.party /\ c.cursor \in DOMAIN ChildMons
      /\ h.round < Trades /\ h.round = c.round
  BY DEF Agreed, Watching, Level
<1> HIDE DEF w, a
<1>3. /\ DOMAIN g = HostFields /\ g.words = h.words /\ g.blocks = Append(h.blocks, w)
      /\ g.held = h.held /\ g.sender = h.sender
      /\ g.party = Traded(h)
      /\ g.round = h.round + 1 /\ g.child_finish = FALSE
      /\ g.waiting_idle = h.waiting_idle /\ g.final_seen = FALSE
      /\ g.state = "SAVE" /\ g.disconnect_requested = h.disconnect_requested
  BY <1>1, CommitIs DEF w
<1>4. a \in DOMAIN HostMons /\ Traded(h) = [h.party EXCEPT ![a] = c.party[c.cursor]]
  BY <1>1, <1>2, OfferedIs DEF a, Traded
<1>5. /\ h.party \in HostParty /\ c.party \in ChildParty
      /\ g.party \in HostParty
  <2>1. h.party \in HostParty /\ c.party \in ChildParty
    BY DEF IsHost, IsConsole
  <2> HIDE DEF HostParty, ChildParty, a
  <2> QED
    BY <1>2, <1>3, <1>4, <2>1, MonsAre
<1>6. w \in TradeWord /\ w \in HostBlock /\ h.blocks \in Seq(HostBlock)
  BY WordsApart, PartyWords DEF IsHost, w
<1> HIDE DEF TradeWord, HostBlock
<1>7. g.blocks \in Seq(HostBlock) /\ Down(g, d, {w})
  <2>1. g.blocks \in Seq(HostBlock)
    BY <1>3, <1>6, AppendIs
  <2>2. Down(g, d, {w})
    BY <1>2, <1>3, <1>6, DownQueue
  <2> QED
    BY <2>1, <2>2
<1>8. IsHost(g)
  <2>1. ~h.disconnect_requested /\ h.round + 1 \in Nat
    BY <1>1 DEF IsHost, Late
  <2> QED
    BY <1>3, <1>5, <1>7, <2>1 DEF IsHost
<1>9. NoReq(g, d) /\ NoParty(c, u) /\ Free(u, Repeated) /\ ~g.waiting_idle
  BY <1>3 DEF Agreed, NoReq
<1>10. Owing(g, c, d, u)
  BY <1>2, <1>3, <1>4, <1>5, <1>7, <1>9 DEF Owing, w
<1>11. Commits(h, c, g)
  BY <1>2, <1>3, <1>4 DEF Commits
<1> QED
  BY <1>8, <1>10, <1>11

LEMMA TimersStep ==
    ASSUME NEW h, NEW c, NEW d, NEW u, IsHost(h), IsConsole(c), Stage(h, c, d, u),
           NEW over, NEW again, NEW g, g = timers(h, over, again)
    PROVE  /\ IsHost(g) /\ Stage(g, c, d, u)
           /\ (g.party = h.party /\ g.round = h.round) \/ Commits(h, c, g)
<1>1. DOMAIN h = HostFields
  BY DEF IsHost
<1>2. CASE h.state \in Late
  <2>1. Leaving(h, c, d, u) /\ h.state # "ANIM"
    BY <1>2, LateLeaves DEF Late
  <2>2. LateOn(h, g)
    BY <1>1, <1>2, TimersLate
  <2>3. IsHost(g) /\ \A e : NoneOf(h, e, SwapWord) => NoneOf(g, e, SwapWord)
    BY <2>1, <2>2, LateHost
  <2>4. Leaving(g, c, d, u)
    BY <2>1, <2>2, <2>3 DEF Leaving, LateOn, Level
  <2> QED
    BY <2>2, <2>3, <2>4 DEF Stage, LateOn
<1>3. CASE h.state \notin Late
  <2>1. g = h \/ (g = commit(h) /\ h.state = "ANIM" /\ h.child_finish)
    BY <1>3 DEF timers, Late
  <2>2. CASE g = commit(h) /\ h.state = "ANIM" /\ h.child_finish
    <3>1. Agreed(h, c, d, u)
      BY <2>2 DEF Stage, Apart, Asking, Choosing, Owing, Leaving, Early, Late
    <3> QED
      BY <2>2, <3>1, CommitStep DEF Stage
  <2> QED
    BY <2>1, <2>2
<1> QED
  BY <1>2, <1>3

-----------------------------------------------------------------------------
(* tick: the frame.                                                        *)

\* A word that is no block of a trade goes on the link.
LEMMA FlowsOther ==
    ASSUME NEW h, NEW d \in Seq(HostWord), NEW g, NEW e \in HostWord, e \notin TradeWord, e \notin PartyReq,
           g.sender = h.sender, g.blocks = h.blocks,
           Free(h.words, PartyReq) => Free(g.words, PartyReq),
           Single(h.words, PartyReq) => Single(g.words, PartyReq)
    PROVE  Flows(h, d, g, Append(d, e))
<1> HIDE DEF HostWord, TradeWord, PartyReq
<1>1. \A W : W \subseteq TradeWord => e \notin W
  OBVIOUS
<1>2. \A W : W \subseteq TradeWord => (NoneOf(h, d, W) => NoneOf(g, Append(d, e), W))
                                      /\ (OneOf(h, d, W) => OneOf(g, Append(d, e), W))
  BY <1>1, LinkAdd DEF NoneOf, OneOf
<1>3. /\ Free(d, PartyReq) => Free(Append(d, e), PartyReq)
      /\ Single(d, PartyReq) => Single(Append(d, e), PartyReq)
  BY FreeAppend
<1> QED
  BY <1>2, <1>3 DEF Flows, NoReq, OneReq

\* The next word.
LEMMA FlowsWord ==
    ASSUME NEW h, NEW d \in Seq(HostWord), NEW g, h.words \in Seq(AnyWord), h.words # << >>,
           g.sender = h.sender, g.blocks = h.blocks, g.words = Tail(h.words)
    PROVE  Flows(h, d, g, Append(d, Head(h.words)))
<1> DEFINE e == Head(h.words)
<1>1. e \in AnyWord /\ e \in HostWord
  BY TailIs, WordsApart
<1>2. \A W : W \subseteq TradeWord => e \notin W
  BY <1>1, WordsApart
<1> HIDE DEF HostWord, TradeWord, PartyReq, AnyWord
<1>3. /\ Free(h.words, PartyReq) => Free(g.words, PartyReq) /\ e \notin PartyReq
      /\ Single(h.words, PartyReq) => Single(g.words, PartyReq)
      /\ Single(h.words, PartyReq) /\ e \in PartyReq => Free(g.words, PartyReq)
  BY FreeTail
<1> HIDE DEF e
<1>4. \A W : W \subseteq TradeWord => (NoneOf(h, d, W) => NoneOf(g, Append(d, e), W))
                                      /\ (OneOf(h, d, W) => OneOf(g, Append(d, e), W))
  BY <1>1, <1>2, LinkAdd DEF NoneOf, OneOf
<1>5. /\ Free(d, PartyReq) /\ e \notin PartyReq => Free(Append(d, e), PartyReq)
      /\ Single(d, PartyReq) /\ e \notin PartyReq => Single(Append(d, e), PartyReq)
      /\ Free(d, PartyReq) => Single(Append(d, e), PartyReq)
  BY <1>1, FreeAppend
<1>6. NoReq(h, d) => NoReq(g, Append(d, e))
  BY <1>3, <1>5 DEF NoReq
<1>7. OneReq(h, d) => OneReq(g, Append(d, e))
  BY <1>3, <1>5, FreeIsSingle DEF OneReq
<1>8. Flows(h, d, g, Append(d, e))
  BY <1>4, <1>6, <1>7 DEF Flows
<1> QED
  BY <1>8 DEF e

\* A block starts, goes on or ends.
LEMMA FlowsBlock ==
    ASSUME NEW h, IsHost(h), NEW d \in Seq(HostWord), NEW g, NEW e \in Seq(HostWord), g.words = h.words,
           \/ g.sender = h.sender /\ g.blocks = h.blocks /\ e = Append(d, Idle)
           \/ /\ h.sender # << >> /\ g.sender = << >> /\ g.blocks = h.blocks
              /\ e = Append(d, Head(h.sender))
           \/ /\ h.sender = << >> /\ h.blocks # << >> /\ g.sender = <<Head(h.blocks)>>
              /\ g.blocks = Tail(h.blocks) /\ e = Append(d, Idle)
           \/ /\ h.sender = << >> /\ h.blocks # << >> /\ g.sender = << >>
              /\ g.blocks = Tail(h.blocks) /\ e = Append(d, Head(h.blocks))
    PROVE  Flows(h, d, g, e)
<1>1. /\ Idle \in HostWord /\ Idle \notin TradeWord /\ Idle \notin PartyReq
      /\ HostBlock \subseteq HostWord /\ PartyReq \cap HostBlock = {}
  BY WordsApart
<1>2. h.blocks \in Seq(HostBlock) /\ (h.sender # << >> => \E b \in HostBlock : h.sender = <<b>>)
  BY DEF IsHost
<1> HIDE DEF HostWord, TradeWord, PartyReq, HostBlock, Idle
<1>3. \A W : W \subseteq TradeWord => Idle \notin W
  BY <1>1
<1>4. CASE g.sender = h.sender /\ g.blocks = h.blocks /\ e = Append(d, Idle)
  BY <1>1, <1>4, FlowsOther
<1>5. CASE /\ h.sender # << >> /\ g.sender = << >> /\ g.blocks = h.blocks
           /\ e = Append(d, Head(h.sender))
  <2>1. PICK b \in HostBlock : h.sender = <<b>>
    BY <1>2, <1>5
  <2>2. e = Append(d, b) /\ b \in HostWord /\ b \notin PartyReq
    BY <1>1, <1>5, <2>1, ShortSeqs
  <2>3. \A W : (NoneOf(h, d, W) => NoneOf(g, e, W)) /\ (OneOf(h, d, W) => OneOf(g, e, W))
    BY <1>5, <2>1, <2>2, LinkEnd DEF NoneOf, OneOf
  <2>4. /\ Free(d, PartyReq) => Free(e, PartyReq)
        /\ Single(d, PartyReq) => Single(e, PartyReq)
    BY <2>2, FreeAppend
  <2> QED
    BY <2>3, <2>4 DEF Flows, NoReq, OneReq
<1>6. ASSUME h.sender = << >>, h.blocks # << >>, NEW f, f.sender = <<Head(h.blocks)>>,
             f.blocks = Tail(h.blocks)
      PROVE  \A W : (NoneOf(h, d, W) => NoneOf(f, d, W)) /\ (OneOf(h, d, W) => OneOf(f, d, W))
  BY <1>2, <1>6, LinkStart DEF NoneOf, OneOf
<1>7. CASE /\ h.sender = << >> /\ h.blocks # << >> /\ g.sender = <<Head(h.blocks)>>
           /\ g.blocks = Tail(h.blocks) /\ e = Append(d, Idle)
  <2>1. \A W : (NoneOf(h, d, W) => NoneOf(g, d, W)) /\ (OneOf(h, d, W) => OneOf(g, d, W))
    BY <1>6, <1>7
  <2>2. \A W : W \subseteq TradeWord => (NoneOf(g, d, W) => NoneOf(g, e, W))
                                        /\ (OneOf(g, d, W) => OneOf(g, e, W))
    BY <1>1, <1>3, <1>7, LinkAdd DEF NoneOf, OneOf
  <2>3. /\ Free(d, PartyReq) => Free(e, PartyReq)
        /\ Single(d, PartyReq) => Single(e, PartyReq)
    BY <1>1, <1>7, FreeAppend
  <2> QED
    BY <2>1, <2>2, <2>3 DEF Flows, NoReq, OneReq
<1>8. CASE /\ h.sender = << >> /\ h.blocks # << >> /\ g.sender = << >>
           /\ g.blocks = Tail(h.blocks) /\ e = Append(d, Head(h.blocks))
  <2> DEFINE b == Head(h.blocks)
             q == Tail(h.blocks)
  <2>1. b \in HostBlock /\ b \in HostWord /\ b \notin PartyReq
    BY <1>1, <1>2, <1>8, TailIs
  <2>2. \A W : /\ NoneIn(d, << >>, h.blocks, W) => NoneIn(d, <<b>>, q, W)
               /\ OneIn(d, << >>, h.blocks, W) => OneIn(d, <<b>>, q, W)
    BY <1>2, <1>8, LinkStart
  <2> HIDE DEF b, q
  <2>3. \A W : /\ NoneIn(d, <<b>>, q, W) => NoneIn(Append(d, b), << >>, q, W)
               /\ OneIn(d, <<b>>, q, W) => OneIn(Append(d, b), << >>, q, W)
    BY <2>1, LinkEnd
  <2>4. \A W : (NoneOf(h, d, W) => NoneOf(g, e, W)) /\ (OneOf(h, d, W) => OneOf(g, e, W))
    BY <1>8, <2>2, <2>3 DEF NoneOf, OneOf, b, q
  <2>5. /\ Free(d, PartyReq) => Free(e, PartyReq)
        /\ Single(d, PartyReq) => Single(e, PartyReq)
    BY <1>8, <2>1, FreeAppend DEF b
  <2> QED
    BY <2>4, <2>5 DEF Flows, NoReq, OneReq
<1> QED
  BY <1>4, <1>5, <1>7, <1>8

EmitIs(h, d, g, e) ==
    /\ IsHost(g) /\ e \in Seq(HostWord)
    /\ Flows(h, d, g, e)
    /\ g.party = h.party /\ g.round = h.round
    /\ \/ Alike(h, g) /\ g.state = h.state /\ g.final_seen = h.final_seen
       \/ h.state \in Late /\ g.state \in Late

\* next_parent_words: a frame moves the words of a trade on, and adds none.
LEMMA EmitStep ==
    ASSUME NEW h, IsHost(h), NEW d \in Seq(HostWord), NEW last \in BOOLEAN,
           NEW o, o = next_parent_words(h, last)
    PROVE  EmitIs(h, d, o.host, Append(d, IF o.out = << >> THEN Idle ELSE Head(o.out)))
<1> DEFINE g == o.host
           e == Append(d, IF o.out = << >> THEN Idle ELSE Head(o.out))
           rest == [h EXCEPT !.held = Tail(@)]
<1>1. /\ DOMAIN h = HostFields /\ h.words \in Seq(AnyWord) /\ h.blocks \in Seq(HostBlock)
      /\ h.held \in Seq(HeldKey)
      /\ h.sender = << >> \/ \E b \in HostBlock : h.sender = <<b>>
  BY DEF IsHost, AnyWord, HeldKey
<1>2. AnyWord \subseteq HostWord /\ HostBlock \subseteq HostWord
  BY WordsApart
<1>3. /\ \A w \in {Idle, Key("READY"), Key("EXIT")} :
             w \notin TradeWord /\ w \notin PartyReq /\ w \in HostWord
  BY WordsApart
<1>4. CASE h.words # << >>
  <2>1. g = [h EXCEPT !.words = Tail(@)] /\ o.out = <<Head(h.words)>>
    BY <1>4 DEF next_parent_words, Out
  <2>2. /\ DOMAIN g = HostFields /\ g.words = Tail(h.words) /\ g.blocks = h.blocks
        /\ g.held = h.held /\ g.sender = h.sender /\ g.state = h.state
        /\ g.final_seen = h.final_seen /\ g.disconnect_requested = h.disconnect_requested
        /\ Alike(h, g)
    BY <1>1, <2>1 DEF HostFields, Alike
  <2>3. e = Append(d, Head(h.words))
    BY <2>1, ShortSeqs
  <2> HIDE DEF g, e, rest, HostWord, AnyWord, HostBlock, TradeWord
  <2>4. Head(h.words) \in HostWord /\ g.words \in Seq(AnyWord)
    BY <1>1, <1>2, <1>4, <2>2, TailIs
  <2>5. e \in Seq(HostWord)
    BY <2>3, <2>4, AppendIs
  <2>6. Flows(h, d, g, e)
    BY <1>1, <1>4, <2>2, <2>3, FlowsWord
  <2>7. IsHost(g)
    BY <2>2, <2>4 DEF IsHost, AnyWord, Alike
  <2>8. EmitIs(h, d, g, e)
    BY <2>2, <2>5, <2>6, <2>7 DEF EmitIs, Alike
  <2> QED
    BY <2>8 DEF g, e
<1>5. CASE h.words = << >> /\ (h.held # << >> \/ h.steady)
  <2>1. o = next_held_words(h)
    BY <1>5 DEF next_parent_words
  <2>2. CASE h.held = << >>
    <3>1. g = h /\ o.out = << >>
      BY <2>1, <2>2 DEF next_held_words, Out
    <3>2. e = Append(d, Idle)
      BY <3>1
    <3> HIDE DEF g, e, rest, HostWord, TradeWord, PartyReq, Idle
    <3>3. e \in Seq(HostWord)
      BY <1>3, <3>2, AppendIs
    <3>4. Flows(h, d, g, e)
      BY <1>3, <3>1, <3>2, FlowsOther
    <3>5. EmitIs(h, d, g, e)
      BY <3>1, <3>3, <3>4 DEF EmitIs, Alike
    <3> QED
      BY <3>5 DEF g, e
  <2>3. CASE h.held # << >>
    <3> DEFINE k == Head(h.held)
    <3>1. /\ g = rest \/ (g = complete_room_exit(rest) /\ h.state = "EXIT")
          /\ o.out = <<Key(k)>>
      BY <2>1, <2>3 DEF next_held_words, Out
    <3>2. /\ DOMAIN rest = HostFields /\ rest.words = h.words /\ rest.blocks = h.blocks
          /\ rest.held = Tail(h.held) /\ rest.sender = h.sender /\ rest.state = h.state
          /\ rest.final_seen = h.final_seen
          /\ rest.disconnect_requested = h.disconnect_requested
          /\ Alike(h, rest)
      BY <1>1 DEF HostFields, Alike
    <3>3. Tail(h.held) \in Seq(HeldKey) /\ k \in HeldKey
      BY <1>1, <2>3, TailIs
    <3>4. e = Append(d, Key(k)) /\ Key(k) \in {Key("READY"), Key("EXIT")}
      BY <3>1, <3>3, ShortSeqs DEF HeldKey
    <3> HIDE DEF g, e, rest, k, HostWord, TradeWord, PartyReq, Key
    <3>5. Key(k) \notin TradeWord /\ Key(k) \notin PartyReq /\ Key(k) \in HostWord
      BY <1>3, <3>4
    <3>6. e \in Seq(HostWord)
      BY <3>4, <3>5, AppendIs
    <3>7. IsHost(rest)
      BY <3>2, <3>3 DEF IsHost, HeldKey, Alike
    <3>8. Flows(h, d, rest, e)
      BY <3>2, <3>4, <3>5, FlowsOther
    <3>9. CASE g = rest
      <4>1. EmitIs(h, d, g, e)
        BY <3>2, <3>6, <3>7, <3>8, <3>9 DEF EmitIs, Alike
      <4> QED
        BY <4>1 DEF g, e
    <3>10. CASE g = complete_room_exit(rest) /\ h.state = "EXIT"
      <4>1. LateOn(rest, g) /\ rest.state # "ANIM"
        BY <3>2, <3>10, CloseLate
      <4>2. IsHost(g)
        BY <3>7, <4>1, LateHost
      <4>3. /\ g.words = rest.words \o times(Close, EchoFrames) /\ g.blocks = rest.blocks
            /\ g.sender = rest.sender /\ g.party = h.party /\ g.round = h.round
            /\ g.state = "CLOSE"
        BY <3>2, <3>10 DEF HostFields, complete_room_exit, enter, say, Alike
      <4>4. /\ Free(h.words, PartyReq) => Free(g.words, PartyReq)
            /\ Single(h.words, PartyReq) => Single(g.words, PartyReq)
        <5>1. Close \in OtherWord /\ EchoFrames \in Nat /\ OtherWord \subseteq AnyWord
          BY TradeAssumption DEF OtherWord, AnyWord
        <5>2. PartyReq \cap OtherWord = {}
          BY WordsApart
        <5> HIDE DEF OtherWord, AnyWord
        <5>3. times(Close, EchoFrames) \in Seq(OtherWord)
          BY <5>1, TimesIs
        <5>4. Grows(h.words, g.words, OtherWord)
          BY <3>2, <4>3, <5>3 DEF Grows
        <5> QED
          BY <1>1, <5>1, <5>2, <5>4, GrowsFree
      <4>5. Flows(h, d, g, e)
        BY <3>2, <3>4, <3>5, <4>3, <4>4, FlowsOther
      <4>6. h.state \in Late /\ g.state \in Late
        BY <3>10, <4>3 DEF Late
      <4>7. EmitIs(h, d, g, e)
        BY <3>6, <4>2, <4>3, <4>5, <4>6 DEF EmitIs
      <4> QED
        BY <4>7 DEF g, e
    <3> QED
      BY <3>1, <3>9, <3>10
  <2> QED
    BY <2>2, <2>3
<1>6. CASE h.words = << >> /\ ~(h.held # << >> \/ h.steady)
  <2> DEFINE starts  == h.sender = << >> /\ h.blocks # << >>
             sending == IF starts THEN <<Head(h.blocks)>> ELSE h.sender
             queued  == IF starts THEN Tail(h.blocks) ELSE h.blocks
             done    == last \/ sending = << >>
  <2>1. /\ g = [h EXCEPT !.blocks = queued, !.sender = IF done THEN << >> ELSE sending]
        /\ o.out = IF done THEN sending ELSE << >>
    BY <1>6 DEF next_parent_words, Out
  <2>2. /\ DOMAIN g = HostFields /\ g.words = h.words /\ g.blocks = queued
        /\ g.held = h.held /\ g.sender = (IF done THEN << >> ELSE sending) /\ g.state = h.state
        /\ g.final_seen = h.final_seen /\ g.disconnect_requested = h.disconnect_requested
        /\ Alike(h, g)
    <3> HIDE DEF queued, done, sending
    <3> QED
      BY <1>1, <2>1 DEF HostFields, Alike
  <2>3. starts => Head(h.blocks) \in HostBlock /\ Tail(h.blocks) \in Seq(HostBlock)
    BY <1>1, TailIs
  <2> HIDE DEF g, rest, HostWord, TradeWord, PartyReq, AnyWord, HostBlock
  <2>4. IsHost(g)
    <3>1. g.blocks \in Seq(HostBlock)
      BY <1>1, <2>2, <2>3
    <3>2. g.sender = << >> \/ \E b \in HostBlock : g.sender = <<b>>
      BY <1>1, <2>2, <2>3
    <3> QED
      BY <2>2, <3>1, <3>2 DEF IsHost, Alike
  <2>5. \/ g.sender = h.sender /\ g.blocks = h.blocks /\ e = Append(d, Idle)
        \/ /\ h.sender # << >> /\ g.sender = << >> /\ g.blocks = h.blocks
           /\ e = Append(d, Head(h.sender))
        \/ /\ h.sender = << >> /\ h.blocks # << >> /\ g.sender = <<Head(h.blocks)>>
           /\ g.blocks = Tail(h.blocks) /\ e = Append(d, Idle)
        \/ /\ h.sender = << >> /\ h.blocks # << >> /\ g.sender = << >>
           /\ g.blocks = Tail(h.blocks) /\ e = Append(d, Head(h.blocks))
    BY <1>1, <2>1, <2>2, ShortSeqs
  <2>6. e \in Seq(HostWord)
    <3>1. Idle \in HostWord /\ (h.sender # << >> => Head(h.sender) \in HostBlock)
      BY <1>1, <1>3, ShortSeqs
    <3>2. Append(d, Idle) \in Seq(HostWord)
      BY <3>1, AppendIs
    <3>3. h.sender # << >> => Append(d, Head(h.sender)) \in Seq(HostWord)
      BY <1>2, <3>1, AppendIs
    <3>4. starts => Append(d, Head(h.blocks)) \in Seq(HostWord)
      BY <1>2, <2>3, AppendIs
    <3> HIDE DEF e
    <3> QED
      BY <2>5, <3>2, <3>3, <3>4
  <2> HIDE DEF e
  <2>7. Flows(h, d, g, e)
    BY <2>2, <2>5, <2>6, FlowsBlock
  <2>8. EmitIs(h, d, g, e)
    BY <2>2, <2>4, <2>6, <2>7 DEF EmitIs, Alike
  <2> QED
    BY <2>8 DEF g, e
<1> QED
  BY <1>4, <1>5, <1>6

LEMMA EmitStage ==
    ASSUME NEW h, NEW c, NEW d, NEW u, NEW g, NEW e, Stage(h, c, d, u), EmitIs(h, d, g, e)
    PROVE  Stage(g, c, e, u)
<1>1. CASE Alike(h, g) /\ g.state = h.state /\ g.final_seen = h.final_seen
  BY <1>1, StageKept DEF EmitIs
<1>2. CASE h.state \in Late /\ g.state \in Late
  <2>1. Leaving(h, c, d, u)
    BY <1>2, LateLeaves
  <2>2. NoneOf(g, e, SwapWord)
    BY <2>1, FlowsDown DEF EmitIs, Leaving
  <2>3. Leaving(g, c, e, u)
    BY <1>2, <2>1, <2>2 DEF Leaving, EmitIs, Level
  <2> QED
    BY <2>3 DEF Stage
<1> QED
  BY <1>1, <1>2 DEF EmitIs

LEMMA DoneIs ==
    ASSUME NEW h, DOMAIN h = HostFields, NEW g, g = enter(h, "DONE")
    PROVE  /\ DOMAIN g = HostFields /\ g.words = h.words /\ g.blocks = h.blocks
           /\ g.held = h.held /\ g.sender = h.sender /\ g.party = h.party
           /\ g.round = h.round /\ g.child_finish = h.child_finish /\ g.state = "DONE"
BY DEF HostFields, enter

\* A frame keeps the stages, and trades what was agreed or nothing.
LEMMA TickStep ==
    ASSUME NEW h, NEW c, NEW d, NEW u, InvOf(h, c, d, u),
           NEW over, NEW again, NEW last \in BOOLEAN,
           NEW f, f = IF h.close_poll_sent /\ h.disconnect_requested
                      THEN Out(enter(h, "DONE"), <<Disconnect>>)
                      ELSE polled(timers(h, over, again), last)
    PROVE  /\ InvOf(f.host, c, Append(d, IF f.out = << >> THEN Idle ELSE Head(f.out)), u)
           /\ (f.host.party = h.party /\ f.host.round = h.round) \/ Commits(h, c, f.host)
<1> DEFINE g == f.host
           e == Append(d, IF f.out = << >> THEN Idle ELSE Head(f.out))
<1>1. /\ IsHost(h) /\ IsConsole(c) /\ d \in Seq(HostWord) /\ u \in Seq(Slot) /\ Stage(h, c, d, u)
      /\ DOMAIN h = HostFields
  BY DEF InvOf, IsHost
<1>2. CASE h.close_poll_sent /\ h.disconnect_requested
  <2>1. g = enter(h, "DONE") /\ f.out = <<Disconnect>>
    BY <1>2 DEF Out
  <2>2. h.state \in Late /\ h.state # "ANIM"
    BY <1>1, <1>2 DEF IsHost, Late
  <2>3. /\ DOMAIN g = HostFields /\ g.words = h.words /\ g.blocks = h.blocks
        /\ g.held = h.held /\ g.sender = h.sender /\ g.party = h.party
        /\ g.round = h.round /\ g.child_finish = h.child_finish /\ g.state = "DONE"
    <3> HIDE DEF g, e
    <3> QED
      BY <1>1, <2>1, DoneIs
  <2>4. e = Append(d, Disconnect)
    BY <2>1, ShortSeqs
  <2>5. /\ Disconnect \notin TradeWord /\ Disconnect \notin PartyReq /\ Disconnect \in HostWord
    BY WordsApart
  <2> HIDE DEF g, e, HostWord, TradeWord, PartyReq, Disconnect
  <2>6. LateOn(h, g)
    <3>1. g.state \in Late
      BY <2>3 DEF Late
    <3> QED
      BY <2>3, <3>1, MarkLate
  <2>7. IsHost(g)
    BY <1>1, <2>2, <2>6, LateHost
  <2>8. Flows(h, d, g, e)
    BY <1>1, <2>3, <2>4, <2>5, FlowsOther
  <2>9. EmitIs(h, d, g, e)
    <3>1. e \in Seq(HostWord)
      BY <1>1, <2>4, <2>5, AppendIs
    <3>2. g.state \in Late
      BY <2>3 DEF Late
    <3> QED
      BY <2>2, <2>3, <2>7, <2>8, <3>1, <3>2 DEF EmitIs
  <2>10. InvOf(g, c, e, u)
    BY <1>1, <2>9, EmitStage DEF InvOf, EmitIs
  <2> QED
    BY <2>3, <2>10 DEF g, e
<1>3. CASE ~(h.close_poll_sent /\ h.disconnect_requested)
  <2> DEFINE t == timers(h, over, again)
             o == next_parent_words(t, last)
             x == Append(d, IF o.out = << >> THEN Idle ELSE Head(o.out))
  <2>1. /\ IsHost(t) /\ Stage(t, c, d, u)
        /\ (t.party = h.party /\ t.round = h.round) \/ Commits(h, c, t)
    BY <1>1, TimersStep
  <2> HIDE DEF t
  <2>2. EmitIs(t, d, o.host, x)
    BY <1>1, <2>1, EmitStep
  <2>3. \E w, b : o = Out(w, b)
    BY DEF next_parent_words, next_held_words
  <2>4. f.out = o.out /\ g = [o.host EXCEPT !.close_poll_sent = @ \/ o.out = <<Close>>]
    <3>1. f = [o EXCEPT !.host.close_poll_sent = @ \/ o.out = <<Close>>]
      BY <1>3 DEF polled, t
    <3> HIDE DEF o
    <3> QED
      BY <2>3, <3>1 DEF Out
  <2> HIDE DEF o, g
  <2>5. /\ DOMAIN g = HostFields /\ g.words = o.host.words /\ g.blocks = o.host.blocks
        /\ g.held = o.host.held /\ g.sender = o.host.sender /\ g.state = o.host.state
        /\ g.final_seen = o.host.final_seen
        /\ g.disconnect_requested = o.host.disconnect_requested
        /\ Alike(o.host, g)
    BY <2>2, <2>4 DEF HostFields, Alike, EmitIs, IsHost
  <2>6. IsHost(g)
    BY <2>2, <2>5 DEF EmitIs, IsHost, Alike
  <2>7. Flows(o.host, x, g, x)
    BY <2>5 DEF Flows, NoneOf, OneOf, NoReq, OneReq
  <2>8. e = x
    BY <2>4
  <2> HIDE DEF x, e
  <2>9. EmitIs(o.host, x, g, x)
    BY <2>2, <2>5, <2>6, <2>7 DEF EmitIs, Alike
  <2>10. Stage(g, c, x, u)
    BY <2>1, <2>2, <2>9, EmitStage
  <2>11. InvOf(g, c, e, u)
    BY <1>1, <2>6, <2>8, <2>9, <2>10 DEF InvOf, EmitIs
  <2>12. g.party = t.party /\ g.round = t.round
    BY <2>2, <2>9 DEF EmitIs
  <2>13. (g.party = h.party /\ g.round = h.round) \/ Commits(h, c, g)
    BY <2>1, <2>12 DEF Commits
  <2> QED
    BY <2>11, <2>13 DEF g, e
<1> QED
  BY <1>2, <1>3

-----------------------------------------------------------------------------
(* The console hears a word.                                               *)

AnyReply == PartyReply \cup OtherReply

\* A step of the console that no trade depends on.
Roams(c, b) ==
    /\ IsConsole(b)
    /\ b.party = c.party /\ b.view = c.view /\ b.cursor = c.cursor /\ b.offer = c.offer
    /\ b.round = c.round
    /\ Adds(c.out, b.out, OtherReply, AnyReply)
    /\ \/ b.at = c.at
       \/ c.at \in Before /\ b.at \in Before
       \/ c.at \in Away /\ b.at \in Away

LEMMA RepliesApart ==
    /\ PartyReply \cap OtherReply = {} /\ OtherReply \subseteq AnyReply
    /\ Move \cap AnyReply = {} /\ Repeated \cap AnyReply = {} /\ Repeated \cap Move = {}
    /\ Idle \notin Repeated /\ Idle \notin Move /\ Idle \notin AnyReply
    /\ AnyReply \subseteq Slot /\ Repeated \subseteq Slot /\ Move \subseteq Slot /\ Idle \in Slot
<1>1. Idle.op = "idle"
  BY DEF Idle
<1> HIDE DEF PartyReply, OtherReply, Repeated, Move, Idle
<1> QED
  BY <1>1, SlotKinds DEF AnyReply, Slot

LEMMA RoamBy ==
    ASSUME NEW c, IsConsole(c), NEW b, DOMAIN b = ConsoleFields, Grows(c.out, b.out, OtherReply),
           b.party = c.party, b.view = c.view, b.cursor = c.cursor, b.offer = c.offer,
           b.round = c.round, b.count \in Nat, b.todo \in Nat, b.pending => b.todo > 0,
           b.at \in AtTable => b.todo = 0,
           \/ b.at = c.at
           \/ c.at \in Before /\ b.at \in Before
           \/ c.at \in Away /\ b.at \in Away
    PROVE  Roams(c, b)
<1>1. OtherReply \subseteq AnyReply
  BY RepliesApart
<1>2. c.out \in Seq(AnyReply)
  BY DEF IsConsole, AnyReply
<1> HIDE DEF OtherReply, AnyReply
<1>3. Adds(c.out, b.out, OtherReply, AnyReply)
  BY <1>1, GrowsAdds
<1>4. b.out \in Seq(AnyReply)
  BY <1>2, <1>3 DEF Adds
<1>5. IsConsole(b)
  BY <1>4 DEF IsConsole, AnyReply
<1> QED
  BY <1>3, <1>5 DEF Roams

LEMMA RoamKeeps ==
    ASSUME NEW h, NEW c, NEW d, NEW u, IsConsole(c), Stage(h, c, d, u), NEW b, Roams(c, b)
    PROVE  Stage(h, b, d, u)
<1>1. c.out \in Seq(AnyReply) /\ PartyReply \cap OtherReply = {}
  BY RepliesApart DEF IsConsole, AnyReply
<1>2. \A V : V \subseteq PartyReply => V \cap OtherReply = {}
  BY <1>1
<1>3. PartyReply \ {Mons(c.party)} \subseteq PartyReply
  OBVIOUS
<1> HIDE DEF PartyReply, OtherReply, AnyReply
<1>4. /\ NoParty(c, u) => NoParty(b, u)
      /\ OneParty(c, u) => OneParty(b, u)
  BY <1>1, <1>2, <1>3 DEF Roams, Adds, NoParty, OneParty
<1>5. Level(h, c) => Level(h, b)
  BY DEF Level, Roams
<1>6. Apart(h, c, d, u) => Apart(h, b, d, u)
  BY <1>4, <1>5 DEF Apart, Roams, Before, Away
<1>7. Asking(h, c, d, u) => Asking(h, b, d, u)
  BY <1>4, <1>5 DEF Asking, Roams, Before, Away
<1>8. Choosing(h, c, d, u) => Choosing(h, b, d, u)
  <2>1. AtMenu(h, c, d, u) => AtMenu(h, b, d, u) /\ b.at = c.at
    BY DEF AtMenu, Roams, Before, Away
  <2> QED
    BY <1>4, <1>5, <2>1 DEF Choosing, Roams
<1>9. Agreed(h, c, d, u) => Agreed(h, b, d, u)
  <2>1. Answering(h, c, d, u) => Answering(h, b, d, u) /\ b.at = c.at
    BY DEF Answering, Roams, Before, Away
  <2>2. Watching(h, c, d, u) => Watching(h, b, d, u) /\ b.at = c.at
    BY DEF Watching, Roams, Before, Away
  <2> QED
    BY <1>4, <1>5, <2>1, <2>2 DEF Agreed, Roams
<1>10. Owing(h, c, d, u) => Owing(h, b, d, u)
  BY <1>4 DEF Owing, Roams, Before, Away
<1>11. Leaving(h, c, d, u) => Leaving(h, b, d, u)
  BY <1>5 DEF Leaving, Roams, Before, Away, InTrade
<1> QED
  BY <1>6, <1>7, <1>8, <1>9, <1>10, <1>11 DEF Stage

\* A standby that passes a barrier; after the last one the console moves on.
LEMMA PassedRoams ==
    ASSUME NEW c, IsConsole(c), c.pending
    PROVE  Roams(c, passed(c))
<1> DEFINE b == passed(c)
           p == [c EXCEPT !.count = @ + 1, !.pending = FALSE, !.todo = @ - 1]
<1>1. DOMAIN c = ConsoleFields /\ c.count \in Nat /\ c.todo \in Nat /\ c.todo > 0
  BY DEF IsConsole
<1>2. /\ DOMAIN p = ConsoleFields /\ p.out = c.out /\ p.party = c.party /\ p.view = c.view
      /\ p.cursor = c.cursor /\ p.offer = c.offer /\ p.round = c.round
      /\ p.count = c.count + 1 /\ p.todo = c.todo - 1 /\ p.pending = FALSE /\ p.at = c.at
  BY <1>1 DEF ConsoleFields
<1>3. \/ b = p
      \/ /\ p.todo = 0 /\ p.at \in {"carded", "seat", "saving", "left"}
         /\ b = goes(p, AfterBarrier[p.at])
  BY DEF passed, AfterBarrier
<1> HIDE DEF b, p
<1>4. c.at \notin AtTable
  BY <1>1 DEF IsConsole
<1>5. CASE b = p
  <2>1. b.count \in Nat /\ b.todo \in Nat
    BY <1>1, <1>2, <1>5
  <2>2. Grows(c.out, b.out, OtherReply)
    BY <1>2, <1>5 DEF Grows
  <2>3. Roams(c, b)
    BY <1>2, <1>4, <1>5, <2>1, <2>2, RoamBy
  <2> QED
    BY <2>3 DEF b
<1>6. CASE /\ p.todo = 0 /\ p.at \in {"carded", "seat", "saving", "left"}
           /\ b = goes(p, AfterBarrier[p.at])
  <2>1. \/ c.at \in Before /\ AfterBarrier[p.at] \in Before
        \/ c.at \in Away /\ AfterBarrier[p.at] \in Away
    BY <1>2, <1>6 DEF AfterBarrier, Before, Away
  <2>2. /\ DOMAIN b = ConsoleFields /\ b.out = c.out /\ b.party = c.party /\ b.view = c.view
        /\ b.cursor = c.cursor /\ b.offer = c.offer /\ b.round = c.round
        /\ b.count = c.count + 1 /\ b.todo = 0 /\ b.pending = FALSE /\ b.at = AfterBarrier[p.at]
    <3> HIDE DEF AfterBarrier
    <3> QED
      BY <1>2, <1>6 DEF ConsoleFields, goes
  <2>3. Grows(c.out, b.out, OtherReply) /\ b.count \in Nat
    BY <1>1, <2>2 DEF Grows
  <2>4. Roams(c, b)
    BY <2>1, <2>2, <2>3, RoamBy
  <2> QED
    BY <2>4 DEF b
<1> QED
  BY <1>3, <1>5, <1>6

RoamWord == OtherWord \cup {Idle, Disconnect, Key("READY"), Key("EXIT")} \cup PlainBlock

LEMMA RoamSame == \A c : IsConsole(c) => Roams(c, c)
<1> TAKE c
<1>1. Grows(c.out, c.out, OtherReply)
  BY DEF Grows
<1> QED
  BY <1>1, RoamBy DEF IsConsole

\* What the console says and where it goes, out of the trade.
Moved(c, x, place) ==
    /\ DOMAIN x = ConsoleFields /\ x.party = c.party /\ x.view = c.view /\ x.cursor = c.cursor
    /\ x.offer = c.offer /\ x.round = c.round /\ x.pending = c.pending /\ x.at = place
    /\ x.out = c.out \/ \E r \in OtherReply : x.out = Append(c.out, r)
    /\ x.count \in Nat /\ x.todo \in Nat /\ x.todo >= c.todo

LEMMA MovedRoams ==
    ASSUME NEW c, IsConsole(c), NEW x, NEW place, Moved(c, x, place), place \notin AtTable,
           \/ c.at \in Before /\ place \in Before
           \/ c.at \in Away /\ place \in Away
    PROVE  Roams(c, x)
<1>1. c.todo \in Nat /\ (c.pending => c.todo > 0)
  BY DEF IsConsole
<1>2. x.pending => x.todo > 0
  BY <1>1 DEF Moved
<1>3. Grows(c.out, x.out, OtherReply)
  BY DEF Moved, Grows
<1> QED
  BY <1>2, <1>3, RoamBy DEF Moved

LEMMA SaysMoved ==
    ASSUME NEW c, DOMAIN c = ConsoleFields, c.count \in Nat, c.todo \in Nat,
           NEW place, NEW r \in OtherReply
    PROVE  /\ Moved(c, replies(goes(c, place), r), place)
           /\ Moved(c, [replies(goes(c, place), r) EXCEPT !.todo = c.todo + 2], place)
           /\ Moved(c, goes(c, place), place)
<1>1. ASSUME NEW x, x = replies(goes(c, place), r) PROVE Moved(c, x, place)
  <2>1. /\ DOMAIN x = ConsoleFields /\ x.party = c.party /\ x.view = c.view /\ x.cursor = c.cursor
        /\ x.offer = c.offer /\ x.round = c.round /\ x.pending = c.pending /\ x.at = place
        /\ x.out = Append(c.out, r) /\ x.count = c.count /\ x.todo = c.todo
    BY <1>1 DEF ConsoleFields, replies, goes
  <2> QED
    BY <2>1 DEF Moved
<1>2. ASSUME NEW x, x = [replies(goes(c, place), r) EXCEPT !.todo = c.todo + 2] PROVE Moved(c, x, place)
  <2>1. /\ DOMAIN x = ConsoleFields /\ x.party = c.party /\ x.view = c.view /\ x.cursor = c.cursor
        /\ x.offer = c.offer /\ x.round = c.round /\ x.pending = c.pending /\ x.at = place
        /\ x.out = Append(c.out, r) /\ x.count = c.count /\ x.todo = c.todo + 2
    BY <1>2 DEF ConsoleFields, replies, goes
  <2> QED
    BY <2>1 DEF Moved
<1>3. ASSUME NEW x, x = goes(c, place) PROVE Moved(c, x, place)
  <2>1. /\ DOMAIN x = ConsoleFields /\ x.party = c.party /\ x.view = c.view /\ x.cursor = c.cursor
        /\ x.offer = c.offer /\ x.round = c.round /\ x.pending = c.pending /\ x.at = place
        /\ x.out = c.out /\ x.count = c.count /\ x.todo = c.todo
    BY <1>3 DEF ConsoleFields, goes
  <2> QED
    BY <2>1 DEF Moved
<1> QED
  BY <1>1, <1>2, <1>3

\* Where the console waits for a key or a block.
LEMMA WaitsIs ==
    ASSUME NEW c, NEW w, Waits(c, w)
    PROVE  /\ w.op = "key" => /\ w.key = "READY" => c.at = "room"
                              /\ w.key = "EXIT" => c.at \in {"field", "exiting"}
           /\ w.op = "block" =>
                /\ w.cmd = "link_player" => c.at = "linked"
                /\ w.cmd = "card" => c.at = "carding"
                /\ w.cmd = "party" => c.at = "partying"
                /\ w.cmd = "SET_MONS_TO_TRADE" => c.at = "asked"
                /\ w.cmd = "START_TRADE" => c.at = "started"
                /\ w.cmd = "CONFIRM_FINISH_TRADE" => c.at = "finishing"
                /\ w.cmd = "BOTH_CANCEL_TRADE" => c.at = "cancelling"
                /\ w.cmd = "PARTNER_CANCEL_TRADE" => c.at \in {"cancelling", "declined"}
                /\ w.cmd = "PLAYER_CANCEL_TRADE" => c.at \in {"cancelling", "declined", "asked"}
<1> DEFINE keys == [READY |-> {"room"}, EXIT |-> {"field", "exiting"}]
           cmds == [link_player |-> {"linked"}, card |-> {"carding"}, party |-> {"partying"},
                    SET_MONS_TO_TRADE |-> {"asked"}, START_TRADE |-> {"started"},
                    CONFIRM_FINISH_TRADE |-> {"finishing"}, BOTH_CANCEL_TRADE |-> {"cancelling"},
                    PARTNER_CANCEL_TRADE |-> {"cancelling", "declined"},
                    PLAYER_CANCEL_TRADE |-> {"cancelling", "declined", "asked"}]
<1>1. keys["READY"] = {"room"} /\ keys["EXIT"] = {"field", "exiting"}
  OBVIOUS
<1>2. /\ cmds["link_player"] = {"linked"} /\ cmds["card"] = {"carding"} /\ cmds["party"] = {"partying"}
      /\ cmds["SET_MONS_TO_TRADE"] = {"asked"} /\ cmds["START_TRADE"] = {"started"}
      /\ cmds["CONFIRM_FINISH_TRADE"] = {"finishing"} /\ cmds["BOTH_CANCEL_TRADE"] = {"cancelling"}
      /\ cmds["PARTNER_CANCEL_TRADE"] = {"cancelling", "declined"}
      /\ cmds["PLAYER_CANCEL_TRADE"] = {"cancelling", "declined", "asked"}
  OBVIOUS
<1>3. w.op = "key" => c.at \in keys[w.key]
  BY DEF Waits
<1>4. w.op = "block" => c.at \in cmds[w.cmd]
  BY DEF Waits
<1> HIDE DEF keys, cmds
<1> QED
  BY <1>1, <1>2, <1>3, <1>4

\* A word on its own that is no word of a trade.
LEMMA HearOther ==
    ASSUME NEW c, IsConsole(c), NEW w \in RoamWord, NEW b \in heard(c, w)
    PROVE  Roams(c, b)
<1>1. DOMAIN c = ConsoleFields /\ c.count \in Nat /\ c.todo \in Nat /\ (c.pending => c.todo > 0)
  BY DEF IsConsole
<1>2. CASE ~Waits(c, w)
  <2>1. b = c
    BY <1>2 DEF heard
  <2> QED
    BY <2>1, RoamSame
<1>3. CASE Waits(c, w) /\ w = Idle
  <2>1. w.op = "idle"
    BY <1>3 DEF Idle
  <2>2. b = c
    BY <1>3, <2>1 DEF heard
  <2> QED
    BY <2>2, RoamSame
<1>4. ASSUME NEW n \in Nat, w = Standby(n), Waits(c, w)
      PROVE  Roams(c, b)
  <2> DEFINE m == [c EXCEPT !.missed = @ + 1]
  <2>1. w.op = "standby" /\ w.count = n
    BY <1>4 DEF Standby
  <2>2. b \in onEcho(c, n)
    BY <1>4, <2>1 DEF heard
  <2>3. b = c \/ (b = passed(c) /\ c.pending) \/ b = m
    BY <2>2 DEF onEcho
  <2>4. Roams(c, m)
    <3>1. /\ DOMAIN m = ConsoleFields /\ m.out = c.out /\ m.party = c.party /\ m.view = c.view
          /\ m.cursor = c.cursor /\ m.offer = c.offer /\ m.round = c.round
          /\ m.count = c.count /\ m.todo = c.todo /\ m.pending = c.pending /\ m.at = c.at
      BY <1>1 DEF ConsoleFields
    <3>2. m.at \in AtTable => m.todo = 0
      BY <3>1 DEF IsConsole
    <3> HIDE DEF m
    <3>3. Grows(c.out, m.out, OtherReply)
      BY <3>1 DEF Grows
    <3> QED
      BY <1>1, <3>1, <3>2, <3>3, RoamBy
  <2> HIDE DEF m
  <2> QED
    BY <2>3, <2>4, RoamSame, PassedRoams
<1>5. CASE Waits(c, w) /\ w \in {Req("link_player"), Req("card")}
  <2>1. w.op = "req"
    BY <1>5 DEF Req
  <2>2. CASE w.of = "link_player"
    <3>1. c.at = "link" /\ b = replies(goes(c, "linked"), Block("link_player"))
      BY <1>5, <2>1, <2>2 DEF Waits, heard, onReq
    <3>2. Block("link_player") \in OtherReply
      BY DEF OtherReply
    <3>3. Moved(c, b, "linked")
      BY <1>1, <3>1, <3>2, SaysMoved
    <3> QED
      BY <3>1, <3>3, MovedRoams DEF Before, AtTable
  <2>3. CASE w.of = "card"
    <3>1. c.at = "card" /\ b = replies(goes(c, "carding"), Block("card"))
      BY <1>5, <2>1, <2>3 DEF Waits, heard, onReq
    <3>2. Block("card") \in OtherReply
      BY DEF OtherReply
    <3>3. Moved(c, b, "carding")
      BY <1>1, <3>1, <3>2, SaysMoved
    <3> QED
      BY <3>1, <3>3, MovedRoams DEF Before, AtTable
  <2> QED
    BY <1>5, <2>2, <2>3 DEF Req
<1>6. CASE Waits(c, w) /\ w = Close
  <2>1. w.op = "close" /\ Close \in OtherReply
    <3>1. Close \in OtherReply
      BY DEF OtherReply
    <3> QED
      BY <1>6, <3>1 DEF Close
  <2>2. b = c \/ (c.at = "out" /\ b = replies(goes(c, "closing"), Close))
    BY <1>6, <2>1 DEF heard
  <2>3. Moved(c, replies(goes(c, "closing"), Close), "closing")
    BY <1>1, <2>1, SaysMoved
  <2> QED
    BY <2>2, <2>3, RoamSame, MovedRoams DEF Away, AtTable
<1>7. CASE Waits(c, w) /\ w = Disconnect
  <2>1. c.at = "closing" /\ b = goes(c, "gone")
    BY <1>7 DEF Disconnect, Waits, heard
  <2>2. Close \in OtherReply
    BY DEF OtherReply
  <2>3. Moved(c, b, "gone")
    BY <1>1, <2>1, <2>2, SaysMoved
  <2> QED
    BY <2>1, <2>3, MovedRoams DEF Away, AtTable
<1>8. CASE Waits(c, w) /\ w = Key("EXIT")
  <2>1. /\ c.at \in {"field", "exiting"}
        /\ b = replies(goes(c, "out"), Key("EXIT")) \/ b = goes(c, "out")
    <3>1. w.op = "key" /\ w.key = "EXIT"
      BY <1>8 DEF Key
    <3>2. c.at \in {"field", "exiting"}
      BY <1>8, <3>1, WaitsIs
    <3> QED
      BY <1>8, <3>1, <3>2 DEF heard, onKey
  <2>2. Key("EXIT") \in OtherReply
    BY DEF OtherReply
  <2>3. Moved(c, b, "out")
    BY <1>1, <2>1, <2>2, SaysMoved
  <2> QED
    BY <2>1, <2>3, MovedRoams DEF Away, AtTable
<1>9. CASE Waits(c, w) /\ w = Key("READY")
  <2> DEFINE y == replies(goes(c, "seat"), Key("READY"))
  <2>1. c.at = "room" /\ b = [y EXCEPT !.todo = 2]
    <3>1. w.op = "key" /\ w.key = "READY"
      BY <1>9 DEF Key
    <3>2. c.at = "room"
      BY <1>9, <3>1, WaitsIs
    <3> QED
      BY <1>9, <3>1, <3>2 DEF heard, onKey
  <2>2. Key("READY") \in OtherReply
    BY DEF OtherReply
  <2>3. /\ DOMAIN b = ConsoleFields /\ b.out = Append(c.out, Key("READY")) /\ b.party = c.party
        /\ b.view = c.view /\ b.cursor = c.cursor /\ b.offer = c.offer /\ b.round = c.round
        /\ b.count = c.count /\ b.todo = 2 /\ b.pending = c.pending /\ b.at = "seat"
    BY <1>1, <2>1 DEF ConsoleFields, replies, goes
  <2>4. Grows(c.out, b.out, OtherReply)
    BY <2>2, <2>3 DEF Grows
  <2>5. b.at \notin AtTable /\ c.at \in Before /\ b.at \in Before
    BY <2>1, <2>3 DEF AtTable, Before
  <2>6. /\ b.count \in Nat /\ b.todo \in Nat /\ b.todo > 0
        /\ Grows(c.out, b.out, OtherReply) /\ DOMAIN b = ConsoleFields
    BY <1>1, <2>3, <2>4
  <2> QED
    BY <2>3, <2>5, <2>6, RoamBy
<1>10. CASE Waits(c, w) /\ w = Block("card")
  <2>1. c.at = "carding" /\ b = [goes(c, "carded") EXCEPT !.todo = @ + 1]
    <3>1. w.op = "block" /\ w.cmd = "card"
      BY <1>10 DEF Block
    <3>2. c.at = "carding"
      BY <1>10, <3>1, WaitsIs
    <3> QED
      BY <1>10, <3>1, <3>2 DEF heard, onBlock
  <2>2. /\ DOMAIN b = ConsoleFields /\ b.out = c.out /\ b.party = c.party
        /\ b.view = c.view /\ b.cursor = c.cursor /\ b.offer = c.offer /\ b.round = c.round
        /\ b.count = c.count /\ b.todo = c.todo + 1 /\ b.pending = c.pending /\ b.at = "carded"
    BY <1>1, <2>1 DEF ConsoleFields, goes
  <2>3. Moved(c, b, "carded")
    BY <1>1, <2>2 DEF Moved
  <2> QED
    BY <2>1, <2>3, MovedRoams DEF AtTable, Before
<1>11. CASE Waits(c, w) /\ w = Block("link_player")
  <2>1. /\ c.at = "linked"
        /\ \/ b = [goes(c, "card") EXCEPT !.todo = 1]
           \/ b = [goes(c, "card") EXCEPT !.count = 2]
    <3>1. w.op = "block" /\ w.cmd = "link_player"
      BY <1>11 DEF Block
    <3>2. c.at = "linked"
      BY <1>11, <3>1, WaitsIs
    <3> QED
      BY <1>11, <3>1, <3>2 DEF heard, onBlock
  <2>2. /\ DOMAIN b = ConsoleFields /\ b.out = c.out /\ b.party = c.party
        /\ b.view = c.view /\ b.cursor = c.cursor /\ b.offer = c.offer /\ b.round = c.round
        /\ b.pending = c.pending /\ b.at = "card"
        /\ (b.count = c.count /\ b.todo = 1) \/ (b.count = 2 /\ b.todo = c.todo)
    BY <1>1, <2>1 DEF ConsoleFields, goes
  <2>3. Grows(c.out, b.out, OtherReply)
    BY <2>2 DEF Grows
  <2>4. b.at \notin AtTable /\ c.at \in Before /\ b.at \in Before
    BY <2>1, <2>2 DEF AtTable, Before
  <2> QED
    BY <1>1, <2>2, <2>3, <2>4, RoamBy
<1> QED
  BY <1>2, <1>3, <1>4, <1>5, <1>6, <1>7, <1>8, <1>9, <1>10, <1>11 DEF RoamWord, OtherWord, PlainBlock

LEMMA DownTail ==
    ASSUME NEW h, NEW d \in Seq(HostWord), d # << >>
    PROVE  /\ Flows(h, d, h, Tail(d))
           /\ \A A : Down(h, d, A) => Down(h, Tail(d), A)
           /\ \A A : Down(h, d, A) /\ Head(d) \in TradeWord => Head(d) \in A /\ Down(h, Tail(d), {})
           /\ NoReq(h, d) => Head(d) \notin PartyReq
           /\ OneReq(h, d) /\ Head(d) \in PartyReq => NoReq(h, Tail(d))
           /\ \A W : NoneOf(h, d, W) => Head(d) \notin W
<1>1. /\ \A W : Free(d, W) => Free(Tail(d), W) /\ Head(d) \notin W
      /\ \A W : Single(d, W) => Single(Tail(d), W)
      /\ \A W : Single(d, W) /\ Head(d) \in W => Free(Tail(d), W)
  BY FreeTail
<1> HIDE DEF TradeWord, PartyReq, HostWord
<1>2. /\ \A W : NoneOf(h, d, W) => NoneOf(h, Tail(d), W) /\ Head(d) \notin W
      /\ \A W : OneOf(h, d, W) => OneOf(h, Tail(d), W)
      /\ \A W : OneOf(h, d, W) /\ Head(d) \in W => NoneOf(h, Tail(d), W)
  BY <1>1 DEF NoneOf, OneOf, NoneIn, OneIn
<1>3. /\ NoReq(h, d) => NoReq(h, Tail(d)) /\ Head(d) \notin PartyReq
      /\ OneReq(h, d) => OneReq(h, Tail(d))
      /\ OneReq(h, d) /\ Head(d) \in PartyReq => NoReq(h, Tail(d))
  BY <1>1 DEF NoReq, OneReq
<1>4. Flows(h, d, h, Tail(d))
  BY <1>2, <1>3 DEF Flows
<1>5. \A A : Down(h, d, A) => Down(h, Tail(d), A)
  BY <1>4, FlowsDown
<1>6. ASSUME NEW A, Down(h, d, A), Head(d) \in TradeWord
      PROVE  Head(d) \in A /\ Down(h, Tail(d), {})
  <2>1. Head(d) \in A
    BY <1>2, <1>6 DEF Down
  <2>2. NoneOf(h, Tail(d), TradeWord) /\ OneOf(h, Tail(d), TradeWord)
    BY <1>2, <1>6 DEF Down
  <2>3. TradeWord \ {} = TradeWord
    OBVIOUS
  <2> QED
    BY <2>1, <2>2, <2>3 DEF Down
<1> QED
  BY <1>2, <1>3, <1>4, <1>5, <1>6

LEMMA DownHead ==
    ASSUME NEW h, NEW d \in Seq(HostWord), d # << >>
    PROVE  /\ Head(d) \in TradeWord => ~Down(h, d, {})
           /\ Head(d) \in SwapWord => ~NoneOf(h, d, SwapWord)
<1>1. \A A : Down(h, d, A) /\ Head(d) \in TradeWord => Head(d) \in A
  BY DownTail
<1>2. \A W : NoneOf(h, d, W) => Head(d) \notin W
  BY DownTail
<1>3. Head(d) \notin {}
  OBVIOUS
<1> HIDE DEF TradeWord, SwapWord, HostWord
<1> QED
  BY <1>1, <1>2, <1>3

\* A step that leaves what the console sends and has.
Sits(c, b, place) ==
    /\ DOMAIN b = ConsoleFields /\ b.at = place
    /\ b.out = c.out /\ b.party = c.party /\ b.round = c.round
    /\ b.count = c.count /\ b.todo = c.todo /\ b.pending = c.pending

LEMMA SitsIs ==
    ASSUME NEW c, DOMAIN c = ConsoleFields, NEW place, NEW p
    PROVE  /\ LET b == [goes(c, place) EXCEPT !.view = p]
              IN  Sits(c, b, place) /\ b.view = p /\ b.cursor = c.cursor /\ b.offer = c.offer
           /\ LET b == [goes(c, place) EXCEPT !.offer = p]
              IN  Sits(c, b, place) /\ b.view = c.view /\ b.cursor = c.cursor /\ b.offer = p
           /\ LET b == [goes(c, place) EXCEPT !.cursor = p]
              IN  Sits(c, b, place) /\ b.view = c.view /\ b.cursor = p /\ b.offer = c.offer
           /\ LET b == goes(c, place)
              IN  Sits(c, b, place) /\ b.view = c.view /\ b.cursor = c.cursor /\ b.offer = c.offer
           /\ LET b == nothingCame(c)
              IN  Sits(c, b, "menu") /\ b.view = c.view /\ b.cursor = c.cursor /\ b.offer = c.offer
<1>1. ASSUME NEW b, b = [goes(c, place) EXCEPT !.view = p]
      PROVE  Sits(c, b, place) /\ b.view = p /\ b.cursor = c.cursor /\ b.offer = c.offer
  BY <1>1 DEF ConsoleFields, goes, Sits
<1>2. ASSUME NEW b, b = [goes(c, place) EXCEPT !.offer = p]
      PROVE  Sits(c, b, place) /\ b.view = c.view /\ b.cursor = c.cursor /\ b.offer = p
  BY <1>2 DEF ConsoleFields, goes, Sits
<1>3. ASSUME NEW b, b = [goes(c, place) EXCEPT !.cursor = p]
      PROVE  Sits(c, b, place) /\ b.view = c.view /\ b.cursor = p /\ b.offer = c.offer
  BY <1>3 DEF ConsoleFields, goes, Sits
<1>4. ASSUME NEW b, b = goes(c, place)
      PROVE  Sits(c, b, place) /\ b.view = c.view /\ b.cursor = c.cursor /\ b.offer = c.offer
  BY <1>4 DEF ConsoleFields, goes, Sits
<1>5. ASSUME NEW b, b = nothingCame(c)
      PROVE  Sits(c, b, "menu") /\ b.view = c.view /\ b.cursor = c.cursor /\ b.offer = c.offer
  BY <1>5 DEF ConsoleFields, nothingCame, goes, Sits
<1> QED
  BY <1>1, <1>2, <1>3, <1>4, <1>5

LEMMA SitsConsole ==
    ASSUME NEW c, IsConsole(c), NEW b, NEW place, Sits(c, b, place), c.at \in AtTable
    PROVE  /\ IsConsole(b)
           /\ \A u : NoParty(c, u) => NoParty(b, u)
           /\ \A u : OneParty(c, u) => OneParty(b, u)
           /\ \A h : Level(h, c) => Level(h, b)
BY DEF Sits, IsConsole, NoParty, OneParty, Level

\* What a step of the console does to the trade: nothing, or its commit.
Same(h, c, b) ==
    /\ b.party = c.party /\ b.round = c.round
    /\ h.round = c.round \/ (b.view = c.view /\ b.offer = c.offer /\ b.cursor = c.cursor)

Swaps(h, c, b) ==
    /\ h.round = c.round + 1 /\ b.round = h.round
    /\ c.view \in HostParty /\ c.offer \in DOMAIN HostMons /\ c.cursor \in DOMAIN ChildMons
    /\ b.party = [c.party EXCEPT ![c.cursor] = c.view[c.offer]]

Heard(h, c, b, e, u) ==
    IsConsole(b) /\ Stage(h, b, e, u) /\ (Same(h, c, b) \/ Swaps(h, c, b))

\* CONFIRM_FINISH_TRADE: the console commits.
LEMMA HearFinish ==
    ASSUME NEW h, NEW c, NEW d, NEW u, IsHost(h), IsConsole(c), d \in Seq(HostWord), d # << >>,
           Stage(h, c, d, u), c.at = "finishing", Head(d) = Block("CONFIRM_FINISH_TRADE"),
           NEW b, b = swapped(c)
    PROVE  Heard(h, c, b, Tail(d), u)
<1>1. DOMAIN c = ConsoleFields /\ c.round \in Nat /\ c.count \in Nat
  BY DEF IsConsole
<1>2. Head(d) \in TradeWord /\ Head(d) \in SwapWord
  BY PartyWords DEF SwapWord
<1>3. Owing(h, c, d, u)
  <2>1. ~Down(h, d, {}) /\ ~NoneOf(h, d, SwapWord)
    BY <1>2, DownTail
  <2> QED
    BY <2>1 DEF Stage, Apart, Asking, Choosing, AtMenu, Agreed, Answering, Watching, Leaving,
                Before, InTrade
<1>4. Down(h, Tail(d), {}) /\ NoReq(h, Tail(d))
  BY <1>2, <1>3, DownTail, FlowsDown DEF Owing
<1>5. /\ DOMAIN b = ConsoleFields /\ b.at = "saving" /\ b.out = c.out /\ b.round = c.round + 1
      /\ b.count = c.count /\ b.todo = SaveRounds /\ b.pending = c.pending
      /\ b.party = [c.party EXCEPT ![c.cursor] = c.view[c.offer]]
  BY <1>1 DEF ConsoleFields, swapped, goes
<1>6. b.party \in ChildParty
  <2>1. /\ c.view \in HostParty /\ c.offer \in DOMAIN HostMons /\ c.cursor \in DOMAIN ChildMons
        /\ c.party \in ChildParty
    BY <1>3 DEF Owing, IsConsole
  <2> HIDE DEF HostParty, ChildParty
  <2> QED
    BY <1>5, <2>1, MonsAre
<1>7. IsConsole(b)
  <2>1. SaveRounds \in Nat /\ SaveRounds > 0 /\ c.round + 1 \in Nat
    BY <1>1, TradeAssumption
  <2> QED
    BY <1>5, <1>6, <2>1 DEF IsConsole, AtTable
<1>8. Apart(h, b, Tail(d), u)
  BY <1>3, <1>4, <1>5 DEF Apart, Owing, Early, Before, Level, NoParty
<1>9. Swaps(h, c, b)
  BY <1>3, <1>5 DEF Swaps, Owing
<1> QED
  BY <1>7, <1>8, <1>9 DEF Heard, Stage

\* A request for the party.
LEMMA HearReq ==
    ASSUME NEW h, NEW c, NEW d, NEW u, IsHost(h), IsConsole(c), d \in Seq(HostWord), d # << >>,
           Stage(h, c, d, u), c.at = "party", Head(d) = Req("party"),
           NEW b, b = replies(goes(c, "partying"), Mons(c.party))
    PROVE  Heard(h, c, b, Tail(d), u)
<1>1. DOMAIN c = ConsoleFields /\ c.party \in ChildParty /\ c.out \in Seq(AnyReply) /\ c.todo = 0
  BY DEF IsConsole, AnyReply, AtTable
<1>2. /\ DOMAIN b = ConsoleFields /\ b.at = "partying" /\ b.out = Append(c.out, Mons(c.party))
      /\ b.party = c.party /\ b.round = c.round
      /\ b.count = c.count /\ b.todo = c.todo /\ b.pending = c.pending
  BY <1>1 DEF ConsoleFields, replies, goes
<1>3. Mons(c.party) \in PartyReply
  BY <1>1 DEF PartyReply
<1>4. Mons(c.party) \in AnyReply /\ Mons(c.party) \notin PartyReply \ {Mons(c.party)}
  BY <1>3 DEF AnyReply
<1> HIDE DEF PartyReply, AnyReply
<1>5. /\ b.out \in Seq(AnyReply)
      /\ Free(c.out, PartyReply) => Single(b.out, PartyReply)
      /\ Free(c.out, PartyReply \ {Mons(c.party)}) => Free(b.out, PartyReply \ {Mons(c.party)})
  <2> DEFINE m == Mons(c.party)
             s == c.out
  <2>1. m \in AnyReply /\ m \notin PartyReply \ {m} /\ s \in Seq(AnyReply)
    BY <1>1, <1>4
  <2> HIDE DEF m, s
  <2>2. /\ Append(s, m) \in Seq(AnyReply)
        /\ Free(s, PartyReply) => Single(Append(s, m), PartyReply)
        /\ Free(s, PartyReply \ {m}) => Free(Append(s, m), PartyReply \ {m})
    BY <2>1, AppendIs, FreeAppend
  <2> QED
    BY <1>2, <2>2 DEF m, s
<1>6. IsConsole(b)
  BY <1>2, <1>5 DEF IsConsole, AnyReply, AtTable
<1>7. Head(d) \in PartyReq
  BY DEF PartyReq
<1>8. Asking(h, c, d, u) \/ Leaving(h, c, d, u)
  <2>1. ~NoReq(h, d)
    BY <1>7, DownTail
  <2> QED
    BY <2>1 DEF Stage, Apart, Choosing, Agreed, Owing
<1>9. CASE Asking(h, c, d, u)
  <2>1. NoReq(h, Tail(d)) /\ Down(h, Tail(d), {Mons(h.party)})
    BY <1>7, <1>9, DownTail DEF Asking
  <2>2. OneParty(b, u)
    <3>1. NoParty(c, u)
      BY <1>9 DEF Asking
    <3>2. Free(c.out, PartyReply \ {Mons(c.party)}) /\ Free(u, PartyReply \ {Mons(c.party)})
      BY <3>1 DEF NoParty, Free
    <3>3. Single(b.out, PartyReply) /\ Free(b.out, PartyReply \ {Mons(c.party)})
      BY <1>5, <3>1, <3>2 DEF NoParty
    <3> QED
      BY <1>2, <3>1, <3>2, <3>3, FreeIsSingle DEF NoParty, OneParty
  <2>3. MoveLast(u)
    BY <1>9 DEF Asking, Up, MoveLast, Free
  <2>4. Choosing(h, b, Tail(d), u)
    BY <1>2, <1>9, <2>1, <2>2, <2>3 DEF Asking, Choosing, AtMenu, Level
  <2>5. Same(h, c, b)
    BY <1>2, <1>9 DEF Same, Asking, Level
  <2> QED
    BY <1>6, <2>4, <2>5 DEF Heard, Stage
<1>10. CASE Leaving(h, c, d, u)
  <2>1. Leaving(h, b, Tail(d), u)
    BY <1>2, <1>10, DownTail, FlowsDown DEF Leaving, InTrade, Level
  <2>2. Same(h, c, b)
    BY <1>2, <1>10 DEF Same, Leaving, Level
  <2> QED
    BY <1>6, <2>1, <2>2 DEF Heard, Stage
<1> QED
  BY <1>8, <1>9, <1>10

LEMMA CmdIs ==
    /\ \A p : Mons(p).op = "block" /\ Mons(p).cmd = "party" /\ Mons(p).mons = p
    /\ \A cmd, s : /\ Select(cmd, s).op = "block" /\ Select(cmd, s).cmd = cmd
                   /\ Select(cmd, s).cursor = s
    /\ \A cmd : Block(cmd).op = "block" /\ Block(cmd).cmd = cmd
    /\ \A of : Req(of).op = "req" /\ Req(of).of = of
BY DEF Mons, Select, Block, Req

LEMMA LeavingHears ==
    ASSUME NEW h, NEW c, NEW d \in Seq(HostWord), d # << >>, NEW u, Leaving(h, c, d, u),
           IsConsole(c), NEW b, IsConsole(b), b.at \notin InTrade, b.party = c.party, b.round = c.round
    PROVE  Heard(h, c, b, Tail(d), u)
<1>1. Leaving(h, b, Tail(d), u)
  BY DownTail, FlowsDown DEF Leaving, Level
<1>2. Same(h, c, b)
  BY DEF Same, Leaving, Level
<1> QED
  BY <1>1, <1>2 DEF Heard, Stage

\* The host's party is on the console's screen.
LEMMA HearParty ==
    ASSUME NEW h, NEW c, NEW d, NEW u, IsHost(h), IsConsole(c), d \in Seq(HostWord), d # << >>,
           Stage(h, c, d, u), c.at = "partying", NEW p \in HostParty, Head(d) = Mons(p),
           NEW b, b = [goes(c, "menu") EXCEPT !.view = p]
    PROVE  Heard(h, c, b, Tail(d), u)
<1>1. DOMAIN c = ConsoleFields /\ c.at \in AtTable
  BY DEF IsConsole, AtTable
<1>2. Sits(c, b, "menu") /\ b.view = p
  BY <1>1 DEF ConsoleFields, goes, Sits
<1>3. /\ IsConsole(b) /\ b.at = "menu" /\ b.party = c.party /\ b.round = c.round
      /\ (NoParty(c, u) => NoParty(b, u)) /\ (OneParty(c, u) => OneParty(b, u))
      /\ (Level(h, c) => Level(h, b))
  BY <1>1, <1>2, SitsConsole DEF Sits
<1>4. Head(d) \in TradeWord
  BY PartyWords
<1>5. CASE Choosing(h, c, d, u)
  <2>1. Down(h, d, {Mons(h.party)}) /\ Up(u, {})
    BY <1>5 DEF Choosing, AtMenu
  <2>2. Mons(p) = Mons(h.party) /\ Down(h, Tail(d), {})
    BY <1>4, <2>1, DownTail
  <2>3. p = h.party
    BY <2>2, CmdIs
  <2>4. NoReq(h, Tail(d))
    BY <1>5, DownTail, FlowsDown DEF Choosing
  <2>5. Choosing(h, b, Tail(d), u)
    BY <1>2, <1>3, <1>5, <2>1, <2>2, <2>3, <2>4 DEF Choosing, AtMenu
  <2>6. Same(h, c, b)
    BY <1>3, <1>5 DEF Same, Choosing, Level
  <2> QED
    BY <1>3, <2>5, <2>6 DEF Heard, Stage
<1>6. CASE Leaving(h, c, d, u)
  BY <1>3, <1>6, LeavingHears DEF InTrade
<1> QED
  BY <1>5, <1>6 DEF Stage, Apart, Asking, Agreed, Answering, Watching, Owing, Before

\* The host's choice is on the console's screen.
LEMMA HearOffer ==
    ASSUME NEW h, NEW c, NEW d, NEW u, IsHost(h), IsConsole(c), d \in Seq(HostWord), d # << >>,
           Stage(h, c, d, u), c.at = "asked",
           NEW s \in DOMAIN HostMons, Head(d) = Select("SET_MONS_TO_TRADE", s),
           NEW b, b = [goes(c, "prompt") EXCEPT !.offer = s]
    PROVE  Heard(h, c, b, Tail(d), u)
<1>1. DOMAIN c = ConsoleFields /\ c.at \in AtTable
  BY DEF IsConsole, AtTable
<1>2. Sits(c, b, "prompt") /\ b.offer = s /\ b.view = c.view /\ b.cursor = c.cursor
  BY <1>1 DEF ConsoleFields, goes, Sits
<1>3. /\ IsConsole(b) /\ b.at = "prompt" /\ b.party = c.party /\ b.round = c.round
      /\ (NoParty(c, u) => NoParty(b, u)) /\ (Level(h, c) => Level(h, b))
  <2>1. Sits(c, b, "prompt")
    BY <1>2
  <2>2. /\ IsConsole(b) /\ (NoParty(c, u) => NoParty(b, u)) /\ (Level(h, c) => Level(h, b))
    BY <1>1, <2>1, SitsConsole
  <2> QED
    BY <2>1, <2>2 DEF Sits
<1>4. Head(d) \in TradeWord /\ Head(d) \in SwapWord
  BY PartyWords DEF SwapWord
<1>5. Agreed(h, c, d, u)
  <2>1. ~Down(h, d, {}) /\ ~NoneOf(h, d, SwapWord)
    BY <1>4, DownHead
  <2> QED
    BY <2>1 DEF Stage, Apart, Asking, Choosing, AtMenu, Owing, Leaving, Before
<1>6. Down(h, d, {set_mons(h)}) /\ Up(u, {}) /\ h.state = "CONFIRM"
  BY <1>5 DEF Agreed, Answering, Watching
<1>7. Head(d) = set_mons(h) /\ Down(h, Tail(d), {}) /\ NoReq(h, Tail(d))
  BY <1>4, <1>5, <1>6, DownTail, FlowsDown DEF Agreed
<1>8. s = Offered[h.round + 1]
  BY <1>7, CmdIs DEF set_mons
<1>9. Agreed(h, b, Tail(d), u)
  BY <1>2, <1>3, <1>5, <1>6, <1>7, <1>8 DEF Agreed, Answering
<1>10. Same(h, c, b)
  BY <1>3, <1>5 DEF Same, Agreed, Level
<1> QED
  BY <1>3, <1>9, <1>10 DEF Heard, Stage

\* The trade starts on the console.
LEMMA HearStart ==
    ASSUME NEW h, NEW c, NEW d, NEW u, IsHost(h), IsConsole(c), d \in Seq(HostWord), d # << >>,
           Stage(h, c, d, u), c.at = "started", Head(d) = Block("START_TRADE"),
           NEW b, b = goes(c, "anim")
    PROVE  Heard(h, c, b, Tail(d), u)
<1>1. DOMAIN c = ConsoleFields /\ c.at \in AtTable
  BY DEF IsConsole, AtTable
<1>2. Sits(c, b, "anim") /\ b.offer = c.offer /\ b.view = c.view /\ b.cursor = c.cursor
  BY <1>1, SitsIs
<1>3. /\ IsConsole(b) /\ b.at = "anim" /\ b.party = c.party /\ b.round = c.round
      /\ (NoParty(c, u) => NoParty(b, u)) /\ (Level(h, c) => Level(h, b))
  BY <1>1, <1>2, SitsConsole DEF Sits
<1>4. Head(d) \in TradeWord /\ Head(d) \in SwapWord
  BY PartyWords DEF SwapWord
<1>5. Agreed(h, c, d, u)
  <2>1. ~Down(h, d, {}) /\ ~NoneOf(h, d, SwapWord)
    BY <1>4, DownHead
  <2> QED
    BY <2>1 DEF Stage, Apart, Asking, Choosing, AtMenu, Owing, Leaving, Before
<1>6. ~Down(h, d, {})
  BY <1>4, DownHead
<1>7. Down(h, d, {Block("START_TRADE")}) /\ Up(u, {}) /\ h.state = "ANIM" /\ ~h.child_finish
  BY <1>5, <1>6 DEF Agreed, Answering, Watching
<1>8. Down(h, Tail(d), {}) /\ NoReq(h, Tail(d))
  BY <1>4, <1>5, <1>7, DownTail, FlowsDown DEF Agreed
<1>9. Agreed(h, b, Tail(d), u)
  BY <1>2, <1>3, <1>5, <1>7, <1>8 DEF Agreed, Watching
<1>10. Same(h, c, b)
  BY <1>3, <1>5 DEF Same, Agreed, Level
<1> QED
  BY <1>3, <1>9, <1>10 DEF Heard, Stage

\* A cancel is answered, or the host leaves too.
LEMMA HearCancel ==
    ASSUME NEW h, NEW c, NEW d, NEW u, IsHost(h), IsConsole(c), d \in Seq(HostWord), d # << >>,
           Stage(h, c, d, u), c.at \in {"cancelling", "declined", "asked"},
           \/ Head(d) = Block("PARTNER_CANCEL_TRADE") /\ c.at # "asked"
           \/ Head(d) = Block("PLAYER_CANCEL_TRADE"),
           NEW b, b = nothingCame(c)
    PROVE  Heard(h, c, b, Tail(d), u)
<1>1. DOMAIN c = ConsoleFields /\ c.at \in AtTable
  BY DEF IsConsole, AtTable
<1>2. Sits(c, b, "menu") /\ b.view = c.view
  BY <1>1, SitsIs
<1>3. /\ IsConsole(b) /\ b.at = "menu" /\ b.party = c.party /\ b.round = c.round
      /\ (NoParty(c, u) => NoParty(b, u)) /\ (OneParty(c, u) => OneParty(b, u))
      /\ (Level(h, c) => Level(h, b))
  BY <1>1, <1>2, SitsConsole DEF Sits
<1>4. Head(d) \in TradeWord /\ Head(d) # set_mons(h)
  <2>1. Head(d) \in TradeWord
    BY DEF TradeWord
  <2>2. Head(d).cmd # set_mons(h).cmd
    BY CmdIs DEF set_mons
  <2> QED
    BY <2>1, <2>2
<1>5. \A A : Down(h, d, A) => Head(d) \in A /\ Down(h, Tail(d), {})
  BY <1>4, DownTail
<1>6. ~Down(h, d, {}) /\ ~Down(h, d, {set_mons(h)})
  BY <1>4, <1>5
<1>7. CASE Choosing(h, c, d, u)
  <2>1. Down(h, d, {Block("PARTNER_CANCEL_TRADE")}) /\ Up(u, {}) /\ c.view = h.party
    BY <1>6, <1>7 DEF Choosing, AtMenu
  <2>2. Down(h, Tail(d), {}) /\ NoReq(h, Tail(d))
    BY <1>5, <1>7, <2>1, DownTail, FlowsDown DEF Choosing
  <2>3. Choosing(h, b, Tail(d), u)
    BY <1>2, <1>3, <1>7, <2>1, <2>2 DEF Choosing, AtMenu
  <2>4. Same(h, c, b)
    BY <1>3, <1>7 DEF Same, Choosing, Level
  <2> QED
    BY <1>3, <2>3, <2>4 DEF Heard, Stage
<1>8. CASE Leaving(h, c, d, u)
  BY <1>3, <1>8, LeavingHears DEF InTrade
<1> QED
  BY <1>6, <1>7, <1>8 DEF Stage, Apart, Asking, Agreed, Answering, Watching, Owing, Before

\* Both are on their way out.
LEMMA HearBoth ==
    ASSUME NEW h, NEW c, NEW d, NEW u, IsHost(h), IsConsole(c), d \in Seq(HostWord), d # << >>,
           Stage(h, c, d, u), c.at = "cancelling", Head(d) = Block("BOTH_CANCEL_TRADE"),
           NEW b, b = [goes(c, "left") EXCEPT !.todo = 2]
    PROVE  Heard(h, c, b, Tail(d), u)
<1>1. DOMAIN c = ConsoleFields
  BY DEF IsConsole
<1>2. /\ DOMAIN b = ConsoleFields /\ b.at = "left" /\ b.out = c.out /\ b.party = c.party
      /\ b.round = c.round /\ b.count = c.count /\ b.todo = 2 /\ b.pending = c.pending
  BY <1>1 DEF ConsoleFields, goes
<1>3. IsConsole(b)
  BY <1>2 DEF IsConsole, AtTable
<1>4. Head(d) \in TradeWord /\ Head(d) # Block("PARTNER_CANCEL_TRADE")
  <2>1. Head(d) \in TradeWord
    BY DEF TradeWord
  <2>2. Head(d).cmd # Block("PARTNER_CANCEL_TRADE").cmd
    BY CmdIs
  <2> QED
    BY <2>1, <2>2
<1>5. ~Down(h, d, {}) /\ ~Down(h, d, {Block("PARTNER_CANCEL_TRADE")})
  <2>1. \A A : Down(h, d, A) => Head(d) \in A
    BY <1>4, DownTail
  <2> QED
    BY <1>4, <2>1
<1>6. Leaving(h, c, d, u)
  BY <1>5 DEF Stage, Apart, Asking, Choosing, AtMenu, Agreed, Answering, Watching, Owing, Before
<1> QED
  BY <1>2, <1>3, <1>6, LeavingHears DEF InTrade

\* What onBlock answers for the words of a trade.
LEMMA BlockHeard ==
    ASSUME NEW c, NEW w, Waits(c, w), w.op = "block", NEW b \in heard(c, w)
    PROVE  /\ w.cmd = "party" => c.at = "partying" /\ b = [goes(c, "menu") EXCEPT !.view = w.mons]
           /\ w.cmd = "SET_MONS_TO_TRADE" =>
                c.at = "asked" /\ b = [goes(c, "prompt") EXCEPT !.offer = w.cursor]
           /\ w.cmd = "START_TRADE" => c.at = "started" /\ b = goes(c, "anim")
           /\ w.cmd = "CONFIRM_FINISH_TRADE" => c.at = "finishing" /\ b = swapped(c)
           /\ w.cmd = "BOTH_CANCEL_TRADE" =>
                c.at = "cancelling" /\ b = [goes(c, "left") EXCEPT !.todo = 2]
           /\ w.cmd = "PARTNER_CANCEL_TRADE" => c.at \in {"cancelling", "declined"} /\ b = nothingCame(c)
           /\ w.cmd = "PLAYER_CANCEL_TRADE" =>
                c.at \in {"cancelling", "declined", "asked"} /\ b = nothingCame(c)
<1>1. b \in onBlock(c, w)
  BY DEF heard
<1>2. /\ w.cmd = "party" => b = [goes(c, "menu") EXCEPT !.view = w.mons]
      /\ w.cmd = "SET_MONS_TO_TRADE" => b = [goes(c, "prompt") EXCEPT !.offer = w.cursor]
      /\ w.cmd = "START_TRADE" => b = goes(c, "anim")
      /\ w.cmd = "CONFIRM_FINISH_TRADE" => b = swapped(c)
      /\ w.cmd = "BOTH_CANCEL_TRADE" => b = [goes(c, "left") EXCEPT !.todo = 2]
      /\ w.cmd = "PARTNER_CANCEL_TRADE" => b = nothingCame(c)
      /\ w.cmd = "PLAYER_CANCEL_TRADE" => b = nothingCame(c)
  BY <1>1 DEF onBlock
<1> QED
  BY <1>2, WaitsIs

\* A word lands on the console: the trade goes on, or the console commits.
LEMMA HearStep ==
    ASSUME NEW h, NEW c, NEW d, NEW u, InvOf(h, c, d, u), d # << >>, NEW b \in heard(c, Head(d))
    PROVE  InvOf(h, b, Tail(d), u) /\ (Same(h, c, b) \/ Swaps(h, c, b))
<1> DEFINE w == Head(d)
<1>1. /\ IsHost(h) /\ IsConsole(c) /\ d \in Seq(HostWord) /\ u \in Seq(Slot) /\ Stage(h, c, d, u)
      /\ w \in HostWord /\ Tail(d) \in Seq(HostWord)
  BY TailIs DEF InvOf
<1>2. SUFFICES Heard(h, c, b, Tail(d), u)
  BY <1>1 DEF InvOf, Heard
<1>3. Stage(h, c, Tail(d), u)
  BY <1>1, DownTail, StageKept DEF Alike
<1>4. ASSUME Roams(c, b) PROVE Heard(h, c, b, Tail(d), u)
  <2>1. Stage(h, b, Tail(d), u)
    BY <1>1, <1>3, <1>4, RoamKeeps
  <2> QED
    BY <1>4, <2>1 DEF Heard, Same, Roams
<1>5. CASE ~Waits(c, w)
  <2>1. b = c
    BY <1>5 DEF heard
  <2> QED
    BY <1>1, <1>4, <2>1, RoamSame
<1>6. CASE w \in RoamWord
  BY <1>1, <1>4, <1>6, HearOther
<1>7. CASE Waits(c, w) /\ w = Req("party")
  <2>1. w.op = "req" /\ w.of = "party"
    BY <1>7, CmdIs
  <2>2. c.at = "party" /\ b = replies(goes(c, "partying"), Mons(c.party))
    <3> DEFINE places == [link_player |-> "link", card |-> "card", party |-> "party"]
    <3>1. places["party"] = "party"
      OBVIOUS
    <3>2. c.at = places[w.of]
      BY <1>7, <2>1 DEF Waits
    <3>3. c.at = "party"
      BY <2>1, <3>1, <3>2
    <3> HIDE DEF places, w
    <3>4. b \in {onReq(c, "party")}
      BY <1>7, <2>1 DEF heard, w
    <3>5. b = replies(goes(c, "partying"), Mons(c.party))
      BY <3>4 DEF onReq
    <3> QED
      BY <3>3, <3>5
  <2> QED
    BY <1>1, <1>7, <2>2, HearReq
<1>8. ASSUME Waits(c, w), NEW p \in HostParty, w = Mons(p) PROVE Heard(h, c, b, Tail(d), u)
  <2>1. w.op = "block" /\ w.cmd = "party" /\ w.mons = p
    BY <1>8, CmdIs
  <2>2. c.at = "partying" /\ b = [goes(c, "menu") EXCEPT !.view = p]
    BY <1>8, <2>1, BlockHeard
  <2> QED
    BY <1>1, <1>8, <2>2, HearParty
<1>9. ASSUME Waits(c, w), NEW s \in DOMAIN HostMons, w = Select("SET_MONS_TO_TRADE", s)
      PROVE  Heard(h, c, b, Tail(d), u)
  <2>1. w.op = "block" /\ w.cmd = "SET_MONS_TO_TRADE" /\ w.cursor = s
    BY <1>9, CmdIs
  <2>2. c.at = "asked" /\ b = [goes(c, "prompt") EXCEPT !.offer = s]
    BY <1>9, <2>1, BlockHeard
  <2> QED
    BY <1>1, <1>9, <2>2, HearOffer
<1>10. CASE Waits(c, w) /\ w = Block("START_TRADE")
  <2>1. w.op = "block" /\ w.cmd = "START_TRADE"
    BY <1>10, CmdIs
  <2>2. c.at = "started" /\ b = goes(c, "anim")
    BY <1>10, <2>1, BlockHeard
  <2> QED
    BY <1>1, <1>10, <2>2, HearStart
<1>11. CASE Waits(c, w) /\ w = Block("CONFIRM_FINISH_TRADE")
  <2>1. w.op = "block" /\ w.cmd = "CONFIRM_FINISH_TRADE"
    BY <1>11, CmdIs
  <2>2. c.at = "finishing" /\ b = swapped(c)
    BY <1>11, <2>1, BlockHeard
  <2> QED
    BY <1>1, <1>11, <2>2, HearFinish
<1>12. CASE Waits(c, w) /\ w = Block("BOTH_CANCEL_TRADE")
  <2>1. w.op = "block" /\ w.cmd = "BOTH_CANCEL_TRADE"
    BY <1>12, CmdIs
  <2>2. c.at = "cancelling" /\ b = [goes(c, "left") EXCEPT !.todo = 2]
    BY <1>12, <2>1, BlockHeard
  <2> QED
    BY <1>1, <1>12, <2>2, HearBoth
<1>13. CASE Waits(c, w) /\ w = Block("PARTNER_CANCEL_TRADE")
  <2>1. w.op = "block" /\ w.cmd = "PARTNER_CANCEL_TRADE"
    BY <1>13, CmdIs
  <2>2. c.at \in {"cancelling", "declined"} /\ b = nothingCame(c)
    BY <1>13, <2>1, BlockHeard
  <2> QED
    BY <1>1, <1>13, <2>2, HearCancel
<1>14. CASE Waits(c, w) /\ w = Block("PLAYER_CANCEL_TRADE")
  <2>1. w.op = "block" /\ w.cmd = "PLAYER_CANCEL_TRADE"
    BY <1>14, CmdIs
  <2>2. c.at \in {"cancelling", "declined", "asked"} /\ b = nothingCame(c)
    BY <1>14, <2>1, BlockHeard
  <2> QED
    BY <1>1, <1>14, <2>2, HearCancel
<1>15. \/ w \in RoamWord \/ w = Req("party") \/ \E p \in HostParty : w = Mons(p)
       \/ \E s \in DOMAIN HostMons : w = Select("SET_MONS_TO_TRADE", s)
       \/ w \in {Block("START_TRADE"), Block("CONFIRM_FINISH_TRADE"), Block("BOTH_CANCEL_TRADE"),
                 Block("PARTNER_CANCEL_TRADE"), Block("PLAYER_CANCEL_TRADE")}
  <2> HIDE DEF w, OtherWord
  <2> QED
    BY <1>1 DEF HostWord, PartyReq, HostBlock, TradeWord, SwapWord, RoamWord, PlainBlock
<1> QED
  BY <1>5, <1>6, <1>7, <1>8, <1>9, <1>10, <1>11, <1>12, <1>13, <1>14, <1>15

-----------------------------------------------------------------------------
(* The console sends a slot.                                               *)

LEMMA UpAppend ==
    ASSUME NEW u \in Seq(Slot), NEW e \in Slot
    PROVE  /\ Append(u, e) \in Seq(Slot)
           /\ \A W : Free(u, W) /\ e \notin W => Free(Append(u, e), W)
           /\ \A W : Single(u, W) /\ e \notin W => Single(Append(u, e), W)
           /\ \A W : Free(u, W) => Single(Append(u, e), W)
           /\ e \notin Move => \A A : Up(u, A) => Up(Append(u, e), A)
           /\ Up(u, {}) => Up(Append(u, e), {e})
           /\ e \notin Repeated => (MoveLast(u) => MoveLast(Append(u, e)))
<1> DEFINE v == Append(u, e)
<1>1. /\ \A W : Free(u, W) /\ e \notin W => Free(v, W)
      /\ \A W : Single(u, W) /\ e \notin W => Single(v, W)
      /\ \A W : Free(u, W) => Single(v, W)
  BY FreeAppend
<1>2. /\ v \in Seq(Slot) /\ Len(u) \in Nat /\ Len(v) = Len(u) + 1
      /\ \A n \in 1 .. Len(u) : v[n] = u[n]
      /\ v[Len(u) + 1] = e
  BY AppendIs
<1> HIDE DEF v
<1>3. e \notin Move => \A A : Up(u, A) => Up(v, A)
  BY <1>1 DEF Up
<1>4. Up(u, {}) => Up(v, {e})
  <2> SUFFICES ASSUME Up(u, {}) PROVE Up(v, {e})
    OBVIOUS
  <2>1. Move \ {} = Move /\ e \notin Move \ {e}
    OBVIOUS
  <2>2. Free(u, Move) /\ Free(u, Move \ {e})
    BY <2>1, FreeWithin DEF Up, Free
  <2> QED
    BY <1>1, <2>1, <2>2 DEF Up
<1>5. e \notin Repeated => (MoveLast(u) => MoveLast(v))
  <2> DEFINE L == Len(u)
  <2>1. \A n \in 1 .. L + 1 : n \in 1 .. L \/ n = L + 1
    BY <1>2
  <2>2. \A n, m \in 1 .. L + 1 : n < m => n \in 1 .. L
    BY <1>2
  <2> QED
    BY <1>2, <2>1, <2>2 DEF MoveLast
<1> QED
  BY <1>1, <1>2, <1>3, <1>4, <1>5 DEF v

\* An idle slot, a standby or a reply out of the trade.
LEMMA SlotPlain ==
    ASSUME NEW h, NEW c, NEW d, NEW u \in Seq(Slot), IsConsole(c), Stage(h, c, d, u),
           NEW e \in {Idle} \cup Repeated \cup OtherReply, e \in Repeated => c.todo > 0
    PROVE  Stage(h, c, d, Append(u, e)) /\ Append(u, e) \in Seq(Slot)
<1>1. e \in Slot /\ e \notin Move /\ e \notin PartyReply /\ e \notin PartyReply \ {Mons(c.party)}
  <2>1. /\ PartyReply \cap OtherReply = {} /\ OtherReply \subseteq AnyReply
        /\ PartyReply \subseteq AnyReply
    BY RepliesApart DEF AnyReply
  <2> HIDE DEF Idle, Repeated, PartyReply, OtherReply, AnyReply, Move, Slot
  <2> QED
    BY <2>1, RepliesApart
<1>2. c.at \in AtTable => e \notin Repeated
  BY DEF IsConsole
<1> DEFINE v == Append(u, e)
<1>3. /\ v \in Seq(Slot)
      /\ \A W : Free(u, W) /\ e \notin W => Free(v, W)
      /\ \A W : Single(u, W) /\ e \notin W => Single(v, W)
      /\ \A A : Up(u, A) => Up(v, A)
      /\ e \notin Repeated => (MoveLast(u) => MoveLast(v))
  BY <1>1, UpAppend
<1> HIDE DEF v, Repeated, PartyReply, OtherReply
<1>4. (NoParty(c, u) => NoParty(c, v)) /\ (OneParty(c, u) => OneParty(c, v))
  BY <1>1, <1>3 DEF NoParty, OneParty
<1>5. Apart(h, c, d, u) => Apart(h, c, d, v)
  BY <1>3, <1>4 DEF Apart
<1>6. Asking(h, c, d, u) => Asking(h, c, d, v)
  BY <1>3, <1>4 DEF Asking
<1>7. Choosing(h, c, d, u) => Choosing(h, c, d, v)
  <2>1. AtMenu(h, c, d, u) => AtMenu(h, c, d, v) /\ c.at \in AtTable
    BY <1>3 DEF AtMenu, AtTable
  <2> QED
    BY <1>2, <1>3, <1>4, <2>1 DEF Choosing
<1>8. Agreed(h, c, d, u) => Agreed(h, c, d, v)
  <2>1. Answering(h, c, d, u) => Answering(h, c, d, v) /\ c.at \in AtTable
    BY <1>3 DEF Answering, AtTable
  <2>2. Watching(h, c, d, u) => Watching(h, c, d, v) /\ c.at \in AtTable
    BY <1>3 DEF Watching, AtTable
  <2> QED
    BY <1>2, <1>3, <1>4, <2>1, <2>2 DEF Agreed
<1>9. Owing(h, c, d, u) => Owing(h, c, d, v)
  BY <1>2, <1>3, <1>4 DEF Owing, AtTable
<1>10. Leaving(h, c, d, u) => Leaving(h, c, d, v)
  BY DEF Leaving
<1> QED
  BY <1>3, <1>5, <1>6, <1>7, <1>8, <1>9, <1>10 DEF Stage, v

\* The next reply goes out.
LEMMA ReplyStep ==
    ASSUME NEW h, NEW c, NEW d, NEW u, InvOf(h, c, d, u), c.out # << >>,
           NEW b, b = [c EXCEPT !.out = Tail(@)]
    PROVE  InvOf(h, b, d, Append(u, Head(c.out))) /\ Same(h, c, b)
<1> DEFINE e == Head(c.out)
           v == Append(u, e)
           own == PartyReply \ {Mons(c.party)}
<1>1. /\ IsHost(h) /\ IsConsole(c) /\ d \in Seq(HostWord) /\ u \in Seq(Slot) /\ Stage(h, c, d, u)
      /\ DOMAIN c = ConsoleFields /\ c.out \in Seq(AnyReply)
  BY DEF InvOf, IsConsole, AnyReply
<1>2. /\ DOMAIN b = ConsoleFields /\ b.out = Tail(c.out) /\ b.at = c.at /\ b.party = c.party
      /\ b.view = c.view /\ b.cursor = c.cursor /\ b.offer = c.offer /\ b.round = c.round
      /\ b.count = c.count /\ b.todo = c.todo /\ b.pending = c.pending
  BY <1>1 DEF ConsoleFields
<1>3. /\ e \in AnyReply /\ b.out \in Seq(AnyReply)
      /\ \A W : Free(c.out, W) => Free(b.out, W) /\ e \notin W
      /\ \A W : Single(c.out, W) => Single(b.out, W)
      /\ \A W : Single(c.out, W) /\ e \in W => Free(b.out, W)
  <2> HIDE DEF AnyReply
  <2> QED
    BY <1>1, <1>2, TailIs, FreeTail
<1>4. e \in Slot /\ e \notin Move /\ e \notin Repeated
  <2> HIDE DEF AnyReply, Slot, Move, Repeated, e
  <2> QED
    BY <1>3, RepliesApart
<1> HIDE DEF e, v, PartyReply, OtherReply, Move, Repeated, Slot
<1>5. /\ v \in Seq(Slot)
      /\ \A W : Free(u, W) /\ e \notin W => Free(v, W)
      /\ \A W : Single(u, W) /\ e \notin W => Single(v, W)
      /\ \A W : Free(u, W) => Single(v, W)
      /\ \A A : Up(u, A) => Up(v, A)
      /\ MoveLast(u) => MoveLast(v)
  BY <1>1, <1>4, UpAppend DEF v
<1>6. IsConsole(b)
  BY <1>1, <1>2, <1>3 DEF IsConsole, AnyReply
<1>7. NoParty(c, u) => NoParty(b, v)
  BY <1>3, <1>5 DEF NoParty
<1>8. OneParty(c, u) => OneParty(b, v)
  <2> SUFFICES ASSUME OneParty(c, u) PROVE OneParty(b, v)
    OBVIOUS
  <2>1. /\ Single(u, PartyReply) /\ Single(c.out, PartyReply)
        /\ Free(u, PartyReply) \/ Free(c.out, PartyReply)
        /\ Free(u, own) /\ Free(c.out, own)
    BY DEF OneParty
  <2> HIDE DEF own
  <2>2. Free(v, own) /\ Free(b.out, own) /\ Single(b.out, PartyReply)
    BY <1>3, <1>5, <2>1
  <2>3. CASE e \in PartyReply
    <3>1. Free(u, PartyReply) /\ Free(b.out, PartyReply)
      BY <1>3, <2>1, <2>3
    <3>2. Single(v, PartyReply)
      BY <1>5, <3>1
    <3> QED
      BY <1>2, <2>2, <3>1, <3>2 DEF OneParty, own
  <2>4. CASE e \notin PartyReply
    <3>1. Single(v, PartyReply) /\ (Free(v, PartyReply) \/ Free(b.out, PartyReply))
      BY <1>3, <1>5, <2>1, <2>4
    <3> QED
      BY <1>2, <2>2, <3>1 DEF OneParty, own
  <2> QED
    BY <2>3, <2>4
<1>9. Level(h, c) => Level(h, b)
  BY <1>2 DEF Level
<1>10. Apart(h, c, d, u) => Apart(h, b, d, v)
  BY <1>2, <1>5, <1>7, <1>9 DEF Apart
<1>11. Asking(h, c, d, u) => Asking(h, b, d, v)
  BY <1>2, <1>5, <1>7, <1>9 DEF Asking
<1>12. Choosing(h, c, d, u) => Choosing(h, b, d, v)
  <2>1. AtMenu(h, c, d, u) => AtMenu(h, b, d, v)
    BY <1>2, <1>5 DEF AtMenu
  <2> QED
    BY <1>2, <1>5, <1>7, <1>8, <1>9, <2>1 DEF Choosing
<1>13. Agreed(h, c, d, u) => Agreed(h, b, d, v)
  <2>1. Answering(h, c, d, u) => Answering(h, b, d, v)
    BY <1>2, <1>5 DEF Answering
  <2>2. Watching(h, c, d, u) => Watching(h, b, d, v)
    BY <1>2, <1>5 DEF Watching
  <2> QED
    BY <1>2, <1>4, <1>5, <1>7, <1>9, <2>1, <2>2 DEF Agreed
<1>14. Owing(h, c, d, u) => Owing(h, b, d, v)
  BY <1>2, <1>4, <1>5, <1>7 DEF Owing
<1>15. Leaving(h, c, d, u) => Leaving(h, b, d, v)
  BY <1>2, <1>9 DEF Leaving
<1>16. Stage(h, b, d, v)
  BY <1>1, <1>10, <1>11, <1>12, <1>13, <1>14, <1>15 DEF Stage
<1>17. Same(h, c, b)
  BY <1>2 DEF Same
<1> QED
  BY <1>1, <1>5, <1>6, <1>16, <1>17 DEF InvOf, v, e

\* A standby, an idle slot or the second EXIT: nothing of the trade.
LEMMA PlainStep ==
    ASSUME NEW h, NEW c, NEW d, NEW u, InvOf(h, c, d, u),
           NEW e \in {Idle} \cup Repeated \cup OtherReply, e \in Repeated => c.todo > 0,
           NEW b, Roams(c, b)
    PROVE  InvOf(h, b, d, Append(u, e)) /\ Same(h, c, b)
<1>1. /\ IsHost(h) /\ IsConsole(c) /\ d \in Seq(HostWord) /\ u \in Seq(Slot) /\ Stage(h, c, d, u)
  BY DEF InvOf
<1>2. Stage(h, c, d, Append(u, e)) /\ Append(u, e) \in Seq(Slot)
  BY <1>1, SlotPlain
<1>3. Stage(h, b, d, Append(u, e))
  BY <1>1, <1>2, RoamKeeps
<1> QED
  BY <1>1, <1>2, <1>3 DEF InvOf, Roams, Same

LEMMA StandbyStep ==
    ASSUME NEW h, NEW c, NEW d, NEW u, InvOf(h, c, d, u), c.todo > 0,
           NEW b, b = [c EXCEPT !.pending = TRUE, !.quiet = 0]
    PROVE  InvOf(h, b, d, Append(u, Standby(c.count))) /\ Same(h, c, b)
<1>1. IsConsole(c) /\ DOMAIN c = ConsoleFields /\ c.count \in Nat
  BY DEF InvOf, IsConsole
<1>2. /\ DOMAIN b = ConsoleFields /\ b.out = c.out /\ b.at = c.at /\ b.party = c.party
      /\ b.view = c.view /\ b.cursor = c.cursor /\ b.offer = c.offer /\ b.round = c.round
      /\ b.count = c.count /\ b.todo = c.todo
  BY <1>1 DEF ConsoleFields
<1>3. Grows(c.out, b.out, OtherReply)
  BY <1>2 DEF Grows
<1>4. Roams(c, b)
  <2>1. b.count \in Nat /\ b.todo \in Nat /\ (b.pending => b.todo > 0) /\ (b.at \in AtTable => b.todo = 0)
    BY <1>1, <1>2 DEF IsConsole
  <2> QED
    BY <1>1, <1>2, <1>3, <2>1, RoamBy
<1>5. Standby(c.count) \in Repeated
  BY <1>1 DEF Repeated
<1> QED
  BY <1>4, <1>5, PlainStep

LEMMA IdleStep ==
    ASSUME NEW h, NEW c, NEW d, NEW u, InvOf(h, c, d, u), NEW n,
           NEW b, b = [c EXCEPT !.quiet = n]
    PROVE  InvOf(h, b, d, Append(u, Idle)) /\ Same(h, c, b)
<1>1. IsConsole(c) /\ DOMAIN c = ConsoleFields
  BY DEF InvOf, IsConsole
<1>2. /\ DOMAIN b = ConsoleFields /\ b.out = c.out /\ b.at = c.at /\ b.party = c.party
      /\ b.view = c.view /\ b.cursor = c.cursor /\ b.offer = c.offer /\ b.round = c.round
      /\ b.count = c.count /\ b.todo = c.todo /\ b.pending = c.pending
  BY <1>1 DEF ConsoleFields
<1>3. Grows(c.out, b.out, OtherReply)
  BY <1>2 DEF Grows
<1>4. Roams(c, b)
  <2>1. b.count \in Nat /\ b.todo \in Nat /\ (b.pending => b.todo > 0) /\ (b.at \in AtTable => b.todo = 0)
    BY <1>1, <1>2 DEF IsConsole
  <2> QED
    BY <1>1, <1>2, <1>3, <2>1, RoamBy
<1>5. Idle \notin Repeated
  BY RepliesApart
<1> QED
  BY <1>4, <1>5, PlainStep

LEMMA ExitStep ==
    ASSUME NEW h, NEW c, NEW d, NEW u, InvOf(h, c, d, u), c.at = "field",
           NEW b, b = goes(c, "exiting")
    PROVE  InvOf(h, b, d, Append(u, Key("EXIT"))) /\ Same(h, c, b)
<1>1. IsConsole(c) /\ DOMAIN c = ConsoleFields /\ c.count \in Nat /\ c.todo \in Nat
  BY DEF InvOf, IsConsole
<1>2. Key("EXIT") \in OtherReply /\ Key("EXIT") \notin Repeated
  <2>1. Key("EXIT").op = "key"
    BY DEF Key
  <2>2. Key("EXIT") \in OtherReply
    BY DEF OtherReply
  <2> QED
    BY <2>1, <2>2, SlotKinds
<1>3. Moved(c, b, "exiting")
  BY <1>1, <1>2, SaysMoved
<1>4. Roams(c, b)
  BY <1>1, <1>3, MovedRoams DEF Away, Before, AtTable
<1> QED
  BY <1>2, <1>4, PlainStep

\* A move of the console is one slot of its own.
LEMMA MoveIs ==
    ASSUME NEW e \in Move, NEW u \in Seq(Slot), Up(u, {})
    PROVE  /\ Append(u, e) \in Seq(Slot) /\ Up(Append(u, e), {e})
           /\ MoveLast(u) => MoveLast(Append(u, e))
           /\ \A c : NoParty(c, u) => NoParty(c, Append(u, e))
           /\ \A c : OneParty(c, u) => OneParty(c, Append(u, e))
           /\ Free(u, Repeated) => Free(Append(u, e), Repeated)
<1>1. e \in Slot /\ e \notin Repeated /\ e \notin PartyReply /\ \A p : e \notin PartyReply \ {Mons(p)}
  <2>1. PartyReply \subseteq AnyReply
    BY DEF AnyReply
  <2> HIDE DEF Move, PartyReply, AnyReply, Slot, Repeated
  <2> QED
    BY <2>1, RepliesApart
<1>2. /\ Append(u, e) \in Seq(Slot)
      /\ \A W : Free(u, W) /\ e \notin W => Free(Append(u, e), W)
      /\ \A W : Single(u, W) /\ e \notin W => Single(Append(u, e), W)
      /\ Up(Append(u, e), {e})
      /\ MoveLast(u) => MoveLast(Append(u, e))
  BY <1>1, UpAppend
<1> HIDE DEF Move, PartyReply, Slot, Repeated
<1> QED
  BY <1>1, <1>2 DEF NoParty, OneParty

LEMMA LeavingMoves ==
    ASSUME NEW h, NEW c, NEW d, NEW u, Leaving(h, c, d, u), NEW v,
           NEW b, b.at \notin InTrade, b.party = c.party, b.round = c.round
    PROVE  Stage(h, b, d, v) /\ Same(h, c, b)
BY DEF Leaving, Stage, Same, Level

\* At the menu the player chooses a Pokemon.
LEMMA AskStep ==
    ASSUME NEW h, NEW c, NEW d, NEW u, InvOf(h, c, d, u), c.at = "menu", NEW s \in DOMAIN c.party,
           NEW b, b = [goes(c, "asked") EXCEPT !.cursor = s]
    PROVE  InvOf(h, b, d, Append(u, Select("READY_TO_TRADE", s))) /\ Same(h, c, b)
<1> DEFINE e == Select("READY_TO_TRADE", s)
           v == Append(u, e)
<1>1. /\ IsHost(h) /\ IsConsole(c) /\ d \in Seq(HostWord) /\ u \in Seq(Slot) /\ Stage(h, c, d, u)
      /\ DOMAIN c = ConsoleFields /\ c.at \in AtTable /\ s \in DOMAIN ChildMons
  BY DEF InvOf, IsConsole, AtTable, ChildParty
<1>2. Sits(c, b, "asked") /\ b.view = c.view /\ b.cursor = s
  BY <1>1 DEF ConsoleFields, goes, Sits
<1>3. b.at = "asked" /\ b.party = c.party /\ b.round = c.round
  BY <1>2 DEF Sits
<1>4. /\ IsConsole(b) /\ (Level(h, c) => Level(h, b))
      /\ \A w : (NoParty(c, w) => NoParty(b, w)) /\ (OneParty(c, w) => OneParty(b, w))
  BY <1>1, <1>2, SitsConsole
<1>5. e \in Move
  BY <1>1 DEF Move
<1>6. v \in Seq(Slot)
  <2>1. e \in Slot
    BY <1>5 DEF Slot
  <2> HIDE DEF e, Slot
  <2> QED
    BY <1>1, <2>1, AppendIs
<1> HIDE DEF v
<1>7. CASE Choosing(h, c, d, u)
  <2>1. Down(h, d, {}) /\ Up(u, {}) /\ c.view = h.party
    BY <1>7 DEF Choosing, AtMenu
  <2>2. /\ Up(v, {e}) /\ (MoveLast(u) => MoveLast(v))
        /\ (NoParty(c, u) => NoParty(b, v)) /\ (OneParty(c, u) => OneParty(b, v))
    <3> HIDE DEF e, Move
    <3> QED
      BY <1>1, <1>4, <1>5, <2>1, MoveIs DEF v
  <2>3. Choosing(h, b, d, v)
    BY <1>1, <1>2, <1>3, <1>4, <1>7, <2>1, <2>2 DEF Choosing, AtMenu
  <2>4. Same(h, c, b)
    BY <1>3, <1>7 DEF Same, Choosing, Level
  <2> QED
    BY <1>1, <1>4, <1>6, <2>3, <2>4 DEF InvOf, Stage, v
<1>8. CASE Leaving(h, c, d, u)
  <2>1. Stage(h, b, d, v) /\ Same(h, c, b)
    BY <1>3, <1>8, LeavingMoves DEF InTrade
  <2> QED
    BY <1>1, <1>4, <1>6, <2>1 DEF InvOf, v
<1> QED
  BY <1>1, <1>7, <1>8 DEF Stage, Apart, Asking, Agreed, Answering, Watching, Owing, Before

\* Or gives it up.
LEMMA GiveUpStep ==
    ASSUME NEW h, NEW c, NEW d, NEW u, InvOf(h, c, d, u), c.at = "menu",
           NEW b, b = goes(c, "cancelling")
    PROVE  InvOf(h, b, d, Append(u, Block("REQUEST_CANCEL"))) /\ Same(h, c, b)
<1> DEFINE e == Block("REQUEST_CANCEL")
           v == Append(u, e)
<1>1. /\ IsHost(h) /\ IsConsole(c) /\ d \in Seq(HostWord) /\ u \in Seq(Slot) /\ Stage(h, c, d, u)
      /\ DOMAIN c = ConsoleFields /\ c.at \in AtTable
  BY DEF InvOf, IsConsole, AtTable
<1>2. Sits(c, b, "cancelling") /\ b.view = c.view
  BY <1>1 DEF ConsoleFields, goes, Sits
<1>3. b.at = "cancelling" /\ b.party = c.party /\ b.round = c.round
  BY <1>2 DEF Sits
<1>4. /\ IsConsole(b) /\ (Level(h, c) => Level(h, b))
      /\ \A w : (NoParty(c, w) => NoParty(b, w)) /\ (OneParty(c, w) => OneParty(b, w))
  BY <1>1, <1>2, SitsConsole
<1>5. e \in Move
  BY DEF Move
<1>6. v \in Seq(Slot)
  <2>1. e \in Slot
    BY <1>5 DEF Slot
  <2> HIDE DEF e, Slot
  <2> QED
    BY <1>1, <2>1, AppendIs
<1> HIDE DEF v
<1>7. CASE Choosing(h, c, d, u)
  <2>1. Down(h, d, {}) /\ Up(u, {}) /\ c.view = h.party
    BY <1>7 DEF Choosing, AtMenu
  <2>2. /\ Up(v, {e}) /\ (MoveLast(u) => MoveLast(v))
        /\ (NoParty(c, u) => NoParty(b, v)) /\ (OneParty(c, u) => OneParty(b, v))
    <3> HIDE DEF e, Move
    <3> QED
      BY <1>1, <1>4, <1>5, <2>1, MoveIs DEF v
  <2>3. Choosing(h, b, d, v)
    BY <1>1, <1>2, <1>3, <1>4, <1>7, <2>1, <2>2 DEF Choosing, AtMenu
  <2>4. Same(h, c, b)
    BY <1>3, <1>7 DEF Same, Choosing, Level
  <2> QED
    BY <1>1, <1>4, <1>6, <2>3, <2>4 DEF InvOf, Stage, v
<1>8. CASE Leaving(h, c, d, u)
  <2>1. Stage(h, b, d, v) /\ Same(h, c, b)
    BY <1>3, <1>8, LeavingMoves DEF InTrade
  <2> QED
    BY <1>1, <1>4, <1>6, <2>1 DEF InvOf, v
<1> QED
  BY <1>1, <1>7, <1>8 DEF Stage, Apart, Asking, Agreed, Answering, Watching, Owing, Before

\* At the prompt the player agrees or does not.
LEMMA AnswerStep ==
    ASSUME NEW h, NEW c, NEW d, NEW u, InvOf(h, c, d, u), c.at = "prompt",
           NEW cmd \in {"INIT_BLOCK", "READY_CANCEL_TRADE"},
           NEW b, b = goes(c, IF cmd = "INIT_BLOCK" THEN "started" ELSE "declined")
    PROVE  InvOf(h, b, d, Append(u, Block(cmd))) /\ Same(h, c, b)
<1> DEFINE e == Block(cmd)
           v == Append(u, e)
           place == IF cmd = "INIT_BLOCK" THEN "started" ELSE "declined"
<1>1. /\ IsHost(h) /\ IsConsole(c) /\ d \in Seq(HostWord) /\ u \in Seq(Slot) /\ Stage(h, c, d, u)
      /\ DOMAIN c = ConsoleFields /\ c.at \in AtTable
  BY DEF InvOf, IsConsole, AtTable
<1>2. Sits(c, b, place) /\ b.view = c.view /\ b.cursor = c.cursor /\ b.offer = c.offer
  <2> HIDE DEF place
  <2>1. b = goes(c, place)
    BY DEF place
  <2> QED
    BY <1>1, <2>1 DEF ConsoleFields, goes, Sits
<1>3. b.at = place /\ b.party = c.party /\ b.round = c.round
  BY <1>2 DEF Sits
<1>4. /\ IsConsole(b) /\ (Level(h, c) => Level(h, b))
      /\ \A w : (NoParty(c, w) => NoParty(b, w)) /\ (OneParty(c, w) => OneParty(b, w))
  BY <1>1, <1>2, SitsConsole
<1>5. e \in Move
  BY DEF Move
<1>6. Agreed(h, c, d, u)
  BY <1>1 DEF Stage, Apart, Asking, Choosing, AtMenu, Owing, Leaving, Before, InTrade
<1>7. Down(h, d, {}) /\ Up(u, {}) /\ h.state = "CONFIRM"
  BY <1>6 DEF Agreed, Answering, Watching
<1>8. /\ v \in Seq(Slot) /\ Up(v, {e}) /\ (NoParty(c, u) => NoParty(b, v))
      /\ (Free(u, Repeated) => Free(v, Repeated))
  <2> HIDE DEF e, Move, Repeated, Slot
  <2> QED
    BY <1>1, <1>4, <1>5, <1>7, MoveIs
<1> HIDE DEF v
<1>9. Answering(h, b, d, v)
  BY <1>3, <1>7, <1>8 DEF Answering
<1>10. Agreed(h, b, d, v)
  BY <1>2, <1>3, <1>4, <1>6, <1>7, <1>8, <1>9 DEF Agreed
<1>11. Same(h, c, b)
  BY <1>3, <1>6 DEF Same, Agreed, Level
<1> QED
  BY <1>1, <1>4, <1>8, <1>10, <1>11 DEF InvOf, Stage, v

\* The animation is over on the console.
LEMMA FinishStep ==
    ASSUME NEW h, NEW c, NEW d, NEW u, InvOf(h, c, d, u), c.at = "anim",
           NEW b, b = goes(c, "finishing")
    PROVE  InvOf(h, b, d, Append(u, Block("READY_FINISH_TRADE"))) /\ Same(h, c, b)
<1> DEFINE e == Block("READY_FINISH_TRADE")
           v == Append(u, e)
<1>1. /\ IsHost(h) /\ IsConsole(c) /\ d \in Seq(HostWord) /\ u \in Seq(Slot) /\ Stage(h, c, d, u)
      /\ DOMAIN c = ConsoleFields /\ c.at \in AtTable
  BY DEF InvOf, IsConsole, AtTable
<1>2. Sits(c, b, "finishing") /\ b.view = c.view /\ b.cursor = c.cursor /\ b.offer = c.offer
  BY <1>1 DEF ConsoleFields, goes, Sits
<1>3. b.at = "finishing" /\ b.party = c.party /\ b.round = c.round
  BY <1>2 DEF Sits
<1>4. /\ IsConsole(b) /\ (Level(h, c) => Level(h, b))
      /\ \A w : (NoParty(c, w) => NoParty(b, w)) /\ (OneParty(c, w) => OneParty(b, w))
  BY <1>1, <1>2, SitsConsole
<1>5. e \in Move
  BY DEF Move
<1>6. Agreed(h, c, d, u)
  BY <1>1 DEF Stage, Apart, Asking, Choosing, AtMenu, Owing, Leaving, Before, InTrade
<1>7. Down(h, d, {}) /\ Up(u, {}) /\ h.state = "ANIM" /\ ~h.child_finish
  BY <1>6 DEF Agreed, Answering, Watching
<1>8. /\ v \in Seq(Slot) /\ Up(v, {e}) /\ (NoParty(c, u) => NoParty(b, v))
      /\ (Free(u, Repeated) => Free(v, Repeated))
  <2> HIDE DEF e, Move, Repeated, Slot
  <2> QED
    BY <1>1, <1>4, <1>5, <1>7, MoveIs
<1> HIDE DEF v
<1>9. Watching(h, b, d, v)
  BY <1>3, <1>7, <1>8 DEF Watching
<1>10. Agreed(h, b, d, v)
  BY <1>2, <1>3, <1>4, <1>6, <1>7, <1>8, <1>9 DEF Agreed
<1>11. Same(h, c, b)
  BY <1>3, <1>6 DEF Same, Agreed, Level
<1> QED
  BY <1>1, <1>4, <1>8, <1>10, <1>11 DEF InvOf, Stage, v

-----------------------------------------------------------------------------
(* The invariant, and what a step does to the two parties.                 *)

LEMMA InvInit == Init => Inv
<1> SUFFICES ASSUME Init PROVE Inv
  OBVIOUS
<1> DEFINE h == HostInit
           c == ConsoleInit
<1>1. /\ DOMAIN h = HostFields /\ h.words = <<Req("link_player")>> /\ h.blocks = << >>
      /\ h.sender = << >> /\ h.held = << >> /\ h.party = HostMons /\ h.round = 0
      /\ h.disconnect_requested = FALSE /\ h.child_finish = FALSE
      /\ h.state = "LINK_PLAYER" /\ h.waiting_idle = FALSE
  BY DEF HostInit, HostFields
<1>2. /\ DOMAIN c = ConsoleFields /\ c.out = << >> /\ c.party = ChildMons /\ c.count = 1
      /\ c.todo = 0 /\ c.round = 0 /\ c.pending = FALSE /\ c.at = "link"
  BY DEF ConsoleInit, ConsoleFields
<1> HIDE DEF h, c
<1>3. HostMons \in HostParty /\ ChildMons \in ChildParty
  BY PartyAssumption DEF HostParty, ChildParty, Mon
<1>4. Req("link_player") \in OtherWord /\ Req("link_player") \notin PartyReq
  <2>1. Req("link_player").of = "link_player"
    BY CmdIs
  <2>2. Req("link_player") \in OtherWord
    BY DEF OtherWord
  <2> QED
    BY <2>1, <2>2, WordKinds
<1>5. IsHost(h)
  <2>1. <<Req("link_player")>> \in Seq(PartyReq \cup OtherWord)
    BY <1>4
  <2>2. << >> \in Seq(HostBlock) /\ << >> \in Seq({"READY", "EXIT"})
    BY ShortSeqs
  <2> QED
    BY <1>1, <1>3, <2>1, <2>2 DEF IsHost
<1>6. IsConsole(c)
  <2>1. << >> \in Seq(PartyReply \cup OtherReply)
    BY ShortSeqs
  <2> QED
    BY <1>2, <1>3, <2>1 DEF IsConsole, AtTable
<1>7. /\ \A W : Free(<< >>, W) /\ Single(<< >>, W)
      /\ Free(<<Req("link_player")>>, PartyReq)
  BY <1>4, ShortSeqs
<1>8. Apart(h, c, << >>, << >>)
  <2>1. Down(h, << >>, {})
    BY <1>1, <1>7 DEF Down, OneOf, NoneOf, OneIn, NoneIn
  <2>2. NoReq(h, << >>)
    BY <1>1, <1>7 DEF NoReq
  <2>3. Up(<< >>, {}) /\ NoParty(c, << >>)
    BY <1>2, <1>7 DEF Up, NoParty
  <2> QED
    BY <1>1, <1>2, <2>1, <2>2, <2>3 DEF Apart, Early, Before, Level
<1>9. << >> \in Seq(HostWord) /\ << >> \in Seq(Slot)
  BY ShortSeqs
<1> QED
  BY <1>5, <1>6, <1>8, <1>9 DEF Inv, InvOf, Stage, Init, h, c

\* The host's party and round stay or it commits; the console's likewise; never both.
Step ==
    \/ host.party = host'.party /\ host.round = host'.round /\ Same(host, console, console')
    \/ Commits(host, console, host') /\ console' = console
    \/ host' = host /\ Swaps(host, console, console')

LEMMA SameSelf == \A h, c : Same(h, c, c)
BY DEF Same

LEMMA InvNext == Inv /\ [Next]_vars => Inv' /\ Step
<1> SUFFICES ASSUME Inv, [Next]_vars PROVE Inv' /\ Step
  OBVIOUS
<1>1. InvOf(host, console, downlink, uplink)
  BY DEF Inv
<1>2. CASE hostFeed
  <2>1. /\ uplink # << >> /\ host' = feed_child_slot(host, Head(uplink)) /\ uplink' = Tail(uplink)
        /\ console' = console /\ downlink' = downlink
    BY <1>2 DEF hostFeed
  <2>2. /\ InvOf(host', console, downlink, Tail(uplink))
        /\ host'.party = host.party /\ host'.round = host.round
    BY <1>1, <2>1, FeedStep
  <2> QED
    BY <2>1, <2>2, SameSelf DEF Inv, Step
<1>3. ASSUME NEW over \in BOOLEAN, NEW again \in BOOLEAN, NEW last \in BOOLEAN,
             hostTick(over, again, last)
      PROVE  Inv' /\ Step
  <2> DEFINE f == frame(over, again, last)
  <2>1. /\ host' = f.host /\ console' = console /\ uplink' = uplink
        /\ downlink' = Append(downlink, IF f.out = << >> THEN Idle ELSE Head(f.out))
    BY <1>3 DEF hostTick
  <2>2. f = IF host.close_poll_sent /\ host.disconnect_requested
            THEN Out(enter(host, "DONE"), <<Disconnect>>)
            ELSE polled(timers(host, over, again), last)
    BY DEF frame, closing
  <2> HIDE DEF f
  <2>3. /\ InvOf(f.host, console, Append(downlink, IF f.out = << >> THEN Idle ELSE Head(f.out)), uplink)
        /\ (f.host.party = host.party /\ f.host.round = host.round) \/ Commits(host, console, f.host)
    BY <1>1, <2>2, TickStep
  <2> QED
    BY <2>1, <2>3, SameSelf DEF Inv, Step
<1>4. CASE consoleHear
  <2>1. /\ downlink # << >> /\ console' \in heard(console, Head(downlink))
        /\ downlink' = Tail(downlink) /\ host' = host /\ uplink' = uplink
    BY <1>4 DEF consoleHear
  <2>2. /\ InvOf(host, console', Tail(downlink), uplink)
        /\ Same(host, console, console') \/ Swaps(host, console, console')
    BY <1>1, <2>1, HearStep
  <2> QED
    BY <2>1, <2>2 DEF Inv, Step
<1>5. ASSUME NEW slot, NEW next, consoleSends(slot, next),
             InvOf(host, next, downlink, Append(uplink, slot)), Same(host, console, next)
      PROVE  Inv' /\ Step
  BY <1>5 DEF consoleSends, Inv, Step
<1>6. CASE consoleReply
  <2> DEFINE next == [console EXCEPT !.out = Tail(@)]
  <2>1. console.out # << >> /\ consoleSends(Head(console.out), next)
    BY <1>6 DEF consoleReply
  <2> HIDE DEF next
  <2>2. InvOf(host, next, downlink, Append(uplink, Head(console.out))) /\ Same(host, console, next)
    <3>1. next = [console EXCEPT !.out = Tail(@)]
      BY DEF next
    <3> QED
      BY <1>1, <2>1, <3>1, ReplyStep
  <2> QED
    BY <1>5, <2>1, <2>2
<1>7. CASE consoleStandby
  <2> DEFINE next == [console EXCEPT !.pending = TRUE, !.quiet = 0]
  <2>1. console.todo > 0 /\ consoleSends(Standby(console.count), next)
    BY <1>7 DEF consoleStandby, MustStandby
  <2>2. next = [console EXCEPT !.pending = TRUE, !.quiet = 0]
    OBVIOUS
  <2> HIDE DEF next
  <2>3. InvOf(host, next, downlink, Append(uplink, Standby(console.count))) /\ Same(host, console, next)
    BY <1>1, <2>1, <2>2, StandbyStep
  <2> QED
    BY <1>5, <2>1, <2>3
<1>8. CASE consoleIdle
  <2> DEFINE n == IF console.quiet < Repeat \/ console.quiet < MenuDelay
                  THEN console.quiet + 1 ELSE console.quiet
             next == [console EXCEPT !.quiet = n]
  <2>1. consoleSends(Idle, next)
    BY <1>8 DEF consoleIdle
  <2> HIDE DEF n
  <2>2. next = [console EXCEPT !.quiet = n]
    OBVIOUS
  <2> HIDE DEF next
  <2>3. InvOf(host, next, downlink, Append(uplink, Idle)) /\ Same(host, console, next)
    BY <1>1, <2>2, IdleStep
  <2> QED
    BY <1>5, <2>1, <2>3
<1>9. CASE Choose
  <2>1. ASSUME NEW s \in DOMAIN console.party, console.at = "menu",
               consoleSends(Select("READY_TO_TRADE", s), [goes(console, "asked") EXCEPT !.cursor = s])
        PROVE  Inv' /\ Step
    <3> DEFINE next == [goes(console, "asked") EXCEPT !.cursor = s]
    <3>1. next = [goes(console, "asked") EXCEPT !.cursor = s] /\ consoleSends(Select("READY_TO_TRADE", s), next)
      BY <2>1
    <3> HIDE DEF next
    <3>2. InvOf(host, next, downlink, Append(uplink, Select("READY_TO_TRADE", s))) /\ Same(host, console, next)
      BY <1>1, <2>1, <3>1, AskStep
    <3> QED
      BY <1>5, <3>1, <3>2
  <2>2. CASE console.at = "menu" /\ consoleSends(Block("REQUEST_CANCEL"), goes(console, "cancelling"))
    BY <1>1, <1>5, <2>2, GiveUpStep
  <2>3. ASSUME NEW cmd \in Answer, console.at = "prompt",
               consoleSends(Block(cmd),
                   goes(console, IF cmd = "INIT_BLOCK" THEN "started" ELSE "declined"))
        PROVE  Inv' /\ Step
    <3>1. cmd \in {"INIT_BLOCK", "READY_CANCEL_TRADE"}
      BY TradeAssumption
    <3> QED
      BY <1>1, <1>5, <2>3, <3>1, AnswerStep
  <2>4. CASE console.at = "anim" /\ consoleSends(Block("READY_FINISH_TRADE"), goes(console, "finishing"))
    BY <1>1, <1>5, <2>4, FinishStep
  <2>5. CASE console.at = "field" /\ consoleSends(Key("EXIT"), goes(console, "exiting"))
    BY <1>1, <1>5, <2>5, ExitStep
  <2> QED
    BY <1>9, <2>1, <2>2, <2>3, <2>4, <2>5 DEF Choose, Ready
<1>10. CASE UNCHANGED vars
  BY <1>10, SameSelf DEF vars, Inv, Step
<1> QED
  BY <1>2, <1>3, <1>4, <1>6, <1>7, <1>8, <1>9, <1>10 DEF Next

-----------------------------------------------------------------------------
(* The theorems.                                                           *)

LEMMA InvAlways == Spec => []Inv
BY InvInit, InvNext, PTL DEF Spec

\* From the prompt to the commit both ends mean the same two Pokemon, whatever the
\* player of the console chose, declined or repeated before and however late the
\* words of the host were (set_mons, on_child_linkcmd, commit).
THEOREM ShownTraded == Spec => []ShownIsTraded
<1>1. Inv => ShownIsTraded
  <2> SUFFICES ASSUME Inv, console.at \in InTrade, host.round = console.round
               PROVE  /\ console.offer = Offered[host.round + 1]
                      /\ console.view[console.offer] = host.party[console.offer]
                      /\ host.child_party[host.child_cursor] = console.party[console.cursor]
    BY DEF ShownIsTraded, InTrade
  <2>1. IsConsole(console) /\ console.round \in Nat /\ Stage(host, console, downlink, uplink)
    BY DEF Inv, InvOf, IsConsole
  <2>2. Agreed(host, console, downlink, uplink)
    BY <2>1 DEF Stage, Apart, Asking, Choosing, AtMenu, Owing, Leaving, Before, InTrade
  <2> QED
    BY <2>2 DEF Agreed, InTrade
<1> QED
  BY <1>1, InvAlways, PTL

LEMMA OwedIs ==
    /\ host.round = console.round => Owed = << >>
    /\ host.round # console.round =>
           /\ Owed # << >>
           /\ Owed[1] = [mon |-> console.view[console.offer], at |-> console.cursor]
BY DEF Owed

\* Each step of the host and of the console is a step of Swap or leaves it.
LEMMA StepImplements == Inv /\ Step => [Trade!Next]_(Trade!vars)
<1> SUFFICES ASSUME Inv, Step PROVE Trade!Next \/ UNCHANGED Trade!vars
  OBVIOUS
<1>1. host.round \in Nat /\ console.round \in Nat
  BY DEF Inv, InvOf, IsHost, IsConsole
<1>2. CASE host.party = host'.party /\ host.round = host'.round /\ Same(host, console, console')
  <2>1. console'.party = console.party /\ console'.round = console.round
    BY <1>2 DEF Same
  <2>2. Owed' = Owed
    BY <1>2, <2>1 DEF Same, Owed
  <2> QED
    BY <1>2, <2>1, <2>2 DEF Trade!vars
<1>3. CASE Commits(host, console, host') /\ console' = console
  <2>1. host'.round # console'.round /\ host.round = console.round
    BY <1>1, <1>3 DEF Commits
  <2>2. /\ Owed = << >>
        /\ Owed' = <<[mon |-> console.view[console.offer], at |-> console.cursor]>>
    BY <1>3, <2>1 DEF Owed
  <2>3. console.view[console.offer] = host.party[console.offer]
    BY <1>3 DEF Commits
  <2>4. Trade!First(console.offer, console.cursor)
    BY <1>3, <2>2, <2>3 DEF Trade!First, Trade!NothingOwed, Commits
  <2>5. console.offer \in DOMAIN HostMons /\ console.cursor \in DOMAIN ChildMons
    BY <1>3 DEF Commits
  <2> QED
    BY <2>4, <2>5 DEF Trade!Next
<1>4. CASE host' = host /\ Swaps(host, console, console')
  <2>1. host.round # console.round /\ host'.round = console'.round
    BY <1>1, <1>4 DEF Swaps
  <2>2. Owed' = << >>
    BY <2>1 DEF Owed
  <2>3. /\ Owed # << >> /\ Owed[1].at = console.cursor
        /\ Owed[1].mon = console.view[console.offer]
    BY <2>1, OwedIs
  <2>4. console'.party = [console.party EXCEPT ![console.cursor] = console.view[console.offer]]
    BY <1>4 DEF Swaps
  <2>5. Trade!Second
    BY <1>4, <2>2, <2>3, <2>4 DEF Trade!Second, Trade!NothingOwed
  <2> QED
    BY <2>5 DEF Trade!Next
<1> QED
  BY <1>2, <1>3, <1>4 DEF Step

\* The engine and the console implement Swap: the host commits first, by one trade
\* at most, and gives the Pokemon the console has on its screen for the one the
\* player chose; CONFIRM_FINISH_TRADE makes the console commit the same exchange,
\* before the host can start another.
THEOREM HostImplementsSwap == Spec => ImplementsSwap
<1>1. Init => Trade!Init
  <2> SUFFICES ASSUME Init PROVE Trade!Init
    OBVIOUS
  <2>1. host.party = HostMons /\ host.round = 0
    BY DEF Init, HostInit
  <2>2. console.party = ChildMons /\ console.round = 0
    BY DEF Init, ConsoleInit
  <2> QED
    BY <2>1, <2>2, OwedIs DEF Trade!Init, Trade!NothingOwed
<1>2. Inv /\ [Next]_vars => [Trade!Next]_(Trade!vars)
  BY InvNext, StepImplements
<1> QED
  BY <1>1, <1>2, InvAlways, PTL DEF Spec, ImplementsSwap, Trade!Spec

Swapping == INSTANCE SwapProofs WITH LeaderMons <- HostMons, FollowerMons <- ChildMons,
                                     leader <- host.party, follower <- console.party, owed <- Owed

\* So no trade that the host leads loses or duplicates a Pokemon: parties that hold
\* none twice and none in common hold or owe each exactly once in every state.
THEOREM HostConserves == Swapping!Parties /\ Spec => []Swapping!Conserved
<1>1. Spec => Swapping!Spec
  <2>1. Trade!Init <=> Swapping!Init
    BY DEF Trade!Init, Swapping!Init, Trade!NothingOwed, Swapping!NothingOwed
  <2>2. [Trade!Next]_(Trade!vars) <=> [Swapping!Next]_(Swapping!vars)
    BY DEF Trade!Next, Swapping!Next, Trade!vars, Swapping!vars, Trade!First, Swapping!First,
           Trade!Second, Swapping!Second, Trade!NothingOwed, Swapping!NothingOwed
  <2> QED
    BY <2>1, <2>2, HostImplementsSwap, PTL DEF ImplementsSwap, Trade!Spec, Swapping!Spec
<1> QED
  BY <1>1, Swapping!SwapConserves, PTL
=============================================================================
