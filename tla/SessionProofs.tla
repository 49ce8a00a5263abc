--------------------------- MODULE SessionProofs ---------------------------
(***************************************************************************)
(* How a session starts and what one promises.  The stages of a Pia        *)
(* session are passed in step, for every set of modes; and a Mystery Gift  *)
(* session, which GiftPromise states without messages and GiftSession is   *)
(* shown by TLC to implement, keeps its promise for every set of gifts and *)
(* consoles and any length of a dump.                                      *)
(***************************************************************************)
EXTENDS PiaConnection, SequenceTheorems, TLAPS

(***************************************************************************)
(* What a message on its way says of the end that sent it: an accept that  *)
(* the host has a join, a type 6 that the joiner has had the accept, an    *)
(* RTT message to the joiner that the host is finalized (or probes early). *)
(* With what the stages themselves say this is inductive.                  *)
(***************************************************************************)
MessagesTrue ==
    /\ to_joiner \cap {SessionUpdate, JoinResponse} # {} => session_join
    /\ UpdateAck \in to_host => session_join /\ state # "net"
    /\ to_joiner \cap {RttRequest, RttResponse} # {} => session_finalized \/ mode.early
    /\ console_heard # {} => session_join

Inv == StagesInStep /\ MessagesTrue

\* The messages differ from one another.
LEMMA Distinct ==
    /\ {SessionUpdate, JoinResponse} \cap {RttRequest, RttResponse, NetRequest} = {}
    /\ {RttRequest, RttResponse} \cap {NetRequest} = {}
    /\ UpdateAck \notin {NetResponse, SessionJoin, RttRequest, RttResponse}
BY DEF SessionUpdate, JoinResponse, RttRequest, RttResponse, NetRequest, UpdateAck,
       NetResponse, SessionJoin

LEMMA InitInv == Init => Inv
BY DEF Init, HostInit, JoinerInit, AirInit, Inv, StagesInStep, MessagesTrue

LEMMA HostReceiveInv ==
    ASSUME Inv, NEW m, hostReceive(m)
    PROVE  Inv'
<1> USE Distinct DEF Inv, StagesInStep, MessagesTrue, hostReceive, receive, hostTakes, toJoiner,
                     joinerVars
<1>1. CASE receiveNet(m)
  BY <1>1 DEF receiveNet
<1>2. CASE receiveJoin(m)
  BY <1>2 DEF receiveJoin, _send_session_acceptance
<1>3. CASE receiveFinalize(m)
  BY <1>3 DEF receiveFinalize
<1>4. CASE _receive_rtt(m)
  BY <1>4 DEF _receive_rtt, rttOpen
<1>5. QED
  BY <1>1, <1>2, <1>3, <1>4

LEMMA HostTickInv ==
    ASSUME Inv, NEW t, hostTick(t)
    PROVE  Inv'
BY Distinct DEF Inv, StagesInStep, MessagesTrue, hostTick, tick, toJoiner, netRetries,
   acceptRetries, probes, rttOpen, _send_session_acceptance, hostVars, joinerVars

LEMMA JoinerReceiveInv ==
    ASSUME Inv, NEW m, joinerReceive(m)
    PROVE  Inv'
<1> USE Distinct DEF Inv, StagesInStep, MessagesTrue, joinerReceive, on_message, joinerTakes,
                     toHost, hostVars
<1>1. CASE onNet(m)
  BY <1>1 DEF onNet
<1>2. CASE onSession(m)
  <2>1. session_join
    BY <1>2 DEF onSession
  <2>2. state' # "net" /\ (state' = "connected" => state = "connected")
    BY <1>2 DEF onSession, afterSession
  <2>3. QED
    BY <1>2, <2>1, <2>2 DEF onSession
<1>3. CASE onRtt(m, mode.before_finalize)
  <2>1. session_finalized \/ mode.early
    BY <1>3 DEF onRtt
  <2>2. state' = "net" <=> state = "net"
    BY <1>3 DEF onRtt
  <2>3. UpdateAck \in to_host' => UpdateAck \in to_host
    BY <1>3 DEF onRtt
  <2>4. QED
    BY <1>3, <2>1, <2>2, <2>3 DEF onRtt
<1>4. QED
  BY <1>1, <1>2, <1>3

LEMMA ConsoleSessionInv ==
    ASSUME Inv, NEW m, consoleSession(m)
    PROVE  Inv'
<1>1. session_join /\ state' \in {state, "finalize"}
  BY DEF Inv, MessagesTrue, consoleSession, joinerTakes
<1>2. consoleAccepted(m) => state' # "net"
  BY DEF consoleSession
<1>3. UpdateAck \in to_host' => UpdateAck \in to_host \/ consoleAccepted(m)
  BY DEF consoleSession, toHost
<1>4. UNCHANGED <<mode, to_joiner, hostVars>>
  BY DEF consoleSession, joinerTakes
<1>5. QED
  BY <1>1, <1>2, <1>3, <1>4 DEF Inv, StagesInStep, MessagesTrue, hostVars, consoleSession

\* What either end sends of its own accord, and what is lost.
LEMMA OtherInv ==
    ASSUME Inv,
           \/ \E t \in JoinerTimers : joinerTicks(t)
           \/ consoleHostProbes \/ consoleJoinerProbes \/ lose \/ UNCHANGED vars
    PROVE  Inv'
<1> USE Distinct DEF Inv, StagesInStep, MessagesTrue, hostVars, joinerVars
<1>1. ASSUME NEW t \in JoinerTimers, joinerTicks(t)
      PROVE  Inv'
  BY <1>1 DEF joinerTicks, joinerTick, toHost, maybe_originate_rtt, maybe_repeat_join
<1>2. CASE consoleHostProbes
  BY <1>2 DEF consoleHostProbes, toJoiner
<1>3. CASE consoleJoinerProbes
  BY <1>3 DEF consoleJoinerProbes, toHost
<1>4. CASE lose
  <2>1. to_host' \subseteq to_host /\ to_joiner' \subseteq to_joiner
    BY <1>4 DEF lose, Lose
  <2>2. QED
    BY <1>4, <2>1 DEF lose
<1>5. CASE UNCHANGED vars
  BY <1>5 DEF vars, airVars
<1>6. QED
  BY <1>1, <1>2, <1>3, <1>4, <1>5

(***************************************************************************)
(* For every set of modes the stages are passed in step: a host that is    *)
(* finalized knows its guest and the guest has its accept, and the joiner  *)
(* speaks only to a host that listens (host_pia.py:417, pia_connect.py:609)*)
(***************************************************************************)
THEOREM StagesAlwaysInStep == Spec => []StagesInStep
<1>1. Inv /\ [Next]_vars => Inv'
  BY HostReceiveInv, HostTickInv, JoinerReceiveInv, ConsoleSessionInv, OtherInv DEF Next
<1>2. Inv => StagesInStep
  BY DEF Inv
<1>3. QED
  BY InitInv, <1>1, <1>2, PTL DEF Spec

-----------------------------------------------------------------------------
(* A Mystery Gift session.                                                 *)

CONSTANTS
    Sessions,         \* what the host offers, what the console holds and answers
    DumpBlocks        \* parts of a payload that dumps memory

VARIABLES session, kept, verdict, told

Gift == INSTANCE GiftPromise

\* What a session may be about, and how long a dump is.
SessionsType == Sessions \subseteq Gift!Session /\ DumpBlocks \in Nat \ {0}

\* Whatever is due is a sequence of parts.
Parts == {"card", "delivery", "stamp", "install", "activation", "trainer", "mevent", "news", "code"}

LEMMA ShortSeqs ==
    ASSUME NEW S
    PROVE  /\ << >> \in Seq(S)
           /\ \A a \in S : <<a>> \in Seq(S)
           /\ \A a, b \in S : <<a, b>> \in Seq(S)
<1>1. << >> \in Seq(S)
  BY EmptySeq
<1>2. ASSUME NEW a \in S PROVE <<a>> \in Seq(S)
  OBVIOUS
<1>3. ASSUME NEW a \in S, NEW b \in S PROVE <<a, b>> \in Seq(S)
  OBVIOUS
<1>4. QED
  BY <1>1, <1>2, <1>3

LEMMA CardSeqs ==
    /\ << >> \in Seq(Parts) /\ Gift!Card \in Seq(Parts)
    /\ \A p \in Parts : <<p>> \in Seq(Parts)
    /\ \A p, q \in Parts : <<p, q>> \in Seq(Parts)
    /\ \A t \in Seq(Parts) : Gift!Card \o t \in Seq(Parts)
<1>1. "card" \in Parts /\ "delivery" \in Parts
  BY DEF Parts
<1>2. << >> \in Seq(Parts) /\ Gift!Card \in Seq(Parts)
  BY <1>1, ShortSeqs DEF Gift!Card
<1>3. \A t \in Seq(Parts) : Gift!Card \o t \in Seq(Parts)
  BY <1>2, ConcatProperties
<1>4. QED
  BY <1>2, <1>3, ShortSeqs

LEMMA PayloadSeq ==
    ASSUME SessionsType, NEW s
    PROVE  Gift!Payload(s) \in Seq(Parts)
<1>1. DumpBlocks \in Nat /\ "code" \in Parts
  BY DEF SessionsType, Parts
<1>2. [i \in 1 .. DumpBlocks |-> "code"] \in [1 .. DumpBlocks -> Parts]
  BY <1>1
<1>3. [i \in 1 .. DumpBlocks |-> "code"] \in Seq(Parts)
  BY <1>1, <1>2, SeqDef, Zenon
<1>4. <<"code">> \in Seq(Parts)
  BY <1>1, CardSeqs
<1>5. QED
  BY <1>3, <1>4 DEF Gift!Payload

LEMMA DueSeq ==
    ASSUME SessionsType, NEW s \in Sessions
    PROVE  Gift!Due(s).parts \in Seq(Parts)
<1>1. s \in Gift!Session /\ s.dist.kind \in Gift!Kinds /\ s.console.data.stamps \in {"new", "full", "present"}
  BY DEF SessionsType, Gift!Session, Gift!Dist, Gift!Console, Gift!Data
<1>2. << >> \in Seq(Parts) /\ Gift!Card \in Seq(Parts)
  BY CardSeqs
<1>3. Gift!DueCard(s).parts \in {<< >>, Gift!Card}
  BY DEF Gift!DueCard, Gift!Outcome, Gift!NothingKept
<1>4. Gift!DueStamp(s).parts \in {<< >>, Gift!Card \o <<"stamp", "install">>, <<"stamp", "activation">>}
  <2>1. CASE Gift!Installs(s)
    BY <2>1 DEF Gift!DueStamp, Gift!Outcome, Gift!NothingKept
  <2>2. CASE ~Gift!Installs(s)
    BY <1>1, <2>2 DEF Gift!DueStamp, Gift!Outcome, Gift!NothingKept
  <2>3. QED
    BY <2>1, <2>2
<1>5. <<"stamp", "install">> \in Seq(Parts) /\ <<"stamp", "activation">> \in Seq(Parts)
  BY CardSeqs DEF Parts
<1>6. <<"trainer">> \in Seq(Parts) /\ <<"mevent">> \in Seq(Parts) /\ <<"news">> \in Seq(Parts)
  BY CardSeqs DEF Parts
<1>7. Gift!DueCard(s).parts \in Seq(Parts)
  BY <1>2, <1>3
<1>8. Gift!DueStamp(s).parts \in Seq(Parts)
  BY <1>2, <1>4, <1>5, CardSeqs
<1>9. Gift!DueNews(s).parts \in Seq(Parts)
  BY <1>2, <1>6 DEF Gift!DueNews, Gift!Outcome, Gift!NothingKept
<1>10. Gift!DueCode(s).parts \in Seq(Parts)
  BY PayloadSeq DEF Gift!DueCode, Gift!Outcome
<1>11. Gift!WithCard(s, <<"trainer">>) \in Seq(Parts) /\ Gift!WithCard(s, <<"mevent">>) \in Seq(Parts)
  BY <1>6, CardSeqs DEF Gift!WithCard
<1>12. Gift!DueGift(s).parts \in Seq(Parts)
  <2>1. CASE Gift!Kind(s) = "card"
    BY <1>7, <2>1 DEF Gift!DueGift
  <2>2. CASE Gift!Kind(s) = "news"
    BY <1>9, <2>2 DEF Gift!DueGift
  <2>3. CASE Gift!Kind(s) = "stamp"
    BY <1>8, <2>3 DEF Gift!DueGift
  <2>4. CASE Gift!Kind(s) \in {"trainer", "mevent"}
    BY <1>11, <2>4 DEF Gift!DueGift, Gift!Outcome
  <2>5. CASE Gift!Kind(s) \in {"buffer", "dump"}
    BY <1>10, <2>5 DEF Gift!DueGift
  <2>6. QED
    BY <1>1, <2>1, <2>2, <2>3, <2>4, <2>5 DEF Gift!Kind, Gift!Kinds
<1>13. QED
  BY <1>2, <1>12 DEF Gift!Due, Gift!NothingKept, Gift!Outcome

\* A card is due over another one only where the player gives the other away.
LEMMA DueConsent ==
    ASSUME SessionsType, NEW s \in Sessions, s.console.data.card = "diff", s.console.toss # 0,
           NEW i \in 1 .. Len(Gift!Due(s).parts)
    PROVE  Gift!Due(s).parts[i] # "card"
<1>1. s.console.toss = 1 /\ s.dist.kind \in Gift!Kinds
  BY DEF SessionsType, Gift!Session, Gift!Dist, Gift!Console
<1>2. Gift!HoldsOther(s)
  BY DEF Gift!HoldsOther, Gift!Others
<1>3. CASE Gift!Kind(s) \in {"card", "stamp", "trainer", "mevent"}
  <2>1. Gift!KeepsOther(s)
    BY <1>1, <1>2, <1>3 DEF Gift!KeepsOther
  <2>2. Gift!Due(s).parts = << >>
    BY <2>1 DEF Gift!Due, Gift!NothingKept, Gift!Outcome
  <2>3. QED
    BY <2>2
<1>4. CASE Gift!Kind(s) = "news"
  <2>1. Gift!DueGift(s).parts \in {<< >>, <<"news">>}
    BY <1>4 DEF Gift!DueGift, Gift!DueNews, Gift!NothingKept, Gift!Outcome
  <2>2. Gift!Due(s).parts \in {<< >>, <<"news">>}
    BY <2>1 DEF Gift!Due, Gift!NothingKept, Gift!Outcome
  <2>3. QED
    BY <2>2
<1>5. CASE Gift!Kind(s) \in {"buffer", "dump"}
  <2>1. Gift!DueGift(s).parts = Gift!Payload(s)
    BY <1>5 DEF Gift!DueGift, Gift!DueCode, Gift!Outcome
  <2>2. Gift!Due(s).parts \in {<< >>, Gift!Payload(s)}
    BY <2>1 DEF Gift!Due, Gift!NothingKept, Gift!Outcome
  <2>3. \A j \in 1 .. Len(Gift!Payload(s)) : Gift!Payload(s)[j] = "code"
    <3>1. CASE Gift!Kind(s) = "dump"
      <4>1. Gift!Payload(s) = [j \in 1 .. DumpBlocks |-> "code"]
        BY <3>1 DEF Gift!Payload
      <4>2. Len(Gift!Payload(s)) = DumpBlocks
        BY <4>1 DEF SessionsType
      <4>3. QED
        BY <4>1, <4>2
    <3>2. CASE Gift!Kind(s) = "buffer"
      BY <3>2 DEF Gift!Payload
    <3>3. QED
      BY <1>5, <3>1, <3>2
  <2>4. QED
    BY <2>2, <2>3
<1>6. QED
  BY <1>1, <1>3, <1>4, <1>5 DEF Gift!Kind, Gift!Kinds

\* Nothing is due behind a phrase that was not said.
LEMMA DueGate ==
    ASSUME NEW s, s.dist.gated, ~s.console.data.phrase
    PROVE  Gift!Due(s).parts = << >>
BY DEF Gift!Due, Gift!Refused, Gift!NothingKept, Gift!Outcome

Ind == session \in Sessions /\ kept \in Seq(Parts) /\ Gift!InOrder /\ Gift!NothingEarly

LEMMA IndInvariant == SessionsType => (Gift!Spec => []Ind)
<1> SUFFICES ASSUME SessionsType PROVE Gift!Spec => []Ind
  OBVIOUS
<1>1. Gift!Init => Ind
  <2> SUFFICES ASSUME Gift!Init PROVE Ind
    OBVIOUS
  <2>1. session \in Sessions /\ kept = << >> /\ verdict = "none" /\ told = "none"
    BY DEF Gift!Init
  <2>2. Gift!Due(session).parts \in Seq(Parts)
    BY <2>1, DueSeq
  <2>3. QED
    BY <2>1, <2>2 DEF Ind, Gift!InOrder, Gift!NothingEarly
<1>2. Ind /\ [Gift!Next]_(Gift!pvars) => Ind'
  <2> SUFFICES ASSUME Ind, [Gift!Next]_(Gift!pvars) PROVE Ind'
    OBVIOUS
  <2> DEFINE parts == Gift!Due(session).parts
  <2>1. session \in Sessions /\ kept \in Seq(Parts) /\ parts \in Seq(Parts)
    BY DueSeq DEF Ind
  <2>2. CASE Gift!Keep
    <3>1. /\ Len(kept) < Len(parts) /\ kept' = Append(kept, parts[Len(kept) + 1])
          /\ session' = session /\ verdict' = verdict /\ told' = told
      BY <2>2 DEF Gift!Keep
    <3>2. parts[Len(kept) + 1] \in Parts
      BY <2>1, <3>1
    <3>3. kept' \in Seq(Parts) /\ Len(kept') = Len(kept) + 1
      BY <2>1, <3>1, <3>2
    <3>4. \A i \in 1 .. Len(kept') : kept'[i] = parts[i]
      BY <2>1, <3>1, <3>2, <3>3 DEF Ind, Gift!InOrder
    <3>5. Gift!InOrder'
      BY <2>1, <3>1, <3>3, <3>4 DEF Gift!InOrder
    <3>6. Gift!NothingEarly'
      <4>1. kept # parts
        BY <2>1, <3>1
      <4>2. verdict = "none" /\ told = "none"
        BY <4>1 DEF Ind, Gift!NothingEarly, Gift!Complete
      <4>3. QED
        BY <3>1, <4>2 DEF Gift!NothingEarly
    <3>7. QED
      BY <2>1, <3>1, <3>3, <3>5, <3>6 DEF Ind
  <2>3. CASE Gift!Report
    BY <2>3 DEF Gift!Report, Ind, Gift!InOrder, Gift!NothingEarly, Gift!Complete
  <2>4. CASE Gift!Tell
    BY <2>4 DEF Gift!Tell, Ind, Gift!InOrder, Gift!NothingEarly, Gift!Complete
  <2>5. CASE UNCHANGED Gift!pvars
    BY <2>5 DEF Gift!pvars, Ind, Gift!InOrder, Gift!NothingEarly, Gift!Complete
  <2>6. QED
    BY <2>2, <2>3, <2>4, <2>5 DEF Gift!Next
<1>3. QED
  BY <1>1, <1>2, PTL DEF Gift!Spec

\* The verdict of the host and the message of the client come only when all that is due
\* has been kept, in its order (RECV READY_END before RETURN, mg_server.py).
THEOREM PromiseKept == SessionsType => (Gift!Spec => [](Gift!InOrder /\ Gift!NothingEarly))
<1>1. Ind => Gift!InOrder /\ Gift!NothingEarly
  BY DEF Ind
<1>2. QED
  BY <1>1, IndInvariant, PTL

\* A card is never lost to another one without consent, and a gift behind a phrase is
\* never kept without it (CLI_ASK_TOSS, SVR_CHECK_QUESTIONNAIRE).
THEOREM PromiseConsent == SessionsType => (Gift!Spec => []Gift!Consent)
<1> SUFFICES ASSUME SessionsType PROVE Gift!Spec => []Gift!Consent
  OBVIOUS
<1>1. Ind => Gift!Consent
  <2> SUFFICES ASSUME Ind PROVE Gift!Consent
    OBVIOUS
  <2>1. session \in Sessions /\ kept \in Seq(Parts) /\ Gift!Due(session).parts \in Seq(Parts)
    BY DueSeq DEF Ind
  <2>2. ASSUME Gift!Keeps("card"), session.console.data.card = "diff"
        PROVE  session.console.toss = 0
    <3>1. PICK i \in 1 .. Len(kept) : kept[i] = "card"
      BY <2>2 DEF Gift!Keeps
    <3>2. i \in 1 .. Len(Gift!Due(session).parts) /\ Gift!Due(session).parts[i] = "card"
      BY <2>1, <3>1 DEF Ind, Gift!InOrder
    <3>3. QED
      BY <2>1, <2>2, <3>2, DueConsent
  <2>3. ASSUME session.dist.gated, ~session.console.data.phrase
        PROVE  kept = << >>
    <3>1. Gift!Due(session).parts = << >>
      BY <2>3, DueGate
    <3>2. Len(kept) <= 0
      BY <3>1 DEF Ind, Gift!InOrder
    <3>3. QED
      BY <2>1, <3>2
  <2>4. QED
    BY <2>2, <2>3 DEF Gift!Consent
<1>2. QED
  BY <1>1, IndInvariant, PTL
=============================================================================
