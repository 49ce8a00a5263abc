------------------------- MODULE PartyExchangeProofs ------------------------
(***************************************************************************)
(* Whatever the number of rounds and fragments, the windows and the order  *)
(* the host's frames land in: the host's copy of the joiner's party is     *)
(* intact, and the joiner builds the blocks it counts of fragments that    *)
(* were sent, each used once.                                              *)
(***************************************************************************)
EXTENDS PartyExchange, TLAPS, SequenceTheorems

\* The joiner's block that went out last is in the host's hands.
Consumed == party_sent = 0 \/ child_party[party_sent] # NoBlock

RequestAt(n) == n \in DOMAIN downlink /\ downlink[n].words = ReqSlot
Requested == req_due \/ \E n \in DOMAIN downlink : RequestAt(n)

\* The rounds: the host asks for the next block when it has the one before, and
\* asks once.
RoundInv ==
    /\ party_sent \in 0 .. Rounds /\ expected \in 0 .. Rounds
    /\ DOMAIN child_party = 1 .. Rounds
    /\ \A r \in 1 .. Rounds : r > party_sent => child_party[r] = NoBlock
    /\ expected \in {0, party_sent, party_sent + 1}
    /\ expected # party_sent => Consumed
    /\ settling => expected # 0 /\ expected = party_sent /\ Consumed
    /\ Requested => expected = party_sent + 1
    /\ req_due => \A n \in DOMAIN downlink : ~RequestAt(n)
    /\ \A m, n \in DOMAIN downlink : RequestAt(m) /\ RequestAt(n) => m = n

\* The senders of one block that are not done.
SenderOf(name, count, trust_pia) ==
    [at : {"init", "stream", "hold"}, name : {name}, count : {count}, trust_pia : {trust_pia},
     index : 1 .. count, inits : Nat, gap : Nat, held : BOOLEAN]

Sender == SenderOf(party_sent, ChildFrags, FALSE)

streaming == child_sender # NoSender /\ child_sender.at \in {"init", "stream"}

SenderInv ==
    /\ host_sender = NoSender \/ \E r \in Nat : host_sender \in SenderOf(r, HostFrags, TRUE)
    /\ blocks \in Seq(Nat)
    /\ child_sender = NoSender \/ (child_sender \in Sender /\ party_sent > 0)
    /\ streaming => ~Consumed
    /\ streaming /\ child_sender.at = "init" => child_sender.index = 1

ChildSlot ==
    {IdleSlot, InitSlot(ChildFrags)}
        \cup {FragSlot(i, r) : i \in 1 .. ChildFrags, r \in 1 .. party_sent}

InitAt(n) == n \in 1 .. Len(uplink) /\ uplink[n].op = "init"
FragAt(n) == n \in 1 .. Len(uplink) /\ uplink[n].op = "block"
FreshAt(n) == FragAt(n) /\ uplink[n].frag = party_sent

\* The joiner's slots on their way: the INITs of a block come before all of its
\* fragments and after all fragments of the blocks before.
PipeInv ==
    /\ uplink \in Seq(ChildSlot)
    /\ Consumed => \A n \in 1 .. Len(uplink) : ~InitAt(n)
    /\ \A m, n \in 1 .. Len(uplink) : m < n /\ InitAt(m) /\ FragAt(n) => FreshAt(n)
    /\ \A m, n \in 1 .. Len(uplink) : m < n /\ FreshAt(m) => ~InitAt(n)
    /\ streaming => \A n \in 1 .. Len(uplink) : FreshAt(n) => uplink[n].index < child_sender.index

\* The block that is coming in is the one that went out last.
RecvInv ==
    /\ rx \in [count : Nat, flags : SUBSET (1 .. ChildFrags), buf : {<< >>} \cup [1 .. ChildFrags -> Nat],
               receiving : BOOLEAN, done : {FALSE}, last : Nat]
    /\ rx.receiving =>
          /\ ~Consumed
          /\ rx.count = ChildFrags /\ rx.buf \in [1 .. ChildFrags -> Nat]
          /\ \A i \in rx.flags : rx.buf[i] = party_sent
          /\ \A n \in 1 .. Len(uplink) : FragAt(n) => FreshAt(n)
          /\ rx.flags # {} => \A n \in 1 .. Len(uplink) : ~InitAt(n)
          /\ streaming => \A i \in rx.flags : i < child_sender.index

\* What may be on the link.
EchoSlot ==
    {IdleSlot, InitSlot(ChildFrags)} \cup {FragSlot(i, r) : i \in 1 .. ChildFrags, r \in Nat}
HostSlot ==
    {IdleSlot, ReqSlot, InitSlot(HostFrags)} \cup {FragSlot(i, r) : i \in 1 .. HostFrags, r \in Nat}

LinkInv ==
    /\ downlink \in Seq([words : HostSlot, echo : EchoSlot])
    /\ echo_queue \in Seq(EchoSlot) /\ echo_row \in EchoSlot

PartyInv == LinkInv /\ RoundInv /\ SenderInv /\ PipeInv /\ RecvInv /\ ChildPartyIntact

-----------------------------------------------------------------------------
(* The block transfer.                                                     *)

\* A sender that is done is forgotten.
kept(s) == IF active(s) THEN s ELSE NoSender

LEMMA OutIs == \A s, w : Out(s, w).sender = s /\ Out(s, w).words = w
BY DEF Out

\* What a tick of a sender hands out, and what the sender becomes.
HandsOut(s, seen, busy, name, count, trust, words, next) ==
    \/ words = IdleSlot /\ next = s /\ (s = NoSender \/ (s.at = "init" /\ busy))
    \/ /\ s # NoSender /\ s.at = "init"
       /\ words = InitSlot(count)
       /\ next \in SenderOf(name, count, trust)
       /\ next.at = "init" /\ next.index = s.index /\ next.inits = s.inits + 1
    \/ /\ s # NoSender /\ s.at \in {"init", "stream"} /\ s.index < count
       /\ s.at = "init" => armed(s, seen)
       /\ words = FragSlot(s.index, name)
       /\ next \in SenderOf(name, count, trust)
       /\ next.at = "stream" /\ next.index = s.index + 1
    \/ /\ s # NoSender /\ s.at \in {"init", "stream"} /\ s.index = count
       /\ s.at = "init" => armed(s, seen)
       /\ words = FragSlot(count, name)
       /\ IF trust THEN next = NoSender
          ELSE next \in SenderOf(name, count, trust) /\ next.at = "hold"
    \/ /\ s # NoSender /\ s.at = "hold"
       /\ words \in {IdleSlot} \cup {FragSlot(i, name) : i \in 1 .. count}
       /\ \/ next = NoSender /\ returned(s, seen) /\ words = IdleSlot
          \/ next \in SenderOf(name, count, trust) /\ next.at = "hold"

LEMMA Ticked ==
    ASSUME NEW name, NEW count \in Nat \ {0}, NEW trust \in BOOLEAN,
           NEW s, s = NoSender \/ s \in SenderOf(name, count, trust),
           NEW a, NEW b, NEW o \in ticked(s, a, b)
    PROVE  HandsOut(s, a, b, name, count, trust, o.words, kept(o.sender))
<1> USE DEF HandsOut
<1>1. ASSUME NEW t \in SenderOf(name, count, trust) PROVE active(t) /\ kept(t) = t /\ t # NoSender
  BY <1>1 DEF SenderOf, active, kept, NoSender
<1>2. CASE s = NoSender
  BY <1>2, OutIs DEF NoSender, active, ticked, kept
<1>3. CASE s \in SenderOf(name, count, trust)
  <2>1. /\ s.at \in {"init", "stream", "hold"} /\ s.count = count /\ s.name = name
        /\ s.trust_pia = trust /\ s.index \in 1 .. count /\ active(s) /\ kept(s) = s
        /\ s # NoSender
    BY <1>1, <1>3 DEF SenderOf
  <2>2. CASE o = Out(s, IdleSlot) /\ s.at = "init" /\ b
    BY <2>1, <2>2, OutIs
  <2>3. CASE s.at = "init" /\ o = sendInit(s)
    <3> DEFINE t == [s EXCEPT !.inits = @ + 1]
    <3>1. t \in SenderOf(name, count, trust) /\ t.at = "init" /\ t.index = s.index
          /\ t.inits = s.inits + 1
      BY <1>3, <2>3 DEF SenderOf
    <3>2. o = Out(t, InitSlot(count))
      BY <2>1, <2>3 DEF sendInit
    <3> HIDE DEF t
    <3> QED
      BY <1>1, <2>1, <2>3, <3>1, <3>2, OutIs
  <2>4. CASE /\ s.at \in {"init", "stream"} /\ o = sendFrag(s) /\ s.index < count
             /\ s.at = "init" => armed(s, a)
    <3> DEFINE t == [s EXCEPT !.at = "stream", !.index = @ + 1]
    <3>0. s.index + 1 \in 1 .. count
      BY <2>1, <2>4
    <3>1. t \in SenderOf(name, count, trust) /\ t.at = "stream" /\ t.index = s.index + 1
      BY <1>3, <3>0 DEF SenderOf
    <3>2. o = Out(t, FragSlot(s.index, name))
      BY <2>1, <2>4 DEF sendFrag
    <3> HIDE DEF t
    <3> QED
      BY <1>1, <2>1, <2>4, <3>1, <3>2, OutIs
  <2>5. CASE /\ s.at \in {"init", "stream"} /\ o = sendFrag(s) /\ ~(s.index < count)
             /\ s.at = "init" => armed(s, a)
    <3> DEFINE t == [s EXCEPT !.at = IF s.trust_pia THEN "done" ELSE "hold", !.held = FALSE]
    <3>1. /\ trust => kept(t) = NoSender
          /\ ~trust => t \in SenderOf(name, count, trust) /\ t.at = "hold"
      BY <1>3, <2>1, <2>5 DEF SenderOf, kept, active
    <3>2. o = Out(t, FragSlot(count, name)) /\ s.index = count
      BY <2>1, <2>5 DEF sendFrag
    <3> HIDE DEF t
    <3> QED
      BY <1>1, <2>1, <2>5, <3>1, <3>2, OutIs
  <2>6. CASE s.at = "hold" /\ o \in hold(s, a)
    <3> DEFINE resend == [s EXCEPT !.gap = 0, !.held = TRUE]
               again  == [s EXCEPT !.gap = @ + 1]
               done   == [s EXCEPT !.at = "done"]
    <3>1. resend \in SenderOf(name, count, trust) /\ resend.at = "hold"
      BY <1>3, <2>6 DEF SenderOf
    <3>2. again \in SenderOf(name, count, trust) /\ again.at = "hold"
      BY <1>3, <2>6 DEF SenderOf
    <3>3. kept(done) = NoSender
      BY <1>3 DEF SenderOf, kept, active
    <3>4. \/ o = Out(done, IdleSlot) /\ returned(s, a)
          \/ o = Out(again, IdleSlot)
          \/ \E i \in 1 .. count : o = Out(resend, FragSlot(i, name))
      BY <2>1, <2>6 DEF hold
    <3> HIDE DEF resend, again, done
    <3> QED
      BY <1>1, <2>1, <2>6, <3>1, <3>2, <3>3, <3>4, OutIs
  <2>7. \/ o = Out(s, IdleSlot) /\ s.at = "init" /\ b
        \/ s.at = "init" /\ o = sendInit(s)
        \/ /\ s.at \in {"init", "stream"} /\ o = sendFrag(s)
           /\ s.at = "init" => armed(s, a)
        \/ s.at = "hold" /\ o \in hold(s, a)
    BY <2>1 DEF ticked
  <2> QED
    BY <2>2, <2>3, <2>4, <2>5, <2>6, <2>7
<1> QED
  BY <1>2, <1>3

LEMMA SlotKinds ==
    /\ IdleSlot.op = "idle" /\ ReqSlot.op = "req"
    /\ \A n : InitSlot(n).op = "init" /\ InitSlot(n).count = n
    /\ \A i, r : FragSlot(i, r).op = "block" /\ FragSlot(i, r).index = i /\ FragSlot(i, r).frag = r
BY DEF IdleSlot, ReqSlot, InitSlot, FragSlot

\* No sender hands out a request.
LEMMA WordsAreNoRequest ==
    ASSUME NEW name, NEW count \in Nat \ {0}, NEW trust \in BOOLEAN,
           NEW s, s = NoSender \/ s \in SenderOf(name, count, trust),
           NEW a, NEW b, NEW o \in ticked(s, a, b)
    PROVE  o.words # ReqSlot
<1>1. o.words \in {IdleSlot, InitSlot(count)} \/ \E i : o.words = FragSlot(i, name)
  <2>1. HandsOut(s, a, b, name, count, trust, o.words, kept(o.sender))
    BY Ticked
  <2> QED
    BY <2>1 DEF HandsOut
<1> QED
  BY <1>1, SlotKinds

-----------------------------------------------------------------------------
(* Sequences.                                                              *)

LEMMA TailIs ==
    ASSUME NEW S, NEW s \in Seq(S), s # << >>
    PROVE  /\ Head(s) = s[1] /\ Head(s) \in S /\ Len(s) \in Nat \ {0}
           /\ Tail(s) \in Seq(S) /\ Len(Tail(s)) = Len(s) - 1
           /\ \A n \in 1 .. Len(s) - 1 : n + 1 \in 1 .. Len(s) /\ Tail(s)[n] = s[n + 1]
BY HeadTailProperties, EmptySeq, LenProperties

LEMMA AppendIs ==
    ASSUME NEW S, NEW s \in Seq(S), NEW e \in S
    PROVE  /\ Append(s, e) \in Seq(S) /\ Len(s) \in Nat /\ Len(Append(s, e)) = Len(s) + 1
           /\ \A n \in 1 .. Len(s) : Append(s, e)[n] = s[n]
           /\ Append(s, e)[Len(s) + 1] = e
BY AppendProperties, LenProperties

\* The n-th element is taken out, the ones after it move up.
LEMMA RemoveAtIs ==
    ASSUME NEW S, NEW s \in Seq(S), NEW n \in 1 .. Len(s)
    PROVE  /\ RemoveAt(s, n) \in Seq(S) /\ Len(s) \in Nat /\ Len(RemoveAt(s, n)) = Len(s) - 1
           /\ \A k \in 1 .. Len(s) - 1 :
                  /\ k < n => k \in 1 .. Len(s) /\ RemoveAt(s, n)[k] = s[k]
                  /\ k >= n => k + 1 \in 1 .. Len(s) /\ RemoveAt(s, n)[k] = s[k + 1]
<1> DEFINE a == SubSeq(s, 1, n - 1)
           b == SubSeq(s, n + 1, Len(s))
<1>1. Len(s) \in Nat /\ n \in Nat \ {0} /\ n <= Len(s)
  BY LenProperties
<1>2. a \in Seq(S) /\ Len(a) = n - 1 /\ \A k \in 1 .. n - 1 : a[k] = s[k]
  BY <1>1, SubSeqProperties
<1>3. b \in Seq(S) /\ Len(b) = Len(s) - n /\ \A k \in 1 .. Len(s) - n : b[k] = s[n + k]
  BY <1>1, SubSeqProperties
<1> HIDE DEF a, b
<1>4. /\ a \o b \in Seq(S) /\ Len(a \o b) = Len(s) - 1
      /\ \A k \in 1 .. Len(s) - 1 : (a \o b)[k] = IF k <= n - 1 THEN a[k] ELSE b[k - (n - 1)]
  BY <1>1, <1>2, <1>3, ConcatProperties
<1>5. RemoveAt(s, n) = a \o b
  BY DEF RemoveAt, a, b
<1>6. ASSUME NEW k \in 1 .. Len(s) - 1
      PROVE  /\ k < n => k \in 1 .. Len(s) /\ (a \o b)[k] = s[k]
             /\ k >= n => k + 1 \in 1 .. Len(s) /\ (a \o b)[k] = s[k + 1]
  <2>1. CASE k < n
    BY <1>1, <1>2, <1>4, <2>1
  <2>2. CASE k >= n
    <3>1. k - (n - 1) \in 1 .. Len(s) - n /\ n + (k - (n - 1)) = k + 1
      BY <1>1, <2>2
    <3> QED
      BY <1>1, <1>3, <1>4, <2>2, <3>1
  <2> QED
    BY <2>1, <2>2
<1> QED
  BY <1>1, <1>4, <1>5, <1>6

-----------------------------------------------------------------------------
(* The rounds.                                                             *)

Row == [words : HostSlot, echo : EchoSlot]

LEMMA Bounds ==
    /\ Rounds \in Nat \ {0} /\ ChildFrags \in Nat \ {0} /\ HostFrags \in Nat \ {0}
    /\ Settle \in Nat \ {0} /\ OutstandingMax \in Nat \ {0}
BY ExchangeAssumption

\* A frame goes out; it is the only request, or none.
LEMMA RequestsAppended ==
    ASSUME downlink \in Seq(Row), NEW row \in Row, downlink' = Append(downlink, row)
    PROVE  /\ downlink' \in Seq(Row)
           /\ \A n : RequestAt(n)' <=> \/ RequestAt(n)
                                       \/ n = Len(downlink) + 1 /\ row.words = ReqSlot
           /\ \A n : RequestAt(n) => n # Len(downlink) + 1
           /\ DOMAIN downlink \subseteq DOMAIN downlink'
           /\ Len(downlink) + 1 \in DOMAIN downlink'
<1>1. /\ downlink' \in Seq(Row) /\ Len(downlink) \in Nat /\ Len(downlink') = Len(downlink) + 1
      /\ \A n \in 1 .. Len(downlink) : downlink'[n] = downlink[n]
      /\ downlink'[Len(downlink) + 1] = row
  BY AppendIs
<1>2. DOMAIN downlink = 1 .. Len(downlink) /\ DOMAIN downlink' = 1 .. Len(downlink) + 1
  BY <1>1, LenProperties
<1> QED
  BY <1>1, <1>2 DEF RequestAt

\* A frame lands; the others stand, in the order they went out.
LEMMA RequestsRemoved ==
    ASSUME downlink \in Seq(Row), NEW n \in DOMAIN downlink, downlink' = RemoveAt(downlink, n)
    PROVE  /\ downlink' \in Seq(Row)
           /\ \A k \in DOMAIN downlink' : RequestAt(k)' =>
                  \/ k < n /\ RequestAt(k)
                  \/ k >= n /\ RequestAt(k + 1)
           /\ n \in Nat /\ DOMAIN downlink' \subseteq Nat
<1>1. n \in 1 .. Len(downlink) /\ DOMAIN downlink = 1 .. Len(downlink)
  BY LenProperties
<1>2. /\ downlink' \in Seq(Row) /\ Len(downlink) \in Nat /\ Len(downlink') = Len(downlink) - 1
      /\ \A k \in 1 .. Len(downlink) - 1 :
             /\ k < n => k \in 1 .. Len(downlink) /\ downlink'[k] = downlink[k]
             /\ k >= n => k + 1 \in 1 .. Len(downlink) /\ downlink'[k] = downlink[k + 1]
  BY <1>1, RemoveAtIs
<1>3. DOMAIN downlink' = 1 .. Len(downlink) - 1
  BY <1>2, LenProperties
<1> QED
  BY <1>1, <1>2, <1>3 DEF RequestAt

\* The requests on their way are the same ones, or one less.
LEMMA RoundKept ==
    ASSUME RoundInv, UNCHANGED <<party_sent, expected, child_party>>,
           settling' => settling, req_due' => req_due,
           \/ UNCHANGED downlink
           \/ \E row \in Row : /\ downlink' = Append(downlink, row) /\ row.words # ReqSlot
                               /\ downlink \in Seq(Row)
           \/ \E n \in DOMAIN downlink : /\ downlink' = RemoveAt(downlink, n)
                                         /\ downlink \in Seq(Row)
    PROVE  RoundInv'
<1>1. /\ Requested' => Requested
      /\ req_due' => \A n \in DOMAIN downlink' : ~RequestAt(n)'
      /\ \A m, n \in DOMAIN downlink' : RequestAt(m)' /\ RequestAt(n)' => m = n
  <2>1. CASE UNCHANGED downlink
    BY <2>1 DEF RoundInv, Requested, RequestAt
  <2>2. CASE \E row \in Row : /\ downlink' = Append(downlink, row) /\ row.words # ReqSlot
                             /\ downlink \in Seq(Row)
    <3>1. \A n : RequestAt(n)' <=> RequestAt(n)
      BY <2>2, RequestsAppended
    <3>2. \A n : RequestAt(n) => n \in DOMAIN downlink
      BY DEF RequestAt
    <3> QED
      BY <3>1, <3>2 DEF RoundInv, Requested
  <2>3. ASSUME NEW n \in DOMAIN downlink, downlink' = RemoveAt(downlink, n), downlink \in Seq(Row)
        PROVE  /\ Requested' => Requested
               /\ req_due' => \A k \in DOMAIN downlink' : ~RequestAt(k)'
               /\ \A j, k \in DOMAIN downlink' : RequestAt(j)' /\ RequestAt(k)' => j = k
    <3>1. \A k \in DOMAIN downlink' : RequestAt(k)' =>
              k \in Nat /\ ((k < n /\ RequestAt(k)) \/ (k >= n /\ RequestAt(k + 1)))
      BY <2>3, RequestsRemoved
    <3>2. \A k : RequestAt(k)' => k \in DOMAIN downlink'
      BY DEF RequestAt
    <3>3. \A k : RequestAt(k) => k \in DOMAIN downlink
      BY DEF RequestAt
    <3>4. n \in Nat
      BY <2>3, RequestsRemoved
    <3>5. Requested' => Requested
      BY <3>1, <3>2, <3>3 DEF Requested
    <3>6. req_due' => \A k \in DOMAIN downlink' : ~RequestAt(k)'
      BY <3>1, <3>3 DEF RoundInv
    <3>7. ASSUME NEW j \in DOMAIN downlink', NEW k \in DOMAIN downlink',
                 RequestAt(j)', RequestAt(k)'
          PROVE  j = k
      BY <3>1, <3>3, <3>4, <3>7 DEF RoundInv
    <3> QED
      BY <3>5, <3>6, <3>7
  <2> QED
    BY <2>1, <2>2, <2>3
<1>2. Consumed' <=> Consumed
  BY DEF Consumed
<1> QED
  BY <1>1, <1>2 DEF RoundInv

-----------------------------------------------------------------------------
(* The joiner's slots.                                                     *)

LEMMA InitParty == Init => PartyInv
<1> SUFFICES ASSUME Init PROVE PartyInv
  OBVIOUS
<1>1. /\ expected = 1 /\ req_due = TRUE /\ blocks = <<1>> /\ host_sender = NoSender
      /\ rx = EmptyRecv /\ child_party = [r \in 1 .. Rounds |-> NoBlock] /\ settling = FALSE
      /\ echo_queue = << >> /\ echo_row = IdleSlot /\ child_sender = NoSender
      /\ party_sent = 0 /\ downlink = << >> /\ uplink = << >>
  BY DEF Init
<1>2. Len(uplink) = 0 /\ DOMAIN downlink = {}
  BY <1>1, EmptySeq
<1>3. ~streaming /\ Consumed
  BY <1>1 DEF streaming, Consumed
<1>4. LinkInv
  BY <1>1 DEF LinkInv, EchoSlot
<1>5. RoundInv
  BY <1>1, <1>2, <1>3, Bounds DEF RoundInv, RequestAt, Requested
<1>6. SenderInv
  BY <1>1, <1>3 DEF SenderInv
<1>7. PipeInv
  BY <1>1, <1>2, <1>3 DEF PipeInv, InitAt, FragAt, FreshAt
<1>8. RecvInv
  BY <1>1 DEF RecvInv, EmptyRecv
<1>9. ChildPartyIntact
  BY <1>1 DEF ChildPartyIntact
<1> QED
  BY <1>4, <1>5, <1>6, <1>7, <1>8, <1>9 DEF PartyInv

\* The host takes the oldest slot.
LEMMA PipeTail ==
    ASSUME PipeInv, uplink # << >>, uplink' = Tail(uplink), party_sent' = party_sent
    PROVE  /\ uplink' \in Seq(ChildSlot)
           /\ Len(uplink) \in Nat \ {0} /\ Head(uplink) = uplink[1] /\ Head(uplink) \in ChildSlot
           /\ \A n \in 1 .. Len(uplink') : /\ n + 1 \in 1 .. Len(uplink) /\ n + 1 > 1
                                           /\ uplink'[n] = uplink[n + 1]
                                           /\ InitAt(n)' => InitAt(n + 1)
                                           /\ FragAt(n)' => FragAt(n + 1)
                                           /\ FreshAt(n)' <=> FreshAt(n + 1)
<1>1. /\ Head(uplink) = uplink[1] /\ Head(uplink) \in ChildSlot /\ Len(uplink) \in Nat \ {0}
      /\ uplink' \in Seq(ChildSlot) /\ Len(uplink') = Len(uplink) - 1
      /\ \A n \in 1 .. Len(uplink) - 1 : n + 1 \in 1 .. Len(uplink) /\ uplink'[n] = uplink[n + 1]
  BY TailIs DEF PipeInv
<1> QED
  BY <1>1 DEF InitAt, FragAt, FreshAt

LEMMA PipeShrinks ==
    ASSUME PipeInv, uplink # << >>, uplink' = Tail(uplink),
           UNCHANGED <<party_sent, child_sender>>,
           Consumed' => \A n \in 1 .. Len(uplink) : n > 1 => ~InitAt(n)
    PROVE  PipeInv'
<1>1. /\ uplink' \in Seq(ChildSlot)
      /\ \A n \in 1 .. Len(uplink') : /\ n + 1 \in 1 .. Len(uplink) /\ n + 1 > 1
                                      /\ uplink'[n] = uplink[n + 1]
                                      /\ InitAt(n)' => InitAt(n + 1)
                                      /\ FragAt(n)' => FragAt(n + 1)
                                      /\ FreshAt(n)' <=> FreshAt(n + 1)
  BY PipeTail
<1>2. ChildSlot' = ChildSlot /\ (streaming' <=> streaming)
  BY DEF ChildSlot, streaming
<1>3. Consumed' => \A n \in 1 .. Len(uplink') : ~InitAt(n)'
  BY <1>1
<1>4. \A m, n \in 1 .. Len(uplink') : m < n /\ InitAt(m)' /\ FragAt(n)' => FreshAt(n)'
  <2> SUFFICES ASSUME NEW m \in 1 .. Len(uplink'), NEW n \in 1 .. Len(uplink'),
                      m < n, InitAt(m)', FragAt(n)'
               PROVE  FreshAt(n)'
    OBVIOUS
  <2>1. InitAt(m + 1) /\ FragAt(n + 1) /\ m + 1 < n + 1
    BY <1>1
  <2> QED
    BY <1>1, <2>1 DEF PipeInv
<1>5. \A m, n \in 1 .. Len(uplink') : m < n /\ FreshAt(m)' => ~InitAt(n)'
  <2> SUFFICES ASSUME NEW m \in 1 .. Len(uplink'), NEW n \in 1 .. Len(uplink'),
                      m < n, FreshAt(m)', InitAt(n)'
               PROVE  FALSE
    OBVIOUS
  <2>1. InitAt(n + 1) /\ FreshAt(m + 1) /\ m + 1 < n + 1
    BY <1>1
  <2> QED
    BY <1>1, <2>1 DEF PipeInv
<1>6. streaming' => \A n \in 1 .. Len(uplink') : FreshAt(n)' => uplink'[n].index < child_sender'.index
  BY <1>1, <1>2 DEF PipeInv
<1> QED
  BY <1>1, <1>2, <1>3, <1>4, <1>5, <1>6 DEF PipeInv

LEMMA RecvShrinks ==
    ASSUME PipeInv, RecvInv, uplink # << >>, uplink' = Tail(uplink),
           UNCHANGED <<party_sent, child_sender, child_party, rx>>
    PROVE  RecvInv'
<1>1. \A n \in 1 .. Len(uplink') : /\ n + 1 \in 1 .. Len(uplink)
                                   /\ InitAt(n)' => InitAt(n + 1)
                                   /\ FragAt(n)' => FragAt(n + 1)
                                   /\ FreshAt(n)' <=> FreshAt(n + 1)
  BY PipeTail
<1>2. (Consumed' <=> Consumed) /\ (streaming' <=> streaming)
  BY DEF Consumed, streaming
<1> QED
  BY <1>1, <1>2 DEF RecvInv

\* The joiner puts a slot on its way: INIT only before the first fragment,
\* fragments of a block under way only in turn.
LEMMA PipeGrows ==
    ASSUME PipeInv, RecvInv, SenderInv, NEW w,
           \/ w = IdleSlot
           \/ w = InitSlot(ChildFrags) /\ streaming /\ child_sender.index = 1
           \/ \E i \in 1 .. ChildFrags : w = FragSlot(i, party_sent) /\ party_sent \in Nat \ {0},
           streaming' => /\ streaming
                         /\ child_sender'.index \in Nat /\ child_sender.index \in Nat
                         /\ child_sender'.index >= child_sender.index
                         /\ w.op = "block" => w.index < child_sender'.index,
           uplink' = Append(uplink, w),
           UNCHANGED <<party_sent, child_party, rx>>
    PROVE  PipeInv' /\ RecvInv'
<1>0. PICK top : top = Len(uplink) + 1
  OBVIOUS
<1> DEFINE L == Len(uplink)
<1>1. w \in ChildSlot
  BY DEF ChildSlot
<1>2. /\ uplink' \in Seq(ChildSlot) /\ L \in Nat /\ top = L + 1 /\ Len(uplink') = top
      /\ \A n \in 1 .. L : uplink'[n] = uplink[n]
      /\ uplink'[top] = w
  BY <1>0, <1>1, AppendIs DEF PipeInv
<1> HIDE DEF L
<1>3. /\ (Consumed' <=> Consumed) /\ ChildSlot' = ChildSlot
      /\ \A n \in 1 .. L : (InitAt(n)' <=> InitAt(n)) /\ (FragAt(n)' <=> FragAt(n)) /\ (FreshAt(n)' <=> FreshAt(n))
  BY <1>2 DEF Consumed, ChildSlot, InitAt, FragAt, FreshAt, L
<1>4. CASE w = InitSlot(ChildFrags) /\ streaming /\ child_sender.index = 1
  <2>1. ~Consumed
    BY <1>4 DEF SenderInv
  <2>2. \A n \in 1 .. L : ~FreshAt(n)
    <3>1. \A n \in 1 .. L : FreshAt(n) => uplink[n].index \in Nat \ {0}
      BY <1>2, SlotKinds DEF PipeInv, ChildSlot, FreshAt, FragAt, L, InitSlot, IdleSlot, FragSlot
    <3> QED
      BY <1>4, <3>1 DEF PipeInv, L
  <2>3. InitAt(top)' /\ ~FragAt(top)' /\ ~FreshAt(top)'
    BY <1>2, <1>4, SlotKinds DEF InitAt, FragAt, FreshAt
  <2>4. \A n \in 1 .. top : n \in 1 .. L \/ n = top
    BY <1>2
  <2>5. PipeInv'
    <3>1. \A m, n \in 1 .. top : m < n /\ InitAt(m)' /\ FragAt(n)' => FreshAt(n)'
      BY <1>2, <1>3, <2>3, <2>4 DEF PipeInv, L
    <3>2. \A n \in 1 .. top : ~FreshAt(n)'
      BY <1>3, <2>2, <2>3, <2>4
    <3> QED
      BY <1>2, <1>3, <2>1, <3>1, <3>2 DEF PipeInv
  <2>6. RecvInv'
    <3>1. rx.receiving => rx.flags = {}
      <4>1. rx.receiving => \A i \in rx.flags : i \in Nat \ {0} /\ i < 1
        BY <1>4 DEF RecvInv
      <4> QED
        BY <4>1
    <3>2. rx.receiving => \A n \in 1 .. top : FragAt(n)' => FreshAt(n)'
      BY <1>3, <2>3, <2>4 DEF RecvInv, L
    <3> QED
      BY <1>2, <1>3, <3>1, <3>2 DEF RecvInv
  <2> QED
    BY <2>5, <2>6
<1>5. CASE w = IdleSlot \/ \E i \in 1 .. ChildFrags : w = FragSlot(i, party_sent)
  <2>1. /\ ~InitAt(top)' /\ (FragAt(top)' <=> FreshAt(top)')
        /\ FragAt(top)' => w.op = "block"
    BY <1>2, <1>5, SlotKinds DEF InitAt, FragAt, FreshAt
  <2>2. \A n \in 1 .. top : n \in 1 .. L \/ n = top
    BY <1>2
  <2>3. PipeInv'
    <3>1. Consumed' => \A n \in 1 .. top : ~InitAt(n)'
      BY <1>3, <2>1, <2>2 DEF PipeInv, L
    <3>2. \A m, n \in 1 .. top : m < n /\ InitAt(m)' /\ FragAt(n)' => FreshAt(n)'
      <4> SUFFICES ASSUME NEW m \in 1 .. top, NEW n \in 1 .. top, m < n, InitAt(m)', FragAt(n)'
                   PROVE  FreshAt(n)'
        OBVIOUS
      <4>1. CASE n = top
        BY <2>1, <4>1
      <4>2. CASE n \in 1 .. L
        <5>1. m \in 1 .. L
          BY <1>2, <4>2
        <5> QED
          BY <1>3, <4>2, <5>1 DEF PipeInv, L
      <4> QED
        BY <2>2, <4>1, <4>2
    <3>3. \A m, n \in 1 .. top : m < n /\ FreshAt(m)' => ~InitAt(n)'
      <4> SUFFICES ASSUME NEW m \in 1 .. top, NEW n \in 1 .. top, m < n, FreshAt(m)', InitAt(n)'
                   PROVE  FALSE
        OBVIOUS
      <4>1. n \in 1 .. L
        BY <2>1, <2>2
      <4>2. m \in 1 .. L
        BY <1>2, <4>1
      <4> QED
        BY <1>3, <4>1, <4>2 DEF PipeInv, L
    <3>4. streaming' => \A n \in 1 .. top : FreshAt(n)' => uplink'[n].index < child_sender'.index
      <4> SUFFICES ASSUME streaming', NEW n \in 1 .. top, FreshAt(n)'
                   PROVE  uplink'[n].index < child_sender'.index
        OBVIOUS
      <4>1. CASE n = top
        BY <1>2, <2>1, <4>1 DEF FreshAt
      <4>2. CASE n \in 1 .. L
        <5>1. uplink[n].index < child_sender.index /\ uplink'[n] = uplink[n]
          BY <1>2, <1>3, <4>2 DEF PipeInv, L
        <5>2. uplink[n].index \in Nat
          BY <1>3, <4>2, SlotKinds DEF PipeInv, ChildSlot, FreshAt, FragAt, L, InitSlot, IdleSlot, FragSlot
        <5> QED
          BY <5>1, <5>2
      <4> QED
        BY <2>2, <4>1, <4>2
    <3> QED
      BY <1>2, <1>3, <3>1, <3>2, <3>3, <3>4 DEF PipeInv
  <2>4. RecvInv'
    <3>1. rx.receiving => \A n \in 1 .. top : FragAt(n)' => FreshAt(n)'
      BY <1>3, <2>1, <2>2 DEF RecvInv, L
    <3>2. rx.receiving /\ rx.flags # {} => \A n \in 1 .. top : ~InitAt(n)'
      BY <1>3, <2>1, <2>2 DEF RecvInv, L
    <3>3. rx.receiving /\ streaming' => \A i \in rx.flags : i < child_sender'.index
      <4>1. rx.flags \subseteq 1 .. ChildFrags
        BY DEF RecvInv
      <4>2. rx.receiving /\ streaming => \A i \in rx.flags : i \in Nat /\ i < child_sender.index
        BY <4>1 DEF RecvInv
      <4> QED
        BY <4>2
    <3> QED
      BY <1>2, <1>3, <3>1, <3>2, <3>3 DEF RecvInv
  <2> QED
    BY <2>3, <2>4
<1> QED
  BY <1>4, <1>5

-----------------------------------------------------------------------------
(* The steps.                                                              *)

\* A step that leaves the joiner's blocks and its slots alone.
LEMMA BlocksKept ==
    ASSUME PipeInv, RecvInv, ChildPartyIntact,
           UNCHANGED <<party_sent, child_sender, child_party, rx, uplink>>
    PROVE  PipeInv' /\ RecvInv' /\ ChildPartyIntact'
<1>1. /\ (Consumed' <=> Consumed) /\ (streaming' <=> streaming) /\ ChildSlot' = ChildSlot
      /\ \A n : (InitAt(n)' <=> InitAt(n)) /\ (FragAt(n)' <=> FragAt(n)) /\ (FreshAt(n)' <=> FreshAt(n))
  BY DEF Consumed, streaming, ChildSlot, InitAt, FragAt, FreshAt
<1>2. PipeInv'
  BY <1>1 DEF PipeInv
<1>3. RecvInv'
  BY <1>1 DEF RecvInv
<1>4. ChildPartyIntact'
  BY DEF ChildPartyIntact
<1> QED
  BY <1>2, <1>3, <1>4

\* A frame goes out with the row it mirrors.
LEMMA FrameOut ==
    ASSUME LinkInv, NEW words \in HostSlot, emit(words)
    PROVE  /\ LinkInv'
           /\ \E row \in Row : row.words = words /\ downlink' = Append(downlink, row)
<1>1. echo_row' \in EchoSlot /\ echo_queue' \in Seq(EchoSlot)
  BY TailIs DEF LinkInv, emit
<1> DEFINE row == [words |-> words, echo |-> echo_row']
<1>2. row \in Row /\ row.words = words /\ downlink' = Append(downlink, row)
  BY <1>1 DEF Row, emit
<1> HIDE DEF row
<1>3. downlink' \in Seq(Row)
  BY <1>2, AppendIs DEF LinkInv, Row
<1> QED
  BY <1>1, <1>2, <1>3 DEF LinkInv, Row

LEMMA SenderKept ==
    ASSUME SenderInv, UNCHANGED <<party_sent, child_sender, child_party>>,
           host_sender' = NoSender \/ \E r \in Nat : host_sender' \in SenderOf(r, HostFrags, TRUE),
           blocks' \in Seq(Nat)
    PROVE  SenderInv'
BY DEF SenderInv, Consumed, streaming, Sender

LEMMA hostRequestStep == ASSUME PartyInv, hostRequest PROVE PartyInv'
<1>1. /\ req_due /\ ~req_due' /\ emit(ReqSlot)
      /\ UNCHANGED <<blocks, host_sender, expected, rx, child_party, settling, child_sender,
                     party_sent, uplink>>
  BY DEF hostRequest, emit, childVars
<1>2. ReqSlot \in HostSlot
  BY DEF HostSlot
<1>3. LinkInv'
  BY <1>1, <1>2, FrameOut DEF PartyInv
<1>4. PICK row \in Row : row.words = ReqSlot /\ downlink' = Append(downlink, row)
  BY <1>1, <1>2, FrameOut DEF PartyInv
<1>5. /\ \A n : RequestAt(n)' <=> (RequestAt(n) \/ n = Len(downlink) + 1)
      /\ \A n : ~RequestAt(n)
  <2>1. downlink \in Seq(Row)
    BY DEF PartyInv, LinkInv, Row
  <2>2. \A n : RequestAt(n) => n \in DOMAIN downlink
    BY DEF RequestAt
  <2> QED
    BY <1>1, <1>4, <2>1, <2>2, RequestsAppended DEF PartyInv, RoundInv
<1>6. RoundInv'
  <2>1. Requested /\ (Consumed' <=> Consumed)
    BY <1>1 DEF Requested, Consumed
  <2>2. \A m, n : RequestAt(m)' /\ RequestAt(n)' => m = n
    BY <1>5
  <2> QED
    BY <1>1, <2>1, <2>2 DEF PartyInv, RoundInv
<1>7. SenderInv'
  BY <1>1, SenderKept DEF PartyInv, SenderInv
<1> QED
  BY <1>1, <1>3, <1>6, <1>7, BlocksKept DEF PartyInv

\* What the host's sender hands out.
LEMMA HostWords ==
    ASSUME PartyInv, NEW o \in ticked(current, EmptyRecv, FALSE)
    PROVE  /\ o.words \in HostSlot /\ o.words # ReqSlot
           /\ \/ kept(o.sender) = NoSender
              \/ \E r \in Nat : kept(o.sender) \in SenderOf(r, HostFrags, TRUE)
<1>1. PICK r \in Nat : current = NoSender \/ current \in SenderOf(r, HostFrags, TRUE)
  <2>1. CASE ~active(host_sender) /\ blocks # << >>
    <3>1. Head(blocks) \in Nat
      BY <2>1, TailIs DEF PartyInv, SenderInv
    <3>2. current \in SenderOf(Head(blocks), HostFrags, TRUE)
      BY <2>1, <3>1, Bounds DEF current, NewSender, SenderOf
    <3> QED
      BY <3>1, <3>2
  <2>2. CASE ~(~active(host_sender) /\ blocks # << >>)
    BY <2>2 DEF current, PartyInv, SenderInv
  <2> QED
    BY <2>1, <2>2
<1>2. /\ o.words \in HostSlot /\ o.words # ReqSlot
      /\ kept(o.sender) = NoSender \/ kept(o.sender) \in SenderOf(r, HostFrags, TRUE)
  <2>1. HostFrags \in Nat \ {0} /\ TRUE \in BOOLEAN
    BY Bounds
  <2>2. o.words # ReqSlot
    BY <1>1, <2>1, WordsAreNoRequest
  <2>3. o.words \in HostSlot
    <3>1. CASE current = NoSender
      <4>1. o.words = IdleSlot
        <5>1. current.at = "none"
          BY <3>1 DEF NoSender
        <5>2. ticked(current, EmptyRecv, FALSE) = {Out(current, IdleSlot)}
          BY <5>1 DEF ticked, active
        <5> QED
          BY <5>2, OutIs
      <4> QED
        BY <4>1 DEF HostSlot
    <3>2. CASE current \in SenderOf(r, HostFrags, TRUE)
      <4>1. current.index \in 1 .. HostFrags /\ HostFrags \in 1 .. HostFrags
        BY <2>1, <3>2 DEF SenderOf
      <4>2. \/ o.words = IdleSlot \/ o.words = InitSlot(HostFrags)
            \/ o.words = FragSlot(current.index, r) \/ o.words = FragSlot(HostFrags, r)
            \/ o.words \in {FragSlot(i, r) : i \in 1 .. HostFrags}
        <5>1. \/ o.words = IdleSlot \/ o.words = InitSlot(HostFrags)
              \/ o.words = FragSlot(current.index, r) \/ o.words = FragSlot(HostFrags, r)
              \/ o.words \in {IdleSlot} \cup {FragSlot(i, r) : i \in 1 .. HostFrags}
          BY <1>1, <2>1, Ticked, Zenon DEF HandsOut
        <5> QED
          BY <5>1
      <4>3. \A i \in 1 .. HostFrags : FragSlot(i, r) \in HostSlot
        BY DEF HostSlot
      <4>4. IdleSlot \in HostSlot /\ InitSlot(HostFrags) \in HostSlot
        BY DEF HostSlot
      <4> QED
        BY <4>1, <4>2, <4>3, <4>4
    <3> QED
      BY <1>1, <3>1, <3>2
  <2>4. kept(o.sender) = NoSender \/ kept(o.sender) \in SenderOf(r, HostFrags, TRUE)
    BY <1>1, <2>1, Ticked DEF HandsOut
  <2> QED
    BY <2>2, <2>3, <2>4
<1> QED
  BY <1>2

LEMMA hostSendStep == ASSUME PartyInv, hostSend PROVE PartyInv'
<1>1. PICK o \in ticked(current, EmptyRecv, FALSE) :
          host_sender' = kept(o.sender) /\ emit(o.words)
  BY DEF hostSend, kept
<1>2. UNCHANGED <<req_due, expected, rx, child_party, settling, child_sender, party_sent, uplink>>
  BY <1>1 DEF hostSend, emit, childVars
<1>4. /\ o.words \in HostSlot /\ o.words # ReqSlot
      /\ host_sender' = NoSender \/ \E r \in Nat : host_sender' \in SenderOf(r, HostFrags, TRUE)
  BY <1>1, HostWords
<1>5. blocks' \in Seq(Nat)
  BY TailIs DEF hostSend, PartyInv, SenderInv
<1>6. LinkInv'
  BY <1>1, <1>4, FrameOut DEF PartyInv
<1>7. PICK row \in Row : row.words = o.words /\ downlink' = Append(downlink, row)
  BY <1>1, <1>4, FrameOut DEF PartyInv
<1>8. RoundInv'
  BY <1>2, <1>4, <1>7, RoundKept DEF PartyInv, LinkInv, Row
<1>9. SenderInv'
  BY <1>2, <1>4, <1>5, SenderKept DEF PartyInv
<1> QED
  BY <1>2, <1>6, <1>8, <1>9, BlocksKept DEF PartyInv

LEMMA MirrorStep ==
    ASSUME LinkInv, PipeInv, uplink # << >>, mirror(Head(uplink))
    PROVE  LinkInv'
<1>1. Head(uplink) \in ChildSlot
  BY TailIs DEF PipeInv
<1>2. Head(uplink) \in EchoSlot
  <2>1. CASE Head(uplink) \in {IdleSlot, InitSlot(ChildFrags)}
    BY <2>1 DEF EchoSlot
  <2>2. CASE Head(uplink) \notin {IdleSlot, InitSlot(ChildFrags)}
    <3>1. PICK i \in 1 .. ChildFrags, r \in 1 .. party_sent : Head(uplink) = FragSlot(i, r)
      BY <1>1, <2>2 DEF ChildSlot
    <3> QED
      BY <3>1 DEF EchoSlot
  <2> QED
    BY <2>1, <2>2
<1>3. echo_queue' \in Seq(EchoSlot)
  BY <1>2, AppendIs DEF mirror, LinkInv
<1> QED
  BY <1>3 DEF mirror, LinkInv

LEMMA hostIdleStep == ASSUME PartyInv, hostIdle PROVE PartyInv'
<1>1. /\ uplink # << >> /\ Head(uplink) = IdleSlot /\ mirror(IdleSlot)
      /\ uplink' = Tail(uplink)
      /\ UNCHANGED <<rx, child_party, host_sender, child_sender, party_sent, downlink>>
  BY DEF hostIdle, mirror, childVars
<1>2. LinkInv'
  BY <1>1, MirrorStep DEF PartyInv
<1>3. PipeInv'
  <2>1. Consumed' <=> Consumed
    BY <1>1 DEF Consumed
  <2> QED
    BY <1>1, <2>1, PipeShrinks DEF PartyInv, PipeInv
<1>4. RecvInv'
  BY <1>1, RecvShrinks DEF PartyInv
<1>5. ChildPartyIntact'
  BY <1>1 DEF PartyInv, ChildPartyIntact
<1>6. CASE UNCHANGED <<expected, req_due, blocks, settling>>
  <2>1. RoundInv'
    BY <1>1, <1>6, RoundKept DEF PartyInv
  <2>2. SenderInv'
    BY <1>1, <1>6, SenderKept DEF PartyInv, SenderInv
  <2> QED
    BY <1>2, <1>3, <1>4, <1>5, <2>1, <2>2 DEF PartyInv
<1>7. CASE /\ settling /\ settling' = FALSE
           /\ expected' = IF more THEN expected + 1 ELSE 0
           /\ req_due' = more
           /\ blocks' = IF more THEN Append(blocks, expected + 1) ELSE blocks
  <2>1. expected = party_sent /\ Consumed /\ Consumed' /\ expected \in 0 .. Rounds
    BY <1>1, <1>7 DEF PartyInv, RoundInv, Consumed
  <2>2. \A n : ~RequestAt(n) /\ ~RequestAt(n)'
    <3>1. ~Requested
      BY <2>1, Bounds DEF PartyInv, RoundInv
    <3>2. \A n : ~RequestAt(n)
      BY <3>1 DEF Requested, RequestAt
    <3> QED
      BY <1>1, <3>2 DEF RequestAt
  <2>3. expected' \in 0 .. Rounds /\ (req_due' => expected' = party_sent + 1)
        /\ expected' \in {0, party_sent + 1}
    <3>1. CASE more
      BY <1>7, <2>1, <3>1, Bounds DEF more
    <3>2. CASE ~more
      <4>1. ~req_due' /\ expected' = 0
        BY <1>7, <3>2, Zenon
      <4> QED
        BY <2>1, <4>1, Bounds
    <3> QED
      BY <3>1, <3>2
  <2>4. RoundInv'
    BY <1>1, <1>7, <2>1, <2>2, <2>3 DEF PartyInv, RoundInv, Requested
  <2>5. blocks' \in Seq(Nat)
    BY <1>7, <2>1, Bounds, AppendIs DEF PartyInv, SenderInv
  <2>6. SenderInv'
    BY <1>1, <2>5, SenderKept DEF PartyInv, SenderInv
  <2> QED
    BY <1>2, <1>3, <1>4, <1>5, <2>4, <2>6 DEF PartyInv
<1> QED
  BY <1>6, <1>7 DEF hostIdle

\* A receiver that takes a fragment keeps its type.
LEMMA ReceiverTyped ==
    ASSUME NEW F, NEW B, NEW i \in Nat, NEW f \in F, NEW b \in B, NEW D, NEW d \in D,
           NEW s \in [count : Nat, flags : F, buf : B, receiving : BOOLEAN, done : {FALSE}, last : Nat]
    PROVE  [s EXCEPT !.last = i, !.flags = f, !.buf = b, !.done = d]
               \in [count : Nat, flags : F, buf : B, receiving : BOOLEAN, done : D, last : Nat]
OBVIOUS

\* What the host does with a slot that is no idle slot.
LEMMA hostBlockStep == ASSUME PartyInv, hostBlock PROVE PartyInv'
<1> DEFINE slot == Head(uplink)
           got == fed(rx, slot)
<1>1. /\ uplink # << >> /\ slot # IdleSlot /\ mirror(slot) /\ uplink' = Tail(uplink)
      /\ UNCHANGED <<expected, req_due, blocks, host_sender, child_sender, party_sent, downlink>>
      /\ IF got.done /\ ~rx.done
         THEN /\ rx' = consume(got)
              /\ child_party' = IF expected = 0 THEN child_party
                                ELSE [child_party EXCEPT ![expected] = got.buf]
              /\ settling' = (settling \/ expected # 0)
         ELSE rx' = got /\ UNCHANGED <<child_party, settling>>
  BY DEF hostBlock, mirror, childVars
<1>2. LinkInv'
  BY <1>1, MirrorStep DEF PartyInv
<1>3. /\ slot = uplink[1] /\ slot \in ChildSlot /\ 1 \in 1 .. Len(uplink)
      /\ Len(uplink) \in Nat \ {0}
      /\ \A n \in 1 .. Len(uplink') : /\ n + 1 \in 1 .. Len(uplink) /\ n + 1 > 1
                                      /\ uplink'[n] = uplink[n + 1]
                                      /\ InitAt(n)' => InitAt(n + 1)
                                      /\ FragAt(n)' => FragAt(n + 1)
                                      /\ FreshAt(n)' <=> FreshAt(n + 1)
  BY <1>1, PipeTail DEF PartyInv
<1>4. /\ rx.count \in Nat /\ rx.flags \subseteq 1 .. ChildFrags /\ rx.done = FALSE
      /\ rx.receiving \in BOOLEAN
      /\ rx \in [count : Nat, flags : SUBSET (1 .. ChildFrags), buf : {<< >>} \cup [1 .. ChildFrags -> Nat],
                 receiving : BOOLEAN, done : {FALSE}, last : Nat]
  BY DEF PartyInv, RecvInv
<1>5. streaming' <=> streaming
  BY <1>1 DEF streaming
<1> HIDE DEF slot, got
\* Nothing is consumed.
<1>6. ASSUME UNCHANGED <<child_party, settling>>, RecvInv' PROVE PartyInv'
  <2>1. Consumed' <=> Consumed
    BY <1>1, <1>6 DEF Consumed
  <2>2. RoundInv'
    BY <1>1, <1>6, RoundKept DEF PartyInv
  <2>3. SenderInv'
    BY <1>1, <1>6, SenderKept DEF PartyInv, SenderInv
  <2>4. PipeInv'
    BY <1>1, <2>1, PipeShrinks DEF PartyInv, PipeInv
  <2>5. ChildPartyIntact'
    BY <1>6 DEF PartyInv, ChildPartyIntact
  <2> QED
    BY <1>2, <1>6, <2>2, <2>3, <2>4, <2>5 DEF PartyInv
<1>7. CASE slot = InitSlot(ChildFrags)
  <2>1. InitAt(1) /\ got = on_init(rx, ChildFrags)
    BY <1>3, <1>7, SlotKinds DEF InitAt, got, fed
  <2>2. ~Consumed /\ \A n \in 1 .. Len(uplink) : n > 1 /\ FragAt(n) => FreshAt(n)
    BY <1>3, <2>1 DEF PartyInv, PipeInv
  <2>3. ~got.done /\ got.receiving /\ got.flags = {} /\ got.count = ChildFrags
        /\ got.buf \in [1 .. ChildFrags -> Nat]
        /\ got \in [count : Nat, flags : SUBSET (1 .. ChildFrags), buf : {<< >>} \cup [1 .. ChildFrags -> Nat],
                    receiving : BOOLEAN, done : {FALSE}, last : Nat]
    <3>1. CASE rx.receiving /\ rx.count = ChildFrags
      <4>1. got = rx
        BY <1>4, <2>1, <3>1 DEF on_init
      <4> QED
        BY <1>3, <1>4, <2>1, <3>1, <4>1 DEF PartyInv, RecvInv
    <3>2. CASE ~(rx.receiving /\ rx.count = ChildFrags)
      <4>1. got = opened(ChildFrags)
        BY <1>4, <2>1, <3>2 DEF on_init
      <4> QED
        BY <4>1, Bounds DEF opened, NoFrag
    <3> QED
      BY <3>1, <3>2
  <2>4. rx' = got /\ UNCHANGED <<child_party, settling>>
    BY <1>1, <2>3
  <2>5. ~Consumed'
    BY <1>1, <2>2, <2>4 DEF Consumed
  <2>6. \A n \in 1 .. Len(uplink') : FragAt(n)' => FreshAt(n)'
    BY <1>3, <2>2
  <2>7. RecvInv'
    BY <2>3, <2>4, <2>5, <2>6 DEF RecvInv
  <2> QED
    BY <1>6, <2>4, <2>7
<1>8. ASSUME NEW i \in 1 .. ChildFrags, NEW r \in 1 .. party_sent, slot = FragSlot(i, r)
      PROVE  PartyInv'
  <2>1. FragAt(1) /\ uplink[1].frag = r /\ uplink[1].index = i /\ got = on_block(rx, i, r)
    BY <1>3, <1>8, SlotKinds DEF FragAt, got, fed
  <2>2. CASE ~rx.receiving
    <3>1. rx' = rx /\ UNCHANGED <<child_party, settling>>
      BY <1>1, <1>4, <2>1, <2>2 DEF on_block
    <3> QED
      BY <1>1, <1>6, <3>1, RecvShrinks DEF PartyInv
  <2>3. CASE rx.receiving
    <3>1. /\ ~Consumed /\ rx.count = ChildFrags /\ rx.buf \in [1 .. ChildFrags -> Nat]
          /\ \A k \in rx.flags : rx.buf[k] = party_sent
          /\ FreshAt(1) /\ r = party_sent
          /\ \A n \in 1 .. Len(uplink) : FragAt(n) => FreshAt(n)
      BY <1>3, <2>1, <2>3 DEF PartyInv, RecvInv, FreshAt
    <3>2. \A n \in 1 .. Len(uplink) : n > 1 => ~InitAt(n)
      BY <1>3, <3>1 DEF PartyInv, PipeInv
    <3>3. streaming => i < child_sender.index /\ \A k \in rx.flags : k < child_sender.index
      BY <1>3, <2>1, <2>3, <3>1 DEF PartyInv, PipeInv, RecvInv
    <3> DEFINE all == rx.flags \cup {i}
               buf == [rx.buf EXCEPT ![i] = r]
               end == rx.done \/ complete(rx.flags \cup {i}, rx.count)
    <3>0. end \in BOOLEAN /\ (end <=> complete(all, ChildFrags))
      BY <1>4, <3>1 DEF complete
    <3>4. got = [rx EXCEPT !.last = i, !.flags = all, !.buf = buf, !.done = end]
      <4>1. i \in 1 .. rx.count
        BY <3>1
      <4> QED
        BY <2>1, <2>3, <4>1 DEF on_block
    <3>5. /\ all \subseteq 1 .. ChildFrags /\ all # {} /\ buf \in [1 .. ChildFrags -> Nat]
          /\ \A k \in all : buf[k] = party_sent
          /\ streaming => \A k \in all : k < child_sender.index
      <4>1. r \in Nat /\ i \in Nat
        BY <3>1 DEF PartyInv, RoundInv
      <4> QED
        BY <1>4, <3>1, <3>3, <4>1
    <3>6. got.flags = all /\ got.buf = buf /\ got.count = ChildFrags /\ got.receiving
      BY <1>4, <2>3, <3>1, <3>4
    <3> HIDE DEF all, buf, end
    <3>10. /\ i \in Nat /\ all \in SUBSET (1 .. ChildFrags)
           /\ buf \in {<< >>} \cup [1 .. ChildFrags -> Nat]
      BY <3>5
    <3>9. got.done = end
      BY <1>4, <3>4
    <3>7. CASE ~complete(all, ChildFrags)
      <4>1. rx' = got /\ UNCHANGED <<child_party, settling>>
        BY <1>1, <3>0, <3>7, <3>9
      <4>2. ~Consumed'
        BY <1>1, <3>1, <4>1 DEF Consumed
      <4>3. \A n \in 1 .. Len(uplink') : (FragAt(n)' => FreshAt(n)') /\ ~InitAt(n)'
        BY <1>3, <3>1, <3>2
      <4>4. end = FALSE
        BY <3>0, <3>7, Zenon
      <4>5. got \in [count : Nat, flags : SUBSET (1 .. ChildFrags), buf : {<< >>} \cup [1 .. ChildFrags -> Nat],
                     receiving : BOOLEAN, done : {FALSE}, last : Nat]
        BY <1>4, <3>4, <3>10, <4>4, ReceiverTyped
      <4>6. RecvInv'
        BY <1>1, <1>5, <3>5, <3>6, <4>1, <4>2, <4>3, <4>5 DEF RecvInv
      <4> QED
        BY <1>6, <4>1, <4>6
    <3>8. CASE complete(all, ChildFrags)
      <4>1. all = 1 .. ChildFrags
        BY <3>8 DEF complete
      <4>2. ~streaming /\ ~streaming'
        <5>1. child_sender # NoSender => child_sender.index \in 1 .. ChildFrags
          BY DEF PartyInv, SenderInv, Sender, SenderOf
        <5>2. ChildFrags \in all
          BY <4>1, Bounds
        <5>3. streaming => child_sender # NoSender
          BY DEF streaming
        <5> QED
          BY <1>5, <3>5, <5>1, <5>2, <5>3, Bounds
      <4>3. expected = party_sent /\ party_sent \in 1 .. Rounds
        BY <3>1 DEF PartyInv, RoundInv, Consumed
      <4>4. /\ rx' = consume(got) /\ child_party' = [child_party EXCEPT ![expected] = got.buf]
            /\ settling' = (settling \/ expected # 0)
        <5>1. got.done /\ ~rx.done /\ expected # 0
          <6>1. got.done
            BY <3>0, <3>8, <3>9
          <6> QED
            BY <1>4, <4>3, <6>1
        <5> QED
          BY <1>1, <5>1
      <4>5. buf = [k \in 1 .. ChildFrags |-> party_sent] /\ buf # NoBlock
        <5>1. buf = [k \in 1 .. ChildFrags |-> party_sent]
          BY <3>5, <4>1
        <5>2. DOMAIN buf # {}
          BY <5>1, Bounds
        <5> QED
          BY <5>1, <5>2 DEF NoBlock
      <4>6. /\ child_party'[party_sent] = buf
            /\ \A k \in 1 .. Rounds : k # party_sent => child_party'[k] = child_party[k]
            /\ DOMAIN child_party' = 1 .. Rounds
        BY <3>6, <4>3, <4>4 DEF PartyInv, RoundInv
      <4>7. Consumed'
        BY <1>1, <4>5, <4>6 DEF Consumed
      <4>8. settling'
        <5>1. expected # 0
          BY <4>3
        <5> QED
          BY <4>4, <5>1, Zenon
      <4>9. RoundInv'
        <5>1. Requested' <=> Requested
          BY <1>1 DEF Requested, RequestAt
        <5>2. \A n : RequestAt(n)' <=> RequestAt(n)
          BY <1>1 DEF RequestAt
        <5> QED
          BY <1>1, <4>3, <4>6, <4>7, <5>1, <5>2 DEF PartyInv, RoundInv
      <4>10. SenderInv'
        BY <1>1, <4>2 DEF PartyInv, SenderInv, Sender
      <4>11. PipeInv'
        BY <1>1, <3>2, PipeShrinks DEF PartyInv
      <4>12. RecvInv'
        <5>1. rx' = [got EXCEPT !.receiving = FALSE, !.done = FALSE, !.flags = {}]
          BY <4>4 DEF consume
        <5>2. /\ rx' \in [count : Nat, flags : SUBSET (1 .. ChildFrags),
                          buf : {<< >>} \cup [1 .. ChildFrags -> Nat],
                          receiving : BOOLEAN, done : {FALSE}, last : Nat]
              /\ ~rx'.receiving
          <6>1. got \in [count : Nat, flags : SUBSET (1 .. ChildFrags),
                          buf : {<< >>} \cup [1 .. ChildFrags -> Nat],
                          receiving : BOOLEAN, done : BOOLEAN, last : Nat]
            BY <1>4, <3>0, <3>4, <3>10, ReceiverTyped
          <6> HIDE DEF got
          <6> QED
            BY <5>1, <6>1
        <5> QED
          BY <5>2 DEF RecvInv
      <4>13. ChildPartyIntact'
        BY <4>3, <4>5, <4>6 DEF PartyInv, ChildPartyIntact
      <4> QED
        BY <1>2, <4>9, <4>10, <4>11, <4>12, <4>13 DEF PartyInv
    <3> QED
      BY <3>7, <3>8
  <2> QED
    BY <2>2, <2>3
<1> QED
  BY <1>1, <1>3, <1>7, <1>8 DEF ChildSlot

LEMMA childReceiveStep == ASSUME PartyInv, NEW n \in Nat, childReceive(n) PROVE PartyInv'
<1>1. /\ n \in DOMAIN downlink /\ downlink' = RemoveAt(downlink, n) /\ land(downlink[n])
      /\ UNCHANGED <<expected, req_due, blocks, host_sender, rx, child_party, settling,
                     echo_queue, echo_row, uplink>>
  BY DEF childReceive, hostVars
<1>2. downlink \in Seq(Row) /\ downlink' \in Seq(Row)
  BY <1>1, RequestsRemoved DEF PartyInv, LinkInv, Row
<1>3. LinkInv'
  BY <1>1, <1>2 DEF PartyInv, LinkInv, Row
<1>4. CASE UNCHANGED <<child_sender, party_sent>>
  <2>1. RoundInv'
    BY <1>1, <1>2, <1>4, RoundKept DEF PartyInv
  <2>2. SenderInv'
    BY <1>1, <1>4, SenderKept DEF PartyInv, SenderInv
  <2> QED
    BY <1>1, <1>3, <1>4, <2>1, <2>2, BlocksKept DEF PartyInv
\* The joiner's next block: the one before it is in the host's hands, and
\* nothing of the next one is on its way.
<1>5. CASE downlink[n].words = ReqSlot /\ begin_send /\ party_sent' = party_sent + 1
  <2>1. RequestAt(n) /\ Requested
    BY <1>1, <1>5 DEF RequestAt, Requested
  <2>2. expected = party_sent' /\ expected \in 1 .. Rounds /\ party_sent \in Nat
        /\ Consumed /\ ~settling /\ ~req_due
    BY <1>1, <1>5, <2>1 DEF PartyInv, RoundInv
  <2>3. \A k \in DOMAIN downlink' : ~RequestAt(k)'
    <3> SUFFICES ASSUME NEW k \in DOMAIN downlink', RequestAt(k)' PROVE FALSE
      OBVIOUS
    <3>1. \/ k < n /\ RequestAt(k)
          \/ k >= n /\ RequestAt(k + 1)
      BY <1>1, <1>2, RequestsRemoved
    <3>2. k \in Nat
      BY <1>1, <1>2, RequestsRemoved
    <3>3. \A m : RequestAt(m) => m = n
      BY <2>1 DEF PartyInv, RoundInv, RequestAt
    <3> QED
      BY <3>1, <3>2, <3>3
  <2>4. child_party'[party_sent'] = NoBlock /\ ~Consumed'
    <3>1. party_sent' \in 1 .. Rounds /\ party_sent' > party_sent /\ party_sent' # 0
      BY <1>5, <2>2
    <3>2. child_party[party_sent'] = NoBlock
      BY <3>1 DEF PartyInv, RoundInv
    <3> QED
      BY <1>1, <3>1, <3>2 DEF Consumed
  <2>5. RoundInv'
    <3>1. ~Requested'
      BY <1>1, <2>2, <2>3 DEF Requested
    <3>2. \A r \in 1 .. Rounds : r > party_sent' => child_party'[r] = NoBlock
      BY <1>1, <1>5, <2>2 DEF PartyInv, RoundInv
    <3> QED
      BY <1>1, <1>5, <2>2, <2>3, <3>1, <3>2 DEF PartyInv, RoundInv
  <2>6. child_sender' = NewSender(party_sent', ChildFrags, FALSE)
    BY <1>5 DEF begin_send
  <2>7. /\ child_sender' \in Sender' /\ child_sender'.at = "init" /\ child_sender'.index = 1
        /\ party_sent' > 0
    BY <2>2, <2>6, Bounds DEF NewSender, Sender, SenderOf
  <2>8. SenderInv'
    BY <1>1, <2>4, <2>7 DEF PartyInv, SenderInv
  <2>9. ~rx.receiving /\ \A k \in 1 .. Len(uplink) : ~InitAt(k)
    BY <2>2 DEF PartyInv, RecvInv, PipeInv
  <2>10. \A k \in 1 .. Len(uplink) : ~InitAt(k)' /\ ~FreshAt(k)'
    <3>1. \A k \in 1 .. Len(uplink) : uplink[k].op = "block" => uplink[k].frag \in 1 .. party_sent
      <4> SUFFICES ASSUME NEW k \in 1 .. Len(uplink), uplink[k].op = "block"
                   PROVE  uplink[k].frag \in 1 .. party_sent
        OBVIOUS
      <4>1. uplink[k] \in ChildSlot
        BY ElementOfSeq DEF PartyInv, PipeInv
      <4>2. PICK i \in 1 .. ChildFrags, r \in 1 .. party_sent : uplink[k] = FragSlot(i, r)
        BY <4>1, SlotKinds DEF ChildSlot
      <4> QED
        BY <4>2, SlotKinds
    <3> QED
      BY <1>1, <1>5, <2>2, <2>9, <3>1 DEF InitAt, FreshAt, FragAt
  <2>11. uplink' \in Seq(ChildSlot')
    <3>1. ChildSlot \subseteq ChildSlot'
      BY <1>5, <2>2 DEF ChildSlot
    <3>2. uplink \in Seq(ChildSlot)
      BY DEF PartyInv, PipeInv
    <3>4. uplink \in Seq(ChildSlot')
      BY <3>1, <3>2, SeqMonotonic
    <3> QED
      BY <1>1, <3>4
  <2>12. PipeInv'
    BY <1>1, <2>4, <2>10, <2>11 DEF PipeInv
  <2>13. RecvInv'
    BY <1>1, <2>9 DEF PartyInv, RecvInv
  <2>14. ChildPartyIntact'
    BY <1>1 DEF PartyInv, ChildPartyIntact
  <2> QED
    BY <1>3, <2>5, <2>8, <2>12, <2>13, <2>14 DEF PartyInv
<1> QED
  BY <1>1, <1>4, <1>5 DEF land

\* What becomes of a sender of the joiner that ticks.
LEMMA SenderTicks ==
    ASSUME PartyInv, UNCHANGED <<host_sender, blocks, party_sent, child_party>>,
           \/ child_sender' = NoSender
           \/ child_sender' \in SenderOf(party_sent, ChildFrags, FALSE) /\ party_sent > 0,
           streaming' => streaming,
           streaming' /\ child_sender'.at = "init" => child_sender'.index = 1
    PROVE  SenderInv'
BY DEF PartyInv, SenderInv, Sender, Consumed

LEMMA childTickStep == ASSUME PartyInv, childTick PROVE PartyInv'
<1>1. PICK o \in ticked(child_sender, ack, peer_sending) :
          child_sender' = kept(o.sender) /\ uplink' = Append(uplink, o.words)
  BY DEF childTick, childSender, kept
<1>2. /\ UNCHANGED <<expected, req_due, blocks, host_sender, rx, child_party, settling,
                     echo_queue, echo_row, party_sent, downlink>>
  BY <1>1 DEF childTick, childSender, hostVars
<1>3. /\ child_sender = NoSender \/ child_sender \in SenderOf(party_sent, ChildFrags, FALSE)
      /\ child_sender # NoSender => party_sent \in Nat \ {0} /\ party_sent > 0
  <2>1. child_sender = NoSender \/ (child_sender \in Sender /\ party_sent > 0)
    BY DEF PartyInv, SenderInv
  <2>2. party_sent > 0 => party_sent \in Nat \ {0}
    BY Bounds DEF PartyInv, RoundInv
  <2> QED
    BY <2>1, <2>2 DEF Sender
<1>4. LinkInv' /\ RoundInv' /\ ChildPartyIntact'
  <2>1. LinkInv'
    BY <1>2 DEF PartyInv, LinkInv
  <2>2. RoundInv'
    BY <1>2, RoundKept DEF PartyInv
  <2>3. ChildPartyIntact'
    BY <1>2 DEF PartyInv, ChildPartyIntact
  <2> QED
    BY <2>1, <2>2, <2>3
<1>5. ASSUME child_sender \in SenderOf(party_sent, ChildFrags, FALSE)
      PROVE  child_sender.index \in 1 .. ChildFrags /\ child_sender # NoSender
             /\ child_sender.index \in Nat
  BY <1>5, Bounds DEF SenderOf, NoSender
<1>6. SenderInv' /\ PipeInv' /\ RecvInv'
  <2>1. CASE o.words = IdleSlot /\ child_sender' = child_sender
    <3>1. streaming' <=> streaming
      BY <2>1 DEF streaming
    <3>2. SenderInv'
      BY <1>2, <1>3, <2>1, <3>1, SenderTicks DEF PartyInv, SenderInv
    <3>3. streaming => child_sender.index \in Nat
      BY <1>3, <1>5 DEF streaming
    <3> QED
      BY <1>1, <1>2, <2>1, <3>1, <3>2, <3>3, SlotKinds, PipeGrows DEF PartyInv
  <2>2. CASE /\ child_sender # NoSender /\ child_sender.at = "init"
             /\ o.words = InitSlot(ChildFrags)
             /\ child_sender' \in SenderOf(party_sent, ChildFrags, FALSE)
             /\ child_sender'.at = "init" /\ child_sender'.index = child_sender.index
    <3>1. streaming /\ child_sender.index = 1 /\ child_sender'.index = 1
      BY <2>2 DEF streaming, PartyInv, SenderInv
    <3>2. SenderInv'
      BY <1>2, <1>3, <2>2, <3>1, SenderTicks
    <3> QED
      BY <1>1, <1>2, <2>2, <3>1, <3>2, SlotKinds, PipeGrows DEF PartyInv
  <2>3. CASE /\ child_sender # NoSender /\ child_sender.at \in {"init", "stream"}
             /\ child_sender.index < ChildFrags
             /\ o.words = FragSlot(child_sender.index, party_sent)
             /\ child_sender' \in SenderOf(party_sent, ChildFrags, FALSE)
             /\ child_sender'.at = "stream" /\ child_sender'.index = child_sender.index + 1
    <3>1. streaming /\ child_sender.index \in 1 .. ChildFrags /\ child_sender.index \in Nat
      BY <1>3, <1>5, <2>3 DEF streaming
    <3>2. SenderInv'
      BY <1>2, <1>3, <2>3, <3>1, SenderTicks
    <3>3. o.words.op = "block" /\ o.words.index = child_sender.index
      BY <2>3, SlotKinds
    <3> QED
      BY <1>1, <1>2, <1>3, <2>3, <3>1, <3>2, <3>3, PipeGrows DEF PartyInv
  <2>4. CASE /\ child_sender # NoSender
             /\ \/ o.words = IdleSlot
                \/ \E i \in 1 .. ChildFrags : o.words = FragSlot(i, party_sent)
             /\ \/ child_sender' = NoSender
                \/ /\ child_sender' \in SenderOf(party_sent, ChildFrags, FALSE)
                   /\ child_sender'.at = "hold"
    <3>1. ~streaming'
      BY <2>4 DEF streaming
    <3>2. SenderInv'
      BY <1>2, <1>3, <2>4, <3>1, SenderTicks
    <3> QED
      BY <1>1, <1>2, <1>3, <2>4, <3>1, <3>2, PipeGrows DEF PartyInv
  <2>5. ChildFrags \in Nat \ {0} /\ FALSE \in BOOLEAN /\ ChildFrags \in 1 .. ChildFrags
    BY Bounds
  <2>6. \/ o.words = IdleSlot /\ kept(o.sender) = child_sender
        \/ /\ child_sender # NoSender /\ child_sender.at = "init"
           /\ o.words = InitSlot(ChildFrags)
           /\ kept(o.sender) \in SenderOf(party_sent, ChildFrags, FALSE)
           /\ kept(o.sender).at = "init" /\ kept(o.sender).index = child_sender.index
        \/ /\ child_sender # NoSender /\ child_sender.at \in {"init", "stream"}
           /\ child_sender.index < ChildFrags
           /\ o.words = FragSlot(child_sender.index, party_sent)
           /\ kept(o.sender) \in SenderOf(party_sent, ChildFrags, FALSE)
           /\ kept(o.sender).at = "stream" /\ kept(o.sender).index = child_sender.index + 1
        \/ /\ child_sender # NoSender
           /\ o.words = FragSlot(ChildFrags, party_sent)
           /\ kept(o.sender) \in SenderOf(party_sent, ChildFrags, FALSE)
           /\ kept(o.sender).at = "hold"
        \/ /\ child_sender # NoSender
           /\ o.words \in {IdleSlot} \cup {FragSlot(i, party_sent) : i \in 1 .. ChildFrags}
           /\ \/ kept(o.sender) = NoSender
              \/ /\ kept(o.sender) \in SenderOf(party_sent, ChildFrags, FALSE)
                 /\ kept(o.sender).at = "hold"
    <3>1. HandsOut(child_sender, ack, peer_sending, party_sent, ChildFrags, FALSE, o.words, kept(o.sender))
      BY <1>3, <2>5, Ticked
    <3> QED
      BY <3>1 DEF HandsOut
  <2> QED
    BY <1>1, <2>1, <2>2, <2>3, <2>4, <2>5, <2>6
<1> QED
  BY <1>4, <1>6 DEF PartyInv

LEMMA childGatedStep == ASSUME PartyInv, childGated PROVE PartyInv'
<1>1. PICK o \in ticked(child_sender, ack, peer_sending) : child_sender' = kept(o.sender)
  BY DEF childGated, childSender, kept
<1>2. /\ UNCHANGED <<expected, req_due, blocks, host_sender, rx, child_party, settling,
                     echo_queue, echo_row, party_sent, downlink, uplink>>
      /\ child_sender.at = "hold"
  BY <1>1 DEF childGated, childSender, hostVars
<1>3. child_sender # NoSender /\ child_sender \in SenderOf(party_sent, ChildFrags, FALSE)
      /\ party_sent > 0 /\ ~streaming
  <2>1. child_sender # NoSender /\ ~streaming
    BY <1>2 DEF streaming, NoSender
  <2> QED
    BY <2>1 DEF PartyInv, SenderInv, Sender
<1>4. \/ child_sender' = NoSender
      \/ child_sender' \in SenderOf(party_sent, ChildFrags, FALSE) /\ child_sender'.at = "hold"
  <2>1. ChildFrags \in Nat \ {0} /\ FALSE \in BOOLEAN
    BY Bounds
  <2>2. \/ kept(o.sender) = child_sender
        \/ kept(o.sender) = NoSender
        \/ kept(o.sender) \in SenderOf(party_sent, ChildFrags, FALSE) /\ kept(o.sender).at = "hold"
    BY <1>2, <1>3, <2>1, Ticked DEF HandsOut
  <2> QED
    BY <1>1, <1>2, <1>3, <2>2
<1>5. ~streaming'
  BY <1>4 DEF streaming
<1>6. SenderInv'
  BY <1>2, <1>3, <1>4, <1>5, SenderTicks
<1>7. (Consumed' <=> Consumed) /\ ChildSlot' = ChildSlot
      /\ \A n : (InitAt(n)' <=> InitAt(n)) /\ (FragAt(n)' <=> FragAt(n)) /\ (FreshAt(n)' <=> FreshAt(n))
  BY <1>2 DEF Consumed, ChildSlot, InitAt, FragAt, FreshAt
<1>8. PipeInv'
  BY <1>2, <1>5, <1>7 DEF PartyInv, PipeInv
<1>9. RecvInv'
  BY <1>2, <1>5, <1>7 DEF PartyInv, RecvInv
<1>10. RoundInv'
  BY <1>2, RoundKept DEF PartyInv
<1>11. LinkInv' /\ ChildPartyIntact'
  BY <1>2 DEF PartyInv, LinkInv, ChildPartyIntact
<1> QED
  BY <1>6, <1>8, <1>9, <1>10, <1>11 DEF PartyInv

LEMMA NextParty == PartyInv /\ [Next]_vars => PartyInv'
<1> SUFFICES ASSUME PartyInv, [Next]_vars PROVE PartyInv'
  OBVIOUS
<1>1. CASE UNCHANGED vars
  <2>1. UNCHANGED <<expected, req_due, blocks, host_sender, rx, child_party, settling,
                    echo_queue, echo_row, child_sender, party_sent, downlink, uplink>>
    BY <1>1 DEF vars, hostVars, childVars
  <2>2. LinkInv' /\ SenderInv'
    BY <2>1, SenderKept DEF PartyInv, LinkInv, SenderInv
  <2>3. RoundInv'
    BY <2>1, RoundKept DEF PartyInv
  <2> QED
    BY <2>1, <2>2, <2>3, BlocksKept DEF PartyInv
<1>2. ASSUME NEW n \in 1 .. OutstandingMax, childReceive(n) PROVE PartyInv'
  BY <1>2, childReceiveStep, Bounds
<1> QED
  BY <1>1, <1>2, hostRequestStep, hostSendStep, hostIdleStep, hostBlockStep, childTickStep,
     childGatedStep DEF Next

\* The host's copy of each of the joiner's blocks is that block, whole, with any
\* number of rounds and fragments, whatever order the frames that ask for them
\* land in: HOLD's fragments never reach the block after theirs
\* (gba/block.py BlockSender and RecvBlock, frlg/link/host_trade.py _on_block).
THEOREM ChildPartyIsIntact == Spec => []ChildPartyIntact
<1>1. PartyInv => ChildPartyIntact
  BY DEF PartyInv
<1> QED
  BY <1>1, InitParty, NextParty, PTL DEF Spec
-----------------------------------------------------------------------------
(* The host's blocks, in any order.                                        *)

\* How far the host has come: so many fragments of that block are said.
Pos == [block : 0 .. Rounds, index : 0 .. HostFrags]

Moves(p, words, q) ==
    \/ words \in {IdleSlot, ReqSlot} /\ q = p
    \/ /\ words = InitSlot(HostFrags)
       /\ \/ p.index = HostFrags /\ q.block = p.block + 1 /\ q.index = 0
          \/ p.index = 0 /\ q = p
    \/ /\ p.index < HostFrags /\ words = FragSlot(p.index + 1, p.block)
       /\ q.block = p.block /\ q.index = p.index + 1

\* What the host has said with the sender s, what it is saying, and what waits.
saying(s, p) == IF s = NoSender THEN p.block ELSE s.name

SaidBy(s, waiting, total, p) ==
    /\ s # NoSender =>
          /\ s \in SenderOf(s.name, HostFrags, TRUE) /\ s.at \in {"init", "stream"}
          /\ s.at = "init" => s.index = 1
          /\ IF s.at = "init" /\ s.inits = 0
             THEN p.index = HostFrags /\ s.name = p.block + 1
             ELSE p.index = s.index - 1 /\ s.name = p.block
    /\ s = NoSender => p.index = HostFrags
    /\ waiting \in Seq(Nat)
    /\ saying(s, p) + Len(waiting) = total
    /\ \A k \in 1 .. Len(waiting) : waiting[k] = saying(s, p) + k

Said(p) == SaidBy(host_sender, blocks, asked, p)

\* Fragment i of block r is among what is said.
Uttered(p, i, r) == r \in 1 .. p.block /\ (r = p.block => i <= p.index)

\* Where it can be: on the link, in the block that is coming in, in one that was
\* counted.
OnLink(i, r) == \E n \in DOMAIN downlink : downlink[n].words = FragSlot(i, r)
ComingIn(i, r) ==
    host_rx.receiving /\ ~host_rx.done /\ i \in host_rx.flags /\ host_rx.buf[i] = r
Counted(i, r) == \E n \in DOMAIN host_party : host_party[n][i] = r

Receiver ==
    [count : Nat, flags : SUBSET (1 .. HostFrags), buf : {<< >>} \cup [1 .. HostFrags -> Nat],
     receiving : BOOLEAN, done : BOOLEAN, last : Nat]

HeardInv ==
    /\ host_party \in Seq([1 .. HostFrags -> Nat])
    /\ host_rx \in Receiver
    /\ host_rx.receiving => host_rx.count = HostFrags /\ host_rx.buf \in [1 .. HostFrags -> Nat]

\* A fragment is in one place.
PlaceInv ==
    \A i \in 1 .. HostFrags : \A r \in Nat :
        /\ ~(OnLink(i, r) /\ ComingIn(i, r))
        /\ ~(OnLink(i, r) /\ Counted(i, r))
        /\ ~(ComingIn(i, r) /\ Counted(i, r))

\* And there once.
OnceInv ==
    /\ \A i \in 1 .. HostFrags : \A r \in Nat : \A m, n \in DOMAIN downlink :
          downlink[m].words = FragSlot(i, r) /\ downlink[n].words = FragSlot(i, r) => m = n
    /\ \A i \in 1 .. HostFrags : \A m, n \in DOMAIN host_party :
          host_party[m][i] = host_party[n][i] => m = n

AllUttered(p) ==
    \A i \in 1 .. HostFrags : \A r \in Nat :
        OnLink(i, r) \/ ComingIn(i, r) \/ Counted(i, r) => Uttered(p, i, r)

SaidInv ==
    \E p \in Pos : Said(p) /\ AllUttered(p) /\ (p.block = 0 => p.index = HostFrags)

FragInv == HeardInv /\ PlaceInv /\ OnceInv /\ SaidInv

\* The host takes up the next block that waits.
LEMMA SaidCurrent ==
    ASSUME NEW p \in Pos, Said(p), hostSend
    PROVE  SaidBy(current, blocks', asked, p)
<1>0. /\ p.block \in 0 .. Rounds /\ blocks \in Seq(Nat)
      /\ blocks' = IF active(host_sender) \/ blocks = << >> THEN blocks ELSE Tail(blocks)
  BY DEF Pos, Said, SaidBy, hostSend
<1>1. host_sender # NoSender => active(host_sender)
  BY DEF Said, SaidBy, active
<1>2. ~active(NoSender)
  BY DEF active, NoSender
<1>3. CASE active(host_sender) \/ blocks = << >>
  <2>1. current = host_sender /\ blocks' = blocks
    BY <1>0, <1>3 DEF current
  <2> QED
    BY <2>1 DEF Said
<1>4. CASE ~active(host_sender) /\ blocks # << >>
  <2>1. host_sender = NoSender /\ p.index = HostFrags
    BY <1>1, <1>4 DEF Said, SaidBy
  <2>2. /\ Head(blocks) = blocks[1] /\ Len(blocks) \in Nat \ {0}
        /\ blocks' \in Seq(Nat) /\ Len(blocks') = Len(blocks) - 1
        /\ \A k \in 1 .. Len(blocks) - 1 : k + 1 \in 1 .. Len(blocks) /\ blocks'[k] = blocks[k + 1]
    BY <1>0, <1>4, TailIs
  <2>3. \A k \in 1 .. Len(blocks) : blocks[k] = p.block + k
    BY <2>1 DEF Said, SaidBy, saying
  <2>4. Head(blocks) = p.block + 1 /\ p.block + Len(blocks) = asked
    <3>1. 1 \in 1 .. Len(blocks)
      BY <2>2
    <3>2. p.block + Len(blocks) = asked
      BY <2>1 DEF Said, SaidBy, saying
    <3> QED
      BY <2>2, <2>3, <3>1, <3>2
  <2> DEFINE new == NewSender(p.block + 1, HostFrags, TRUE)
  <2>5. current = new
    BY <1>4, <2>4 DEF current
  <2>6. /\ new \in SenderOf(p.block + 1, HostFrags, TRUE) /\ new # NoSender /\ new.at = "init"
        /\ new.index = 1 /\ new.inits = 0 /\ new.name = p.block + 1
    BY <1>0, Bounds DEF NewSender, SenderOf, NoSender
  <2> HIDE DEF new
  <2>7. saying(new, p) = p.block + 1
    BY <2>6 DEF saying
  <2>8. saying(new, p) + Len(blocks') = asked
    BY <1>0, <2>2, <2>4, <2>7
  <2>9. \A k \in 1 .. Len(blocks') : blocks'[k] = saying(new, p) + k
    <3> SUFFICES ASSUME NEW k \in 1 .. Len(blocks') PROVE blocks'[k] = saying(new, p) + k
      OBVIOUS
    <3>1. k \in 1 .. Len(blocks) - 1 /\ k \in Nat /\ k + 1 \in 1 .. Len(blocks)
      BY <2>2
    <3>2. blocks'[k] = p.block + (k + 1)
      BY <2>2, <2>3, <3>1
    <3> QED
      BY <1>0, <2>7, <3>1, <3>2
  <2>10. SaidBy(new, blocks', asked, p)
    BY <2>1, <2>2, <2>6, <2>8, <2>9 DEF SaidBy
  <2> QED
    BY <2>5, <2>10
<1> QED
  BY <1>3, <1>4

\* A tick of the host's sender says one thing more.
LEMMA SaidNext ==
    ASSUME NEW p \in Pos, NEW s, NEW waiting, NEW total \in 0 .. Rounds,
           SaidBy(s, waiting, total, p), NEW o \in ticked(s, EmptyRecv, FALSE)
    PROVE  \E q \in Pos : Moves(p, o.words, q) /\ SaidBy(kept(o.sender), waiting, total, q)
<1> DEFINE k == kept(o.sender)
           S == SenderOf(s.name, HostFrags, TRUE)
<1>0. /\ p.block \in 0 .. Rounds /\ p.index \in 0 .. HostFrags
      /\ HostFrags \in Nat \ {0} /\ Rounds \in Nat \ {0}
      /\ waiting \in Seq(Nat) /\ Len(waiting) \in Nat
      /\ s = NoSender \/ s \in S
      /\ TRUE \in BOOLEAN
  BY Bounds, LenProperties DEF Pos, SaidBy
<1>1. HandsOut(s, EmptyRecv, FALSE, s.name, HostFrags, TRUE, o.words, k)
  BY <1>0, Ticked
<1> HIDE DEF k, S
<1>2. CASE s = NoSender
  <2>1. o.words = IdleSlot /\ k = s
    BY <1>1, <1>2 DEF HandsOut
  <2> QED
    BY <1>0, <2>1 DEF Moves, k
<1>3. CASE s # NoSender
  <2>1. /\ s \in S /\ s.at \in {"init", "stream"} /\ (s.at = "init" => s.index = 1)
        /\ saying(s, p) = s.name /\ s.name + Len(waiting) = total
        /\ \A n \in 1 .. Len(waiting) : waiting[n] = s.name + n
    BY <1>3 DEF SaidBy, saying, S
  <2>2. s.index \in 1 .. HostFrags /\ s.inits \in Nat
    BY <2>1 DEF SenderOf, S
  <2>3. /\ s.at = "init" /\ s.inits = 0 => p.index = HostFrags /\ s.name = p.block + 1
        /\ ~(s.at = "init" /\ s.inits = 0) => p.index = s.index - 1 /\ s.name = p.block
    BY <1>3 DEF SaidBy
  <2>4. s.name \in 0 .. Rounds
    BY <1>0, <2>1, <2>3
  <2>5. s.at = "init" /\ armed(s, EmptyRecv) => s.inits > 0
    BY <2>2, BlockAssumption DEF armed, EmptyRecv
  <2>6. ASSUME NEW t \in S, t.at \in {"init", "stream"} PROVE t # NoSender /\ t.name = s.name
    BY <2>6 DEF SenderOf, NoSender, S
  <2>7. CASE /\ s.at = "init" /\ o.words = InitSlot(HostFrags)
             /\ k \in S /\ k.at = "init" /\ k.index = s.index /\ k.inits = s.inits + 1
    <3> DEFINE q == [block |-> s.name, index |-> 0]
    <3>1. q \in Pos /\ q.block = s.name /\ q.index = 0
      BY <1>0, <2>4 DEF Pos
    <3>2. \/ p.index = HostFrags /\ q.block = p.block + 1 /\ q.index = 0
          \/ p.index = 0 /\ q = p
      <4>1. CASE s.inits = 0
        BY <2>3, <2>7, <3>1, <4>1
      <4>2. CASE s.inits # 0
        <5>1. p.index = 0 /\ p.block = s.name
          BY <2>1, <2>3, <2>7, <4>2
        <5> QED
          BY <5>1 DEF Pos
      <4> QED
        BY <4>1, <4>2
    <3> HIDE DEF q
    <3>3. Moves(p, o.words, q)
      BY <2>7, <3>2 DEF Moves
    <3>4. k # NoSender /\ k.name = s.name /\ k.index = 1 /\ k.inits # 0
      BY <2>1, <2>2, <2>6, <2>7
    <3>5. saying(k, q) = s.name
      BY <3>4 DEF saying
    <3>6. SaidBy(k, waiting, total, q)
      <4>1. k \in SenderOf(k.name, HostFrags, TRUE)
        BY <2>7, <3>4 DEF S
      <4> QED
        <5>1. q.index = k.index - 1 /\ q.block = k.name /\ k.index = 1
          BY <3>1, <3>4
        <5>2. ~(k.at = "init" /\ k.inits = 0) /\ k.at \in {"init", "stream"}
          BY <2>7, <3>4
        <5> QED
          BY <1>0, <2>1, <3>4, <3>5, <4>1, <5>1, <5>2 DEF SaidBy
    <3> QED
      BY <3>1, <3>3, <3>6 DEF k
  <2>8. CASE /\ s.index < HostFrags /\ (s.at = "init" => armed(s, EmptyRecv))
             /\ o.words = FragSlot(s.index, s.name)
             /\ k \in S /\ k.at = "stream" /\ k.index = s.index + 1
    <3> DEFINE q == [block |-> s.name, index |-> s.index]
    <3>1. q \in Pos /\ q.block = s.name /\ q.index = s.index
      BY <1>0, <2>2, <2>4 DEF Pos
    <3> HIDE DEF q
    <3>2. p.index = s.index - 1 /\ s.name = p.block
      BY <2>2, <2>3, <2>5, <2>8
    <3>3. Moves(p, o.words, q)
      BY <1>0, <2>2, <2>8, <3>1, <3>2 DEF Moves
    <3>4. k # NoSender /\ k.name = s.name
      BY <2>6, <2>8
    <3>5. saying(k, q) = s.name
      BY <3>4 DEF saying
    <3>6. SaidBy(k, waiting, total, q)
      <4>1. k \in SenderOf(k.name, HostFrags, TRUE)
        BY <2>8, <3>4 DEF S
      <4>2. q.index = k.index - 1 /\ q.block = k.name
        BY <2>2, <2>8, <3>1, <3>4
      <4> QED
        BY <1>0, <2>1, <2>8, <3>4, <3>5, <4>1, <4>2 DEF SaidBy
    <3> QED
      BY <3>1, <3>3, <3>6 DEF k
  <2>9. CASE /\ s.index = HostFrags /\ (s.at = "init" => armed(s, EmptyRecv))
             /\ o.words = FragSlot(HostFrags, s.name) /\ k = NoSender
    <3> DEFINE q == [block |-> s.name, index |-> HostFrags]
    <3>1. q \in Pos /\ q.block = s.name /\ q.index = HostFrags
      BY <1>0, <2>4 DEF Pos
    <3> HIDE DEF q
    <3>2. p.index = s.index - 1 /\ s.name = p.block
      BY <2>2, <2>3, <2>5, <2>9
    <3>3. Moves(p, o.words, q)
      BY <1>0, <2>2, <2>9, <3>1, <3>2 DEF Moves
    <3>4. saying(k, q) = s.name
      BY <2>9, <3>1 DEF saying
    <3>5. SaidBy(k, waiting, total, q)
      BY <1>0, <2>1, <2>9, <3>1, <3>4 DEF SaidBy
    <3> QED
      BY <3>1, <3>3, <3>5 DEF k
  <2> QED
    BY <1>1, <1>3, <2>1, <2>7, <2>8, <2>9 DEF HandsOut, S
<1> QED
  BY <1>2, <1>3

\* What is said stays said, and a fragment that is being said is new.
LEMMA UtteredGrows ==
    ASSUME NEW p \in Pos, NEW q \in Pos, NEW words, Moves(p, words, q),
           p.block = 0 => p.index = HostFrags
    PROVE  /\ q.block = 0 => q.index = HostFrags
           /\ \A i \in 1 .. HostFrags : \A r \in Nat : Uttered(p, i, r) => Uttered(q, i, r)
           /\ \A i \in 1 .. HostFrags : \A r \in Nat :
                 words = FragSlot(i, r) => Uttered(q, i, r) /\ ~Uttered(p, i, r)
<1>1. /\ p.block \in 0 .. Rounds /\ p.index \in 0 .. HostFrags
      /\ q.block \in 0 .. Rounds /\ q.index \in 0 .. HostFrags
      /\ Rounds \in Nat \ {0} /\ HostFrags \in Nat \ {0}
  BY Bounds DEF Pos
<1>2. CASE words \in {IdleSlot, ReqSlot} /\ q = p
  BY <1>2, SlotKinds
<1>3. CASE /\ words = InitSlot(HostFrags)
           /\ \/ p.index = HostFrags /\ q.block = p.block + 1 /\ q.index = 0
              \/ p.index = 0 /\ q = p
  <2>1. \A i, r : words # FragSlot(i, r)
    BY <1>3, SlotKinds
  <2>2. q.block = 0 => q.index = HostFrags
    BY <1>1, <1>3
  <2>3. ASSUME NEW i \in 1 .. HostFrags, NEW r \in Nat, Uttered(p, i, r) PROVE Uttered(q, i, r)
    BY <1>1, <1>3, <2>3 DEF Uttered
  <2> QED
    BY <2>1, <2>2, <2>3
<1>4. CASE /\ p.index < HostFrags /\ words = FragSlot(p.index + 1, p.block)
           /\ q.block = p.block /\ q.index = p.index + 1
  <2>1. p.block \in 1 .. Rounds
    BY <1>1, <1>4
  <2>2. ASSUME NEW i \in 1 .. HostFrags, NEW r \in Nat, Uttered(p, i, r) PROVE Uttered(q, i, r)
    BY <1>1, <1>4, <2>2 DEF Uttered
  <2>3. ASSUME NEW i \in 1 .. HostFrags, NEW r \in Nat, words = FragSlot(i, r)
        PROVE  Uttered(q, i, r) /\ ~Uttered(p, i, r)
    <3>1. i = p.index + 1 /\ r = p.block
      BY <1>4, <2>3, SlotKinds
    <3> QED
      BY <1>1, <1>4, <2>1, <3>1 DEF Uttered
  <2> QED
    BY <1>1, <1>4, <2>1, <2>2, <2>3
<1> QED
  BY <1>2, <1>3, <1>4 DEF Moves

LEMMA InitFragments == Init => FragInv
<1> SUFFICES ASSUME Init PROVE FragInv
  OBVIOUS
<1> DEFINE p == [block |-> 0, index |-> HostFrags]
<1>1. p \in Pos /\ p.block = 0 /\ p.index = HostFrags
  BY Bounds DEF Pos
<1> HIDE DEF p
<1>2. DOMAIN downlink = {} /\ DOMAIN host_party = {} /\ ~host_rx.receiving
      /\ host_party \in Seq([1 .. HostFrags -> Nat])
  BY EmptySeq DEF Init, EmptyRecv
<1>3. HeardInv
  BY <1>2 DEF HeardInv, Receiver, Init, EmptyRecv
<1>4. PlaceInv /\ OnceInv /\ AllUttered(p)
  BY <1>2 DEF PlaceInv, OnceInv, AllUttered, OnLink, ComingIn, Counted
<1>5. Said(p)
  <2>1. /\ host_sender = NoSender /\ blocks = <<1>> /\ expected = 1
    BY DEF Init
  <2>2. blocks \in Seq(Nat) /\ Len(blocks) = 1 /\ blocks[1] = 1
    BY <2>1
  <2>3. asked = 1 /\ saying(host_sender, p) = 0
    BY <1>1, <2>1 DEF asked, saying
  <2> QED
    BY <1>1, <2>1, <2>2, <2>3 DEF Said, SaidBy
<1> QED
  BY <1>1, <1>3, <1>4, <1>5 DEF FragInv, SaidInv

\* A step that neither sends, nor lands, nor moves the host's blocks.
LEMMA FragmentsKept ==
    ASSUME FragInv, UNCHANGED <<downlink, host_rx, host_party>>, SaidInv => SaidInv'
    PROVE  FragInv'
BY DEF FragInv, HeardInv, PlaceInv, OnceInv, OnLink, ComingIn, Counted

LEMMA SaidKept ==
    ASSUME SaidInv, UNCHANGED <<downlink, host_rx, host_party, host_sender, blocks, expected>>
    PROVE  SaidInv'
BY DEF SaidInv, Said, asked, AllUttered, OnLink, ComingIn, Counted

\* One more fragment, or none, is on the link.
LEMMA FragmentSent ==
    ASSUME PartyInv, FragInv, NEW row \in Row, downlink' = Append(downlink, row),
           UNCHANGED <<host_rx, host_party>>,
           NEW p \in Pos, AllUttered(p), p.block = 0 => p.index = HostFrags,
           NEW q \in Pos, Moves(p, row.words, q), Said(q)'
    PROVE  FragInv'
<1>1. /\ DOMAIN downlink' = 1 .. Len(downlink) + 1 /\ DOMAIN downlink = 1 .. Len(downlink)
      /\ Len(downlink) \in Nat
      /\ \A n \in DOMAIN downlink : downlink'[n] = downlink[n]
      /\ downlink'[Len(downlink) + 1] = row
  <2>1. downlink \in Seq(Row)
    BY DEF PartyInv, LinkInv, Row
  <2> QED
    BY <2>1, AppendIs, LenProperties
<1>2. \A i, r : OnLink(i, r)' => OnLink(i, r) \/ row.words = FragSlot(i, r)
  BY <1>1 DEF OnLink
<1>3. \A i, r : /\ ComingIn(i, r)' <=> ComingIn(i, r)
                /\ Counted(i, r)' <=> Counted(i, r)
  BY DEF ComingIn, Counted
<1>4. \A i \in 1 .. HostFrags : \A r \in Nat :
          row.words = FragSlot(i, r) => ~OnLink(i, r) /\ ~ComingIn(i, r) /\ ~Counted(i, r)
  BY UtteredGrows DEF AllUttered
<1>5. HeardInv'
  BY DEF FragInv, HeardInv
<1>6. PlaceInv'
  BY <1>2, <1>3, <1>4 DEF FragInv, PlaceInv
<1>7. OnceInv'
  <2>1. ASSUME NEW i \in 1 .. HostFrags, NEW r \in Nat,
               NEW m \in DOMAIN downlink', NEW n \in DOMAIN downlink',
               downlink'[m].words = FragSlot(i, r), downlink'[n].words = FragSlot(i, r)
        PROVE  m = n
    <3>1. CASE row.words = FragSlot(i, r)
      BY <1>1, <1>4, <2>1, <3>1 DEF OnLink
    <3>2. CASE row.words # FragSlot(i, r)
      BY <1>1, <2>1, <3>2 DEF FragInv, OnceInv
    <3> QED
      BY <3>1, <3>2
  <2> QED
    BY <2>1 DEF FragInv, OnceInv
<1>8. AllUttered(q)'
  <2>1. \A i \in 1 .. HostFrags : \A r \in Nat : Uttered(q, i, r)' <=> Uttered(q, i, r)
    BY DEF Uttered
  <2> QED
    BY <1>2, <1>3, <2>1, UtteredGrows DEF AllUttered
<1>9. q.block = 0 => q.index = HostFrags
  BY UtteredGrows
<1> QED
  BY <1>5, <1>6, <1>7, <1>8, <1>9 DEF FragInv, SaidInv

LEMMA FragmentsSent ==
    ASSUME PartyInv, FragInv, hostRequest \/ hostSend
    PROVE  FragInv'
<1>1. PICK p \in Pos : Said(p) /\ AllUttered(p) /\ (p.block = 0 => p.index = HostFrags)
  BY DEF FragInv, SaidInv
<1>2. UNCHANGED <<host_rx, host_party, expected>>
  BY DEF hostRequest, hostSend, emit, childVars
<1>3. CASE hostRequest
  <2>1. ReqSlot \in HostSlot /\ emit(ReqSlot) /\ UNCHANGED <<blocks, host_sender>>
    BY <1>3 DEF HostSlot, hostRequest
  <2>2. PICK row \in Row : row.words = ReqSlot /\ downlink' = Append(downlink, row)
    BY <2>1, FrameOut DEF PartyInv
  <2>3. Said(p)'
    BY <1>1, <1>2, <2>1 DEF Said, asked
  <2>4. Moves(p, row.words, p)
    BY <2>2 DEF Moves
  <2> QED
    BY <1>1, <1>2, <2>2, <2>3, <2>4, FragmentSent
<1>4. CASE hostSend
  <2>1. PICK o \in ticked(current, EmptyRecv, FALSE) :
            host_sender' = kept(o.sender) /\ emit(o.words)
    BY <1>4 DEF hostSend, kept
  <2>2. PICK row \in Row : row.words = o.words /\ downlink' = Append(downlink, row)
    BY <2>1, <1>4, HostWords, FrameOut DEF PartyInv
  <2>3. SaidBy(current, blocks', asked, p)
    BY <1>1, <1>4, SaidCurrent
  <2>4. asked \in 0 .. Rounds
    BY Bounds DEF PartyInv, RoundInv, asked
  <2>5. PICK q \in Pos : Moves(p, o.words, q) /\ SaidBy(kept(o.sender), blocks', asked, q)
    BY <2>3, <2>4, SaidNext
  <2>6. Said(q)'
    BY <1>2, <2>1, <2>5 DEF Said, asked
  <2> QED
    BY <1>1, <1>2, <2>2, <2>5, <2>6, FragmentSent
<1> QED
  BY <1>3, <1>4

\* The next round begins: one more block of the host waits.
LEMMA FragmentsIdle ==
    ASSUME PartyInv, FragInv, hostIdle
    PROVE  FragInv'
<1>1. PICK p \in Pos : Said(p) /\ AllUttered(p) /\ (p.block = 0 => p.index = HostFrags)
  BY DEF FragInv, SaidInv
<1>2. UNCHANGED <<downlink, host_rx, host_party, host_sender>>
  BY DEF hostIdle, mirror, childVars
<1>3. CASE UNCHANGED <<expected, blocks>>
  BY <1>2, <1>3, FragmentsKept, SaidKept
<1>4. CASE /\ settling
           /\ expected' = IF more THEN expected + 1 ELSE 0
           /\ blocks' = IF more THEN Append(blocks, expected + 1) ELSE blocks
  <2> DEFINE said == saying(host_sender, p)
  <2>1. expected \in 1 .. Rounds
    BY <1>4, Bounds DEF PartyInv, RoundInv
  <2>2. /\ blocks \in Seq(Nat) /\ Len(blocks) \in Nat /\ said + Len(blocks) = expected
        /\ \A k \in 1 .. Len(blocks) : blocks[k] = said + k
    BY <1>1, <2>1, LenProperties DEF Said, SaidBy, asked
  <2>3. said \in Int
    <3>1. host_sender # NoSender => host_sender.name = p.block \/ host_sender.name = p.block + 1
      BY <1>1 DEF Said, SaidBy
    <3> QED
      BY <3>1 DEF Pos, saying
  <2> HIDE DEF said
  <2>4. blocks' \in Seq(Nat) /\ said + Len(blocks') = asked'
        /\ \A k \in 1 .. Len(blocks') : blocks'[k] = said + k
    <3>1. CASE more
      <4>1. /\ blocks' \in Seq(Nat) /\ Len(blocks') = Len(blocks) + 1
            /\ \A k \in 1 .. Len(blocks) : blocks'[k] = blocks[k]
            /\ blocks'[Len(blocks) + 1] = expected + 1
        BY <1>4, <2>1, <2>2, <3>1, AppendIs
      <4>2. expected' = expected + 1 /\ asked' = expected + 1
        BY <1>4, <2>1, <3>1 DEF asked
      <4>3. ASSUME NEW k \in 1 .. Len(blocks) + 1 PROVE blocks'[k] = said + k
        <5>1. k \in 1 .. Len(blocks) \/ k = Len(blocks) + 1
          BY <2>2
        <5> QED
          BY <2>2, <2>3, <4>1, <5>1
      <4> QED
        BY <2>2, <2>3, <4>1, <4>2, <4>3
    <3>2. CASE ~more
      <4>1. expected = Rounds /\ expected' = 0 /\ blocks' = blocks
        <5>1. expected' = 0 /\ blocks' = blocks
          BY <1>4, <3>2
        <5> QED
          BY <2>1, <3>2, <5>1, Bounds DEF more
      <4>2. asked' = Rounds
        BY <4>1 DEF asked
      <4> QED
        BY <2>2, <4>1, <4>2
    <3> QED
      BY <3>1, <3>2
  <2>5. Said(p)'
    <3>1. SaidBy(host_sender, blocks, asked, p)
      BY <1>1 DEF Said
    <3>2. SaidBy(host_sender, blocks', asked', p)
      BY <2>4, <3>1 DEF SaidBy, said
    <3> QED
      BY <1>2, <3>2 DEF Said
  <2>6. AllUttered(p)'
    BY <1>1, <1>2 DEF AllUttered, OnLink, ComingIn, Counted, Uttered
  <2>7. SaidInv'
    BY <1>1, <2>5, <2>6 DEF SaidInv
  <2> QED
    BY <1>2, <2>7, FragmentsKept
<1> QED
  BY <1>3, <1>4 DEF hostIdle

\* A fragment that comes in leaves the link, one that is counted is not coming in
\* any more.
LEMMA FragmentMoves ==
    ASSUME FragInv, HeardInv', OnceInv', UNCHANGED <<host_sender, blocks, expected>>,
           \A i \in 1 .. HostFrags : \A r \in Nat :
               /\ OnLink(i, r)' => OnLink(i, r)
               /\ ComingIn(i, r)' => ComingIn(i, r) \/ (OnLink(i, r) /\ ~OnLink(i, r)')
               /\ Counted(i, r)' =>
                     \/ Counted(i, r)
                     \/ ComingIn(i, r) /\ ~ComingIn(i, r)'
                     \/ OnLink(i, r) /\ ~OnLink(i, r)' /\ ~ComingIn(i, r)'
    PROVE  FragInv'
<1>1. PlaceInv'
  <2>1. ASSUME NEW i \in 1 .. HostFrags, NEW r \in Nat
        PROVE  /\ ~(OnLink(i, r)' /\ ComingIn(i, r)')
               /\ ~(OnLink(i, r)' /\ Counted(i, r)')
               /\ ~(ComingIn(i, r)' /\ Counted(i, r)')
    BY <2>1 DEF FragInv, PlaceInv
  <2> QED
    BY <2>1 DEF PlaceInv
<1>2. PICK p \in Pos : Said(p) /\ AllUttered(p) /\ (p.block = 0 => p.index = HostFrags)
  BY DEF FragInv, SaidInv
<1>3. Said(p)'
  BY <1>2 DEF Said, asked
<1>4. AllUttered(p)'
  <2>1. ASSUME NEW i \in 1 .. HostFrags, NEW r \in Nat,
               OnLink(i, r)' \/ ComingIn(i, r)' \/ Counted(i, r)'
        PROVE  Uttered(p, i, r)
    <3>1. OnLink(i, r) \/ ComingIn(i, r) \/ Counted(i, r)
      BY <2>1
    <3> QED
      BY <1>2, <3>1 DEF AllUttered
  <2> QED
    BY <2>1 DEF AllUttered, Uttered
<1> QED
  BY <1>1, <1>2, <1>3, <1>4 DEF FragInv, SaidInv

\* The frames that are left on the link when the n-th lands.
LEMMA LinkLeft ==
    ASSUME PartyInv, FragInv, NEW n \in DOMAIN downlink, downlink' = RemoveAt(downlink, n)
    PROVE  /\ \A i, r : OnLink(i, r)' => OnLink(i, r)
           /\ \A i \in 1 .. HostFrags : \A r \in Nat :
                 downlink[n].words = FragSlot(i, r) => OnLink(i, r) /\ ~OnLink(i, r)'
           /\ \A i \in 1 .. HostFrags : \A r \in Nat : \A j, k \in DOMAIN downlink' :
                 downlink'[j].words = FragSlot(i, r) /\ downlink'[k].words = FragSlot(i, r)
                     => j = k
<1>0. downlink \in Seq(Row) /\ n \in 1 .. Len(downlink) /\ DOMAIN downlink = 1 .. Len(downlink)
  BY LenProperties DEF PartyInv, LinkInv, Row
<1>1. /\ downlink' \in Seq(Row) /\ Len(downlink) \in Nat /\ Len(downlink') = Len(downlink) - 1
      /\ \A k \in 1 .. Len(downlink) - 1 :
             /\ k < n => k \in 1 .. Len(downlink) /\ downlink'[k] = downlink[k]
             /\ k >= n => k + 1 \in 1 .. Len(downlink) /\ downlink'[k] = downlink[k + 1]
  BY <1>0, RemoveAtIs
<1> DEFINE was(k) == IF k < n THEN k ELSE k + 1
<1>2. \A k \in DOMAIN downlink' :
          was(k) \in DOMAIN downlink /\ was(k) # n /\ downlink'[k] = downlink[was(k)]
  BY <1>0, <1>1, LenProperties
<1>3. \A j, k \in DOMAIN downlink' : was(j) = was(k) => j = k
  BY <1>0, <1>1, LenProperties
<1> HIDE DEF was
<1>4. \A i, r : OnLink(i, r)' => OnLink(i, r)
  BY <1>2 DEF OnLink
<1>5. ASSUME NEW i \in 1 .. HostFrags, NEW r \in Nat, downlink[n].words = FragSlot(i, r)
      PROVE  OnLink(i, r) /\ ~OnLink(i, r)'
  BY <1>2, <1>5 DEF OnLink, FragInv, OnceInv
<1>6. ASSUME NEW i \in 1 .. HostFrags, NEW r \in Nat,
             NEW j \in DOMAIN downlink', NEW k \in DOMAIN downlink',
             downlink'[j].words = FragSlot(i, r), downlink'[k].words = FragSlot(i, r)
      PROVE  j = k
  <2>1. was(j) = was(k)
    BY <1>2, <1>6 DEF FragInv, OnceInv
  <2> QED
    BY <1>3, <2>1
<1> QED
  BY <1>4, <1>5, <1>6

\* The joiner's receiver takes a fragment of the block that is open.
LEMMA FragmentTaken ==
    ASSUME FragInv, host_rx.receiving, NEW i0 \in 1 .. HostFrags, NEW r0 \in Nat,
           host_rx' = on_block(host_rx, i0, r0),
           host_party' = IF host_rx'.done /\ ~host_rx.done /\ Len(host_party) < Rounds
                         THEN Append(host_party, host_rx'.buf) ELSE host_party,
           OnLink(i0, r0)
    PROVE  /\ HeardInv'
           /\ \A i \in 1 .. HostFrags : \A r \in Nat :
                 /\ ComingIn(i, r)' => ComingIn(i, r) \/ (i = i0 /\ r = r0)
                 /\ Counted(i, r)' =>
                       \/ Counted(i, r)
                       \/ (ComingIn(i, r) \/ (i = i0 /\ r = r0)) /\ ~ComingIn(i, r)'
           /\ \A i \in 1 .. HostFrags : \A j, k \in DOMAIN host_party' :
                 host_party'[j][i] = host_party'[k][i] => j = k
<1>0. /\ host_rx \in Receiver /\ host_rx.count = HostFrags
      /\ host_rx.buf \in [1 .. HostFrags -> Nat]
      /\ host_party \in Seq([1 .. HostFrags -> Nat]) /\ HostFrags \in Nat \ {0}
  BY Bounds DEF FragInv, HeardInv
<1> DEFINE new == [host_rx.buf EXCEPT ![i0] = r0]
<1>1. host_rx' = [host_rx EXCEPT !.last = i0, !.flags = @ \cup {i0}, !.buf[i0] = r0,
                      !.done = @ \/ complete(host_rx.flags \cup {i0}, host_rx.count)]
  BY <1>0 DEF on_block
<1>2. /\ new \in [1 .. HostFrags -> Nat] /\ new[i0] = r0
      /\ \A i \in 1 .. HostFrags : i # i0 => new[i] = host_rx.buf[i]
  BY <1>0
<1>3. /\ host_rx'.receiving /\ host_rx'.count = HostFrags /\ host_rx'.buf = new
      /\ host_rx'.flags = host_rx.flags \cup {i0}
      /\ host_rx'.done = (host_rx.done \/ host_rx.flags \cup {i0} = 1 .. HostFrags)
  BY <1>0, <1>1 DEF Receiver, complete
<1>4. host_rx' \in Receiver
  <2>1. /\ host_rx.flags \cup {i0} \in SUBSET (1 .. HostFrags) /\ i0 \in Nat
        /\ (host_rx.done \/ host_rx.flags \cup {i0} = 1 .. HostFrags) \in BOOLEAN
    BY <1>0 DEF Receiver
  <2> DEFINE F == host_rx.flags \cup {i0}
             D == (host_rx.done \/ F = 1 .. HostFrags)
  <2>2. host_rx' = [host_rx EXCEPT !.last = i0, !.flags = F, !.buf = new, !.done = D]
    BY <1>0, <1>1 DEF complete, Receiver
  <2>3. F \in SUBSET (1 .. HostFrags) /\ D \in BOOLEAN
    BY <2>1
  <2>4. new \in {<< >>} \cup [1 .. HostFrags -> Nat]
    BY <1>2
  <2> HIDE DEF F, D, new
  <2> QED
    BY <1>0, <2>1, <2>2, <2>3, <2>4 DEF Receiver
<1> HIDE DEF new
<1>5. ASSUME NEW i \in 1 .. HostFrags, NEW r \in Nat, ComingIn(i, r)'
      PROVE  ComingIn(i, r) \/ (i = i0 /\ r = r0)
  BY <1>2, <1>3, <1>5 DEF ComingIn
<1>6. CASE host_party' = host_party
  <2>1. HeardInv'
    BY <1>0, <1>2, <1>3, <1>4, <1>6 DEF HeardInv, Receiver
  <2>2. \A i, r : Counted(i, r)' => Counted(i, r)
    BY <1>6 DEF Counted
  <2>3. \A i \in 1 .. HostFrags : \A j, k \in DOMAIN host_party' :
            host_party'[j][i] = host_party'[k][i] => j = k
    BY <1>6 DEF FragInv, OnceInv
  <2> QED
    BY <1>5, <2>1, <2>2, <2>3
<1>7. CASE host_party' = Append(host_party, new) /\ host_rx'.done /\ ~host_rx.done
  <2>1. /\ host_party' \in Seq([1 .. HostFrags -> Nat]) /\ Len(host_party) \in Nat
        /\ DOMAIN host_party' = 1 .. Len(host_party) + 1
        /\ DOMAIN host_party = 1 .. Len(host_party)
        /\ \A k \in DOMAIN host_party : host_party'[k] = host_party[k]
        /\ host_party'[Len(host_party) + 1] = new
    <3> DEFINE Block == [1 .. HostFrags -> Nat]
    <3>1. host_party \in Seq(Block) /\ new \in Block
      BY <1>0, <1>2
    <3> HIDE DEF Block
    <3>2. /\ host_party' \in Seq(Block) /\ Len(host_party) \in Nat
          /\ Len(host_party') = Len(host_party) + 1
          /\ \A k \in 1 .. Len(host_party) : host_party'[k] = host_party[k]
          /\ host_party'[Len(host_party) + 1] = new
      BY <1>7, <3>1, AppendIs
    <3>3. DOMAIN host_party = 1 .. Len(host_party) /\ DOMAIN host_party' = 1 .. Len(host_party')
      BY <3>1, <3>2, LenProperties
    <3> QED
      BY <3>2, <3>3 DEF Block
  <2>2. HeardInv'
    BY <1>2, <1>3, <1>4, <2>1 DEF HeardInv, Receiver
  <2>3. \A i, r : ~ComingIn(i, r)'
    BY <1>7 DEF ComingIn
  <2>4. \A i \in 1 .. HostFrags : i = i0 \/ ComingIn(i, new[i])
    BY <1>0, <1>2, <1>3, <1>7 DEF ComingIn
  <2>5. ASSUME NEW i \in 1 .. HostFrags, NEW r \in Nat, Counted(i, r)'
        PROVE  Counted(i, r) \/ ComingIn(i, r) \/ (i = i0 /\ r = r0)
    <3>1. PICK k \in DOMAIN host_party' : host_party'[k][i] = r
      BY <2>5 DEF Counted
    <3>2. CASE k \in DOMAIN host_party
      BY <2>1, <3>1, <3>2 DEF Counted
    <3>3. CASE k = Len(host_party) + 1
      BY <1>2, <2>1, <2>4, <3>1, <3>3
    <3> QED
      BY <2>1, <3>2, <3>3
  <2>6. \A i \in 1 .. HostFrags : ~Counted(i, new[i])
    <3> SUFFICES ASSUME NEW i \in 1 .. HostFrags PROVE ~Counted(i, new[i])
      OBVIOUS
    <3>1. new[i] \in Nat
      BY <1>2
    <3>2. CASE i = i0
      BY <1>2, <3>2 DEF FragInv, PlaceInv
    <3>3. CASE ComingIn(i, new[i])
      BY <3>1, <3>3 DEF FragInv, PlaceInv
    <3> QED
      BY <2>4, <3>2, <3>3
  <2>7. ASSUME NEW i \in 1 .. HostFrags, NEW j \in DOMAIN host_party', NEW k \in DOMAIN host_party',
               host_party'[j][i] = host_party'[k][i]
        PROVE  j = k
    <3>1. \A m \in DOMAIN host_party : host_party'[m][i] # new[i]
      BY <2>1, <2>6 DEF Counted
    <3>2. CASE j \in DOMAIN host_party /\ k \in DOMAIN host_party
      BY <2>1, <2>7, <3>2 DEF FragInv, OnceInv
    <3> QED
      BY <2>1, <2>7, <3>1, <3>2
  <2> QED
    BY <1>5, <2>2, <2>3, <2>5, <2>7
<1> QED
  BY <1>3, <1>6, <1>7

\* A frame of the host lands, whichever it is.
LEMMA FragmentLanded ==
    ASSUME PartyInv, FragInv, NEW n \in DOMAIN downlink, childReceive(n)
    PROVE  FragInv'
<1> DEFINE words == downlink[n].words
<1>0. /\ downlink' = RemoveAt(downlink, n) /\ UNCHANGED <<host_sender, blocks, expected>>
      /\ host_rx' = fed(host_rx, words)
      /\ host_party' = IF host_rx'.done /\ ~host_rx.done /\ Len(host_party) < Rounds
                       THEN Append(host_party, host_rx'.buf) ELSE host_party
  BY DEF childReceive, hostVars, land
<1>1. words \in HostSlot
  <2>1. downlink \in Seq(Row) /\ n \in 1 .. Len(downlink)
    BY LenProperties DEF PartyInv, LinkInv, Row
  <2>2. downlink[n] \in Row
    BY <2>1, ElementOfSeq
  <2> QED
    BY <2>2 DEF Row
<1> HIDE DEF words
<1>2. \A i, r : OnLink(i, r)' => OnLink(i, r)
  BY <1>0, LinkLeft
<1>3. \A i \in 1 .. HostFrags : \A r \in Nat :
          words = FragSlot(i, r) => OnLink(i, r) /\ ~OnLink(i, r)'
  BY <1>0, LinkLeft DEF words
<1>4. \A i \in 1 .. HostFrags : \A r \in Nat : \A j, k \in DOMAIN downlink' :
          downlink'[j].words = FragSlot(i, r) /\ downlink'[k].words = FragSlot(i, r) => j = k
  BY <1>0, LinkLeft
<1>5. CASE UNCHANGED host_rx \/ host_rx' = opened(HostFrags)
  <2>1. host_party' = host_party /\ \A i, r : ComingIn(i, r)' => ComingIn(i, r)
    BY <1>0, <1>5 DEF opened, ComingIn
  <2>2. HeardInv'
    <3>1. opened(HostFrags) \in Receiver /\ opened(HostFrags).count = HostFrags
          /\ opened(HostFrags).buf \in [1 .. HostFrags -> Nat]
      BY Bounds DEF opened, Receiver, NoFrag
    <3> QED
      BY <1>5, <2>1, <3>1 DEF FragInv, HeardInv, Receiver
  <2>3. \A i, r : Counted(i, r)' => Counted(i, r)
    BY <2>1 DEF Counted
  <2>4. OnceInv'
    BY <1>4, <2>1 DEF FragInv, OnceInv
  <2> QED
    BY <1>0, <1>2, <2>1, <2>2, <2>3, <2>4, FragmentMoves
<1>6. CASE words \in {IdleSlot, ReqSlot}
  <2>1. host_rx' = host_rx
    BY <1>0, <1>6, SlotKinds DEF fed
  <2> QED
    BY <1>5, <2>1
<1>7. CASE words = InitSlot(HostFrags)
  <2>1. host_rx' = on_init(host_rx, HostFrags)
    BY <1>0, <1>7, SlotKinds DEF fed
  <2> QED
    BY <1>5, <2>1 DEF on_init
<1>8. ASSUME NEW i0 \in 1 .. HostFrags, NEW r0 \in Nat, words = FragSlot(i0, r0)
      PROVE  FragInv'
  <2>1. host_rx' = on_block(host_rx, i0, r0)
    BY <1>0, <1>8, SlotKinds DEF fed
  <2>2. CASE ~host_rx.receiving
    BY <1>5, <2>1, <2>2 DEF on_block
  <2>3. CASE host_rx.receiving
    <3>1. OnLink(i0, r0) /\ ~OnLink(i0, r0)'
      BY <1>3, <1>8
    <3>2. /\ HeardInv'
          /\ \A i \in 1 .. HostFrags : \A r \in Nat :
                /\ ComingIn(i, r)' => ComingIn(i, r) \/ (i = i0 /\ r = r0)
                /\ Counted(i, r)' =>
                      \/ Counted(i, r)
                      \/ (ComingIn(i, r) \/ (i = i0 /\ r = r0)) /\ ~ComingIn(i, r)'
          /\ \A i \in 1 .. HostFrags : \A j, k \in DOMAIN host_party' :
                host_party'[j][i] = host_party'[k][i] => j = k
      BY <1>0, <2>1, <2>3, <3>1, FragmentTaken
    <3>3. OnceInv'
      BY <1>4, <3>2 DEF OnceInv
    <3>4. ASSUME NEW i \in 1 .. HostFrags, NEW r \in Nat
          PROVE  /\ OnLink(i, r)' => OnLink(i, r)
                 /\ ComingIn(i, r)' => ComingIn(i, r) \/ (OnLink(i, r) /\ ~OnLink(i, r)')
                 /\ Counted(i, r)' =>
                       \/ Counted(i, r)
                       \/ ComingIn(i, r) /\ ~ComingIn(i, r)'
                       \/ OnLink(i, r) /\ ~OnLink(i, r)' /\ ~ComingIn(i, r)'
      <4>1. CASE i = i0 /\ r = r0
        BY <1>2, <3>1, <3>2, <4>1
      <4>2. CASE ~(i = i0 /\ r = r0)
        BY <1>2, <3>2, <4>2
      <4> QED
        BY <4>1, <4>2
    <3> QED
      BY <1>0, <3>2, <3>3, <3>4, FragmentMoves
  <2> QED
    BY <2>2, <2>3
<1> QED
  BY <1>1, <1>6, <1>7, <1>8 DEF HostSlot

LEMMA NextFragments == PartyInv /\ FragInv /\ [Next]_vars => FragInv'
<1> SUFFICES ASSUME PartyInv, FragInv, [Next]_vars PROVE FragInv'
  OBVIOUS
<1>1. ASSUME UNCHANGED <<downlink, host_rx, host_party, host_sender, blocks, expected>>
      PROVE  FragInv'
  BY <1>1, FragmentsKept, SaidKept
<1>2. CASE hostRequest \/ hostSend
  BY <1>2, FragmentsSent
<1>3. CASE hostIdle
  BY <1>3, FragmentsIdle
<1>4. CASE hostBlock
  BY <1>1, <1>4 DEF hostBlock, mirror, childVars
<1>5. ASSUME NEW n \in 1 .. OutstandingMax, childReceive(n)
      PROVE  FragInv'
  <2>1. n \in DOMAIN downlink
    BY <1>5 DEF childReceive
  <2> QED
    BY <1>5, <2>1, FragmentLanded
<1>6. CASE childTick
  BY <1>1, <1>6 DEF childTick, childSender, hostVars
<1>7. CASE childGated
  BY <1>1, <1>7 DEF childGated, childSender, hostVars
<1>8. CASE UNCHANGED vars
  BY <1>1, <1>8 DEF vars, hostVars, childVars
<1> QED
  BY <1>2, <1>3, <1>4, <1>5, <1>6, <1>7, <1>8 DEF Next

\* What is counted was said, and no more blocks are said than were asked for.
LEMMA CountedOnce == PartyInv /\ FragInv => NoFragmentTwice
<1> SUFFICES ASSUME PartyInv, FragInv PROVE NoFragmentTwice
  OBVIOUS
<1>1. PICK p \in Pos : Said(p) /\ AllUttered(p)
  BY DEF FragInv, SaidInv
<1>2. p.block <= asked
  <2>1. /\ Len(blocks) \in Nat /\ saying(host_sender, p) + Len(blocks) = asked
        /\ saying(host_sender, p) \in {p.block, p.block + 1}
    BY <1>1, LenProperties DEF Said, SaidBy, saying
  <2> QED
    BY <2>1 DEF Pos
<1>3. ASSUME NEW i \in 1 .. HostFrags, NEW n \in DOMAIN host_party
      PROVE  host_party[n][i] \in 1 .. asked
  <2>1. host_party[n] \in [1 .. HostFrags -> Nat]
    BY LenProperties, ElementOfSeq DEF FragInv, HeardInv
  <2>2. host_party[n][i] \in 1 .. p.block
    BY <1>1, <2>1 DEF AllUttered, Counted, Uttered
  <2>3. asked \in Int
    BY Bounds DEF PartyInv, RoundInv, asked
  <2> QED
    BY <1>2, <2>2, <2>3 DEF Pos
<1> QED
  BY <1>3 DEF NoFragmentTwice, FragInv, OnceInv

\* Whatever order frames land in, the blocks the joiner counts (trade.py:614,
\* RecvBlock of gba/block.py) are made of fragments the host has sent, and no
\* fragment serves for two of them: a late INIT may open a block again, and
\* fragments of two blocks may be mixed, but nothing is counted twice.
THEOREM FragmentsServeOnce == Spec => []NoFragmentTwice
<1>1. Init => PartyInv /\ FragInv
  BY InitParty, InitFragments
<1>2. PartyInv /\ FragInv /\ [Next]_vars => (PartyInv /\ FragInv)'
  BY NextParty, NextFragments
<1>3. PartyInv /\ FragInv => NoFragmentTwice
  BY CountedOnce
<1> QED
  BY <1>1, <1>2, <1>3, PTL DEF Spec
=============================================================================
