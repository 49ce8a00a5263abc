----------------------------- MODULE SwapProofs -----------------------------
(***************************************************************************)
(* Swap neither loses nor duplicates a Pokemon: for any two parties that   *)
(* hold no Pokemon twice and none in common, each is held or owed exactly  *)
(* once in every state.                                                    *)
(***************************************************************************)
EXTENDS Swap, TLAPS

Slots == DOMAIN LeaderMons
Seats == DOMAIN FollowerMons
Mons  == Held(LeaderMons) \cup Held(FollowerMons)

Parties ==
    /\ LeaderMons \in [Slots -> Mons] /\ FollowerMons \in [Seats -> Mons]
    /\ Distinct(LeaderMons) /\ Distinct(FollowerMons)
    /\ Held(LeaderMons) \cap Held(FollowerMons) = {}

TypeOK ==
    /\ leader \in [Slots -> Mons] /\ follower \in [Seats -> Mons]
    /\ owed = NothingOwed \/ \E m \in Mons, b \in Seats : owed = <<[mon |-> m, at |-> b]>>

Inv == TypeOK /\ Conserved

\* One exchange keeps the Pokemon of two parties: what a holds, b then holds.
LEMMA SwapKeeps ==
    ASSUME NEW p \in [Slots -> Mons], NEW q \in [Seats -> Mons],
           Distinct(p), Distinct(q), Held(p) \cap Held(q) = {},
           NEW a \in Slots, NEW b \in Seats,
           NEW r, r = [p EXCEPT ![a] = q[b]],
           NEW s, s = [q EXCEPT ![b] = p[a]]
    PROVE  /\ r \in [Slots -> Mons] /\ s \in [Seats -> Mons]
           /\ Held(r) \cup Held(s) = Held(p) \cup Held(q)
           /\ Held(r) \cap Held(s) = {}
           /\ Distinct(r) /\ Distinct(s)
<1>1. r \in [Slots -> Mons] /\ s \in [Seats -> Mons]
  OBVIOUS
<1>2. /\ \A i \in Slots : r[i] = IF i = a THEN q[b] ELSE p[i]
      /\ \A i \in Seats : s[i] = IF i = b THEN p[a] ELSE q[i]
  OBVIOUS
<1>3. \A i \in Slots, k \in Seats : p[i] # q[k]
  BY DEF Held
<1>4. Distinct(r) /\ Distinct(s)
  BY <1>1, <1>2, <1>3 DEF Distinct
<1>5. Held(r) \cap Held(s) = {}
  BY <1>1, <1>2, <1>3 DEF Held, Distinct
<1>6. Held(r) \cup Held(s) \subseteq Held(p) \cup Held(q)
  BY <1>1, <1>2 DEF Held
<1>7. Held(p) \cup Held(q) \subseteq Held(r) \cup Held(s)
  <2>1. \A i \in Slots : p[i] \in Held(r) \cup Held(s)
    <3>1. p[a] = s[b] /\ \A i \in Slots : i # a => p[i] = r[i]
      BY <1>2
    <3> QED BY <3>1, <1>1 DEF Held
  <2>2. \A i \in Seats : q[i] \in Held(r) \cup Held(s)
    <3>1. q[b] = r[a] /\ \A i \in Seats : i # b => q[i] = s[i]
      BY <1>2
    <3> QED BY <3>1, <1>1 DEF Held
  <2> QED BY <2>1, <2>2 DEF Held
<1> QED BY <1>1, <1>4, <1>5, <1>6, <1>7

LEMMA InvInit == Parties /\ Init => Inv
<1> SUFFICES ASSUME Parties, Init PROVE Inv
  OBVIOUS
<1>1. TypeOK
  BY DEF Parties, Init, TypeOK
<1>2. Settled = FollowerMons /\ leader = LeaderMons
  BY DEF Init, Settled
<1> QED BY <1>1, <1>2 DEF Parties, Inv, Conserved

LEMMA InvNext == Inv /\ [Next]_vars => Inv'
<1> SUFFICES ASSUME Inv, [Next]_vars PROVE Inv'
  OBVIOUS
<1>1. ASSUME NEW a \in DOMAIN LeaderMons, NEW b \in DOMAIN FollowerMons, First(a, b)
      PROVE  Inv'
  <2>1. owed = NothingOwed /\ owed' = <<[mon |-> leader[a], at |-> b]>> /\ follower' = follower
    BY <1>1 DEF First
  <2>2. leader' = [leader EXCEPT ![a] = follower[b]]
    BY <1>1 DEF First
  <2>3. Settled = follower /\ Settled' = [follower EXCEPT ![b] = leader[a]]
    BY <2>1 DEF Settled, NothingOwed
  <2>4. leader \in [Slots -> Mons] /\ follower \in [Seats -> Mons] /\ a \in Slots /\ b \in Seats
    BY DEF Inv, TypeOK, Slots, Seats
  <2>5. /\ leader' \in [Slots -> Mons] /\ Settled' \in [Seats -> Mons]
        /\ Held(leader') \cup Held(Settled') = Held(leader) \cup Held(follower)
        /\ Held(leader') \cap Held(Settled') = {}
        /\ Distinct(leader') /\ Distinct(Settled')
    <3>1. Distinct(leader) /\ Distinct(follower) /\ Held(leader) \cap Held(follower) = {}
      BY <2>3 DEF Inv, Conserved
    <3> HIDE DEF Slots, Seats, Mons
    <3> DEFINE r == [leader EXCEPT ![a] = follower[b]]
               s == [follower EXCEPT ![b] = leader[a]]
    <3>2. /\ r \in [Slots -> Mons] /\ s \in [Seats -> Mons]
          /\ Held(r) \cup Held(s) = Held(leader) \cup Held(follower)
          /\ Held(r) \cap Held(s) = {}
          /\ Distinct(r) /\ Distinct(s)
      BY <2>4, <3>1, SwapKeeps
    <3>3. leader' = r /\ Settled' = s
      BY <2>2, <2>3
    <3> HIDE DEF r, s
    <3> QED BY <3>2, <3>3
  <2>6. TypeOK'
    BY <2>1, <2>4, <2>5 DEF TypeOK
  <2>7. Held(leader) \cup Held(follower) = Held(LeaderMons) \cup Held(FollowerMons)
    BY <2>3 DEF Inv, Conserved
  <2> QED BY <2>5, <2>6, <2>7 DEF Inv, Conserved
<1>2. CASE Second
  <2>1. owed # NothingOwed /\ follower' = Settled /\ owed' = NothingOwed /\ leader' = leader
    BY <1>2 DEF Second, Settled
  <2>2. Settled' = Settled
    BY <2>1 DEF Settled
  <2>3. PICK m \in Mons, b \in Seats : owed = <<[mon |-> m, at |-> b]>>
    BY <2>1 DEF Inv, TypeOK
  <2>4. Settled = [follower EXCEPT ![b] = m]
    BY <2>1, <2>3 DEF Settled
  <2>5. TypeOK'
    BY <2>1, <2>4 DEF Inv, TypeOK
  <2> QED BY <2>1, <2>2, <2>5 DEF Inv, Conserved
<1>3. CASE UNCHANGED vars
  BY <1>3 DEF vars, Inv, TypeOK, Conserved, Settled
<1> QED BY <1>1, <1>2, <1>3 DEF Next

\* No trade loses or duplicates a Pokemon, for any parties and any number of trades:
\* the two commits of TradeEngine._commit and HostTradeEngine are one exchange.
THEOREM SwapConserves == Parties /\ Spec => []Conserved
<1>1. Inv => Conserved
  BY DEF Inv
<1> QED BY InvInit, InvNext, <1>1, PTL DEF Spec
=============================================================================
