-------------------------------- MODULE Swap --------------------------------
(***************************************************************************)
(* What a trade promises, whoever leads it: the leader commits, putting    *)
(* the follower's Pokemon in the place of its own, and owes the follower   *)
(* the Pokemon it gave; the follower then commits, or the Pokemon is owed  *)
(* for ever.  CONFIRM_FINISH_TRADE is what passes from one to the other.   *)
(***************************************************************************)
EXTENDS Integers

CONSTANTS
    LeaderMons, FollowerMons  \* the two parties at the start: slot -> Pokemon

VARIABLES
    leader, follower,         \* the two parties now
    owed                      \* what the follower still has to get, and where

vars == <<leader, follower, owed>>

NothingOwed == << >>

Init ==
    /\ leader = LeaderMons
    /\ follower = FollowerMons
    /\ owed = NothingOwed

\* The leader gives the Pokemon at place a for the one at place b.
First(a, b) ==
    /\ owed = NothingOwed
    /\ leader' = [leader EXCEPT ![a] = follower[b]]
    /\ owed' = <<[mon |-> leader[a], at |-> b]>>
    /\ UNCHANGED follower

Second ==
    /\ owed # NothingOwed
    /\ follower' = [follower EXCEPT ![owed[1].at] = owed[1].mon]
    /\ owed' = NothingOwed
    /\ UNCHANGED leader

Next ==
    \/ \E a \in DOMAIN LeaderMons, b \in DOMAIN FollowerMons : First(a, b)
    \/ Second

Spec == Init /\ [][Next]_vars

-----------------------------------------------------------------------------
\* The follower's party once nothing is owed.
Settled == IF owed = NothingOwed THEN follower
           ELSE [follower EXCEPT ![owed[1].at] = owed[1].mon]

Held(party) == {party[i] : i \in DOMAIN party}

Distinct(party) == \A i, j \in DOMAIN party : party[i] = party[j] => i = j

\* Every Pokemon is held or owed exactly once: a trade duplicates none and loses
\* none (TradeEngine._commit, HostTradeEngine._tick_state).
Conserved ==
    /\ Held(leader) \cup Held(Settled) = Held(LeaderMons) \cup Held(FollowerMons)
    /\ Held(leader) \cap Held(Settled) = {}
    /\ Distinct(leader) /\ Distinct(Settled)
=============================================================================
