---------------------------- MODULE MCJoinerTrade ---------------------------
(* Small instances of JoinerTrade for TLC.                                 *)
EXTENDS JoinerTrade

CONSTANTS leader1, leader2, joiner1, joiner2

MCLeaderMons == <<leader1, leader2>>
MCJoinerMons == <<joiner1, joiner2>>
TwoTrades == <<1, 2>>
OneTrade == <<2>>
=============================================================================
