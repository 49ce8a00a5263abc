----------------------------- MODULE MCHostTrade ----------------------------
(* Small instances of HostTrade for TLC.                                   *)
EXTENDS HostTrade

CONSTANTS host1, host2, child1, child2

MCHostMons == <<host1, host2>>
MCChildMons == <<child1, child2>>
TwoTrades == <<1, 2>>
OneTrade == <<2>>
=============================================================================
