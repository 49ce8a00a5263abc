-------------------------- MODULE MCPartyExchange --------------------------
(* Small instances of PartyExchange for TLC. *)
EXTENDS PartyExchange
=============================================================================
