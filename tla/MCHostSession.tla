---------------------------- MODULE MCHostSession ---------------------------
(* Small instances of HostSession for TLC.                                 *)
EXTENDS HostSession

CONSTANTS cidA, cidB, idle, word, closeLink

MCIds == {cidA, cidB}
MCCommands == {idle, word, closeLink}
=============================================================================
