------------------------------ MODULE MCRfuLink -----------------------------
(* Small instances of RfuLink for TLC.                                     *)
EXTENDS RfuLink

CONSTANTS child, idle, keyA

MCIds == {child}
TwoCommands == {idle, keyA}
=============================================================================
