----------------------------- MODULE MCReliable -----------------------------
(* A small instance of Reliable for TLC: how many frames each end sends.   *)
EXTENDS Reliable, TLC

CONSTANTS host, console

MCPeer == {host, console}

\* More frames than the window holds, and ids that wrap after the first.
MCQuota == (host :> 3) @@ (console :> 0)
=============================================================================
