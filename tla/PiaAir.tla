------------------------------- MODULE PiaAir -------------------------------
(***************************************************************************)
(* The Pia datagrams between the two ends of a session while it comes up,  *)
(* one message each.  The air is UDP over Wi-Fi: a datagram may be lost,   *)
(* may arrive more than once and in any order.  Reliable messages are those *)
(* of module Reliable; neither end's handshake reads them.                 *)
(***************************************************************************)
VARIABLES to_host, to_joiner

airVars == <<to_host, to_joiner>>

\* The messages; the system time in an RTT message serves the round trip
\* estimate alone.
NetRequest    == "0x11"       \* NET_CONN_REQUEST
NetResponse   == "0x12"       \* NET_CONN_RESPONSE
SessionJoin   == "join"       \* type 0
JoinResponse  == "response"   \* type 2
SessionUpdate == "update"     \* type 5
UpdateAck     == "finalize"   \* type 6
RttRequest    == "request"
RttResponse   == "answer"

AirInit == to_host = {} /\ to_joiner = {}

\* What an end sends joins what is on its way to the other.
toJoiner(out) == to_joiner' = to_joiner \cup out
toHost(out)   == to_host' = to_host \cup out

\* What is delivered may arrive again until the air drops it.
hostTakes(m)   == m \in to_host /\ UNCHANGED to_host
joinerTakes(m) == m \in to_joiner /\ UNCHANGED to_joiner

Lose ==
    \/ \E m \in to_host : to_host' = to_host \ {m} /\ UNCHANGED to_joiner
    \/ \E m \in to_joiner : to_joiner' = to_joiner \ {m} /\ UNCHANGED to_host
=============================================================================
