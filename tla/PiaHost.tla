------------------------------- MODULE PiaHost ------------------------------
(***************************************************************************)
(* HostPeerProtocol of pokeldn/ldn/host_pia.py: the Net, Session and RTT   *)
(* side of a host, for one Switch.  Timers are choices: tick is given one  *)
(* that is due; several due at once are ticks with nothing between them.   *)
(***************************************************************************)
EXTENDS PiaAir

VARIABLES
    net_acked,
    session_join,       \* a join has come: guest_var and guest_ip are known
    session_finalized,
    rtt_template        \* a request of the guest has been seen, to clone

hostVars == <<net_acked, session_join, session_finalized, rtt_template>>

\* The state after on_participant_joined.
HostInit ==
    /\ net_acked = FALSE
    /\ session_join = FALSE
    /\ session_finalized = FALSE
    /\ rtt_template = FALSE

-----------------------------------------------------------------------------
(* receive, one message at a time.                                          *)

receiveNet(m) ==
    /\ m = NetResponse
    /\ net_acked' = TRUE
    /\ toJoiner({})
    /\ UNCHANGED <<session_join, session_finalized, rtt_template>>

\* _session_pair: the station list, then the answer to the join.
_send_session_acceptance == {SessionUpdate, JoinResponse}

receiveJoin(m) ==
    /\ m = SessionJoin
    /\ session_join' = TRUE
    /\ toJoiner(IF session_finalized THEN {} ELSE _send_session_acceptance)
    /\ UNCHANGED <<net_acked, session_finalized, rtt_template>>

\* A type 6 is taken from whoever sends it, whether a join has come or not.
receiveFinalize(m) ==
    /\ m = UpdateAck
    /\ session_finalized' = TRUE
    /\ toJoiner({})
    /\ UNCHANGED <<net_acked, session_join, rtt_template>>

\* Mutant: the host answers an RTT request as soon as it knows the guest.
rttOpenAtJoin == session_join

rttOpen == session_finalized /\ session_join

_receive_rtt(m) ==
    /\ m \in {RttRequest, RttResponse}
    /\ rtt_template' = (rtt_template \/ (rttOpen /\ m = RttRequest))
    /\ toJoiner(IF rttOpen /\ m = RttRequest THEN {RttResponse} ELSE {})
    /\ UNCHANGED <<net_acked, session_join, session_finalized>>

receive(m) ==
    /\ hostTakes(m)
    /\ \/ receiveNet(m)
       \/ receiveJoin(m)
       \/ receiveFinalize(m)
       \/ _receive_rtt(m)

-----------------------------------------------------------------------------
(* tick, with a timer that is due.                                          *)

HostTimers == {"net", "accept", "rtt"}

acceptRetries(t) ==
    IF t = "accept" /\ session_join /\ ~session_finalized
    THEN _send_session_acceptance
    ELSE {}

netRetries(t) == IF t = "net" /\ ~net_acked THEN {NetRequest} ELSE {}

\* A probe is a copy of the guest's last request.
probes(t) == IF t = "rtt" /\ rttOpen /\ rtt_template THEN {RttRequest} ELSE {}

tick(t) ==
    /\ toJoiner(netRetries(t) \cup acceptRetries(t) \cup probes(t))
    /\ UNCHANGED hostVars
=============================================================================
