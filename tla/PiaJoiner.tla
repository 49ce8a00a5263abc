------------------------------ MODULE PiaJoiner -----------------------------
(***************************************************************************)
(* ConnectionManager of pokeldn/ldn/pia_connect.py, as the joiner's Sim    *)
(* drives it.  The host's id is learned from the first datagram before any *)
(* handler runs, so it is always known here.                               *)
(***************************************************************************)
EXTENDS PiaAir

VARIABLES
    state,            \* "net", "finalize", "connected"
    join_sent,        \* _join_sent_tick # None
    last_host_rtt     \* a request of the host has been seen, to clone

joinerVars == <<state, join_sent, last_host_rtt>>

JoinerInit ==
    /\ state = "net"
    /\ join_sent = FALSE
    /\ last_host_rtt = FALSE

-----------------------------------------------------------------------------
(* on_message.                                                              *)

\* Answers the leader's request once with its Net response and the join.
onNet(m) ==
    /\ m = NetRequest
    /\ toHost(IF state = "net" THEN {NetResponse, SessionJoin} ELSE {})
    /\ join_sent' = (join_sent \/ state = "net")
    /\ UNCHANGED <<state, last_host_rtt>>

\* Mutant: the type 6 is sent for the first accept only.
finalizesOnce == state = "net"

\* Every accept is answered until the session lives.
finalizes == state # "connected"

\* Both messages say that the host has the join.
afterSession == IF state = "net" THEN "finalize" ELSE state

onSession(m) ==
    /\ m \in {SessionUpdate, JoinResponse}
    /\ toHost(IF m = SessionUpdate /\ finalizes THEN {UpdateAck} ELSE {})
    /\ state' = afterSession
    /\ UNCHANGED <<join_sent, last_host_rtt>>

\* The first RTT message after the accept says that the host is live.
onRtt(m, before_finalize) ==
    /\ m \in {RttRequest, RttResponse}
    /\ state' = IF state = "finalize" THEN "connected" ELSE state
    /\ LET answers == m = RttRequest /\ (state # "net" \/ before_finalize) IN
       /\ toHost(IF answers THEN {RttResponse} ELSE {})
       /\ last_host_rtt' = (last_host_rtt \/ answers)
    /\ UNCHANGED join_sent

on_message(m, before_finalize) ==
    \/ onNet(m)
    \/ onSession(m)
    \/ onRtt(m, before_finalize)

-----------------------------------------------------------------------------
(* tick of Sim, with a timer that is due.                                   *)

JoinerTimers == {"rtt", "join"}

maybe_originate_rtt(t) ==
    IF t = "rtt" /\ state = "connected" /\ last_host_rtt THEN {RttRequest} ELSE {}

maybe_repeat_join(t, repeats) ==
    IF repeats /\ t = "join" /\ state = "net" /\ join_sent THEN {SessionJoin} ELSE {}

joinerTick(t, repeats) ==
    /\ toHost(maybe_originate_rtt(t) \cup maybe_repeat_join(t, repeats))
    /\ UNCHANGED joinerVars
=============================================================================
