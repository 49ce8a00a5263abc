---------------------------- MODULE PiaConnection ---------------------------
(***************************************************************************)
(* A Pia session comes up between PiaHost and PiaJoiner over an air that   *)
(* loses, repeats and reorders.  One end is this program and the other a   *)
(* console.  The console does what the code of its counterpart does, as    *)
(* far as this program's comments and docs/frlg_link.md tell, with these   *)
(* differences: it originates RTT without having been asked, and a console *)
(* that joins repeats its join and finalizes only once it has a type 2.    *)
(***************************************************************************)
EXTENDS PiaHost, PiaJoiner

CONSTANT Modes        \* the pairings to look at, members of Mode

VARIABLES
    mode,
    console_heard     \* Session messages a joining console has had

vars == <<mode, console_heard, hostVars, joinerVars, airVars>>

(***************************************************************************)
(* ours             the end that is this program                           *)
(* repeats          join_repeat_ticks # 0; a console always repeats        *)
(* before_finalize  rtt_before_finalize                                    *)
(* early            the host probes before it is finalized: a console with *)
(*                  a Mystery Gift does, one that trades does not          *)
(***************************************************************************)
Mode == [ours : {"host", "joiner"}, repeats : BOOLEAN, before_finalize : BOOLEAN,
         early : BOOLEAN]

ASSUME ModesAssumption ==
    /\ Modes \subseteq Mode
    /\ \A m \in Modes : m.ours = "host" => m.repeats /\ ~m.early /\ ~m.before_finalize

Init ==
    /\ mode \in Modes
    /\ console_heard = {}
    /\ HostInit
    /\ JoinerInit
    /\ AirInit

-----------------------------------------------------------------------------
(* The host.                                                               *)

hostReceive(m) ==
    /\ receive(m)
    /\ UNCHANGED <<mode, console_heard, joinerVars>>

hostTick(t) ==
    /\ tick(t)
    /\ UNCHANGED <<mode, console_heard, joinerVars, to_host>>

\* A console that hosts probes a guest it knows, and some before the type 6.
consoleHostProbes ==
    /\ mode.ours = "joiner" /\ (session_finalized \/ mode.early)
    /\ toJoiner({RttRequest})
    /\ UNCHANGED <<mode, console_heard, hostVars, joinerVars, to_host>>

-----------------------------------------------------------------------------
(* The joiner.                                                             *)

joinerReceive(m) ==
    /\ mode.ours = "joiner" \/ m \notin {SessionUpdate, JoinResponse}
    /\ joinerTakes(m)
    /\ on_message(m, mode.before_finalize)
    /\ UNCHANGED <<mode, console_heard, hostVars>>

\* A joining console has finalized once it had both.
consoleAccepted(m) == console_heard \cup {m} = {SessionUpdate, JoinResponse}

consoleSession(m) ==
    /\ mode.ours = "host" /\ m \in {SessionUpdate, JoinResponse}
    /\ joinerTakes(m)
    /\ console_heard' = console_heard \cup {m}
    /\ toHost(IF consoleAccepted(m) THEN {UpdateAck} ELSE {})
    /\ state' = IF consoleAccepted(m) /\ state = "net" THEN "finalize" ELSE state
    /\ UNCHANGED <<mode, join_sent, last_host_rtt, hostVars>>

joinerTicks(t) ==
    /\ joinerTick(t, mode.repeats)
    /\ UNCHANGED <<mode, console_heard, hostVars, to_joiner>>

\* It probes as soon as it has finalized.
consoleJoinerProbes ==
    /\ mode.ours = "host" /\ state # "net"
    /\ toHost({RttRequest})
    /\ UNCHANGED <<mode, console_heard, hostVars, joinerVars, to_joiner>>

-----------------------------------------------------------------------------
lose == Lose /\ UNCHANGED <<mode, console_heard, hostVars, joinerVars>>

Next ==
    \/ \E m \in to_host : hostReceive(m)
    \/ \E t \in HostTimers : hostTick(t)
    \/ consoleHostProbes
    \/ \E m \in to_joiner : joinerReceive(m) \/ consoleSession(m)
    \/ \E t \in JoinerTimers : joinerTicks(t)
    \/ consoleJoinerProbes
    \/ lose

Spec == Init /\ [][Next]_vars

(***************************************************************************)
(* Both main loops run for ever, so every timer comes due again and again, *)
(* the console's own probes too.  The air does not lose every copy of a    *)
(* message that is sent again and again.                                   *)
(***************************************************************************)
HostMessages   == {NetResponse, SessionJoin, UpdateAck, RttRequest, RttResponse}
JoinerMessages == {NetRequest, SessionUpdate, JoinResponse, RttRequest, RttResponse}

Fairness ==
    /\ \A t \in HostTimers : WF_vars(hostTick(t))
    /\ \A t \in JoinerTimers : WF_vars(joinerTicks(t))
    /\ WF_vars(consoleHostProbes) /\ WF_vars(consoleJoinerProbes)
    /\ \A m \in HostMessages : SF_vars(hostReceive(m))
    /\ \A m \in JoinerMessages : SF_vars(joinerReceive(m) \/ consoleSession(m))

FairSpec == Spec /\ Fairness

-----------------------------------------------------------------------------
(***************************************************************************)
(* The two ends pass the stages in step, whatever the air does.  A host    *)
(* that is finalized knows its guest, though it takes a type 6 without     *)
(* having looked for a join, and the guest has had the accept.  A joiner   *)
(* sends no Reliable frame before the host takes one (the host throws them *)
(* away until the type 6), unless the host probes early.                   *)
(***************************************************************************)
StagesInStep ==
    /\ state # "net" => session_join
    /\ session_finalized => session_join /\ state # "net"
    /\ state = "connected" => session_finalized \/ mode.early

(***************************************************************************)
(* Whatever is lost, a joiner that repeats its join gets it to the host;   *)
(* and once the host has a join the session comes up at both ends, if the  *)
(* host does not probe before the type 6.                                  *)
(***************************************************************************)
ComesUp ==
    /\ mode.repeats => <>session_join
    /\ (session_join /\ ~mode.early) ~> (session_finalized /\ state = "connected")
=============================================================================
