------------------------------- MODULE Barrier -------------------------------
(***************************************************************************)
(* BarrierResponder of pokeldn/gba/barrier.py, the joiner's half of the    *)
(* READY_EXIT_STANDBY and READY_CLOSE_LINK barriers: it starts a round, or *)
(* mirrors one of the host.  Each operator maps the record to the next.    *)
(*                                                                         *)
(* silent stands for _since_host and _since_initiate, which only differ    *)
(* inside one frame: observe_frame sets both back whenever the host speaks.*)
(***************************************************************************)
EXTENDS Integers

CONSTANTS
    InitiateTimeout,  \* INITIATE_TIMEOUT (120): frames before an unanswered round is dropped
    IdleTimeout,      \* IDLE_TIMEOUT (90): silent frames that end a mirrored round
    MaxEmits          \* max_emits (6): frames that carry one count

ASSUME BarrierAssumption == {InitiateTimeout, IdleTimeout, MaxEmits} \subseteq Nat \ {0}

NewBarrier ==
    [mode |-> "IDLE", initiated |-> FALSE, host_count |-> 0, local |-> 0, silent |-> 0,
     burst_for |-> -1, burst |-> 0]

active(b) == b.mode # "IDLE"

idled(b) == [b EXCEPT !.mode = "IDLE", !.initiated = FALSE, !.silent = 0]

\* A standby is dropped, a close is not.
reset_to_idle(b) == IF b.mode = "STANDBY" THEN [idled(b) EXCEPT !.burst_for = -1] ELSE b

\* A round that is under way is not started again.
initiate(b) ==
    IF b.mode = "STANDBY" THEN b
    ELSE [b EXCEPT !.mode = "STANDBY", !.initiated = TRUE, !.host_count = 0, !.silent = 0,
              !.burst_for = -1]

\* The close takes the place of a standby.
initiate_close(b) ==
    IF b.mode = "CLOSE" THEN b ELSE [b EXCEPT !.mode = "CLOSE", !.initiated = TRUE, !.silent = 0]

\* The host goes on sending the count of a round that is over; it starts nothing.
mirrored(b, n) ==
    IF n < b.local THEN b ELSE [b EXCEPT !.mode = "STANDBY", !.initiated = FALSE, !.local = n]

\* A round of ours is over when the host sends its count.
on_host_standby(b, n) ==
    LET heard == [b EXCEPT !.host_count = n, !.silent = 0]
    IN  IF ~(b.initiated /\ b.mode = "STANDBY") THEN mirrored(heard, n)
        ELSE IF n = b.local THEN [idled(heard) EXCEPT !.local = @ + 1] ELSE heard

on_host_close(b, n) ==
    [b EXCEPT !.host_count = n, !.local = n, !.silent = 0, !.mode = "CLOSE", !.initiated = FALSE]

\* Only a mirrored round has passed when the host falls silent.
timed_out(b) == IF b.initiated THEN idled(b) ELSE [idled(b) EXCEPT !.local = @ + 1]

\* observe_frame for a frame without a barrier word.
observe_silence(b) ==
    CASE b.mode # "STANDBY" -> b
      [] b.mode = "STANDBY" /\ b.silent >= (IF b.initiated THEN InitiateTimeout ELSE IdleTimeout) ->
            timed_out(b)
      [] OTHER -> [b EXCEPT !.silent = @ + 1]

\* want_emit: whether a word goes out, and the record after it.
burst_left(b)  == b.burst_for # b.local \/ b.burst < MaxEmits
wants_emit(b)  == active(b) /\ burst_left(b)
emitted(b)     == [b EXCEPT !.burst_for = b.local, !.burst = IF b.burst_for = b.local THEN @ + 1 ELSE 1]
=============================================================================
