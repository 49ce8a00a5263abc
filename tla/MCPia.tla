-------------------------------- MODULE MCPia -------------------------------
(* Small instances of PiaConnection for TLC.                               *)
EXTENDS PiaConnection

OurHost == [ours |-> "host", repeats |-> TRUE, before_finalize |-> FALSE, early |-> FALSE]

OurJoiner(repeats, before_finalize, early) ==
    [ours |-> "joiner", repeats |-> repeats, before_finalize |-> before_finalize, early |-> early]

\* Our host; our joiner at a console that trades, with and without the
\* repeated join, and at one with a Mystery Gift.
MCModes == {OurHost, OurJoiner(FALSE, FALSE, FALSE), OurJoiner(TRUE, FALSE, FALSE),
            OurJoiner(FALSE, FALSE, TRUE), OurJoiner(TRUE, TRUE, TRUE)}
=============================================================================
