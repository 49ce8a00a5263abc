---------------------------- MODULE BlockTransfer ---------------------------
(***************************************************************************)
(* The RFU block transfer of pokeldn/gba/block.py: RecvBlock reassembles a *)
(* block from its fragments, BlockSender drives INIT, STREAM, HOLD, DONE.  *)
(* Both are records here; an operator maps a record to the next one.       *)
(*                                                                         *)
(* Fragments are counted from 1, and a fragment's bytes are the name of    *)
(* the block it belongs to: what matters is whether blocks are mixed.      *)
(***************************************************************************)
EXTENDS Naturals, Sequences, FiniteSets

CONSTANTS
    WatchdogInit,     \* watchdog_init (4): INITs before the sender arms itself
    HoldGap           \* HOLD_RESEND_GAP (6): idle slots between two HOLD re-sends

ASSUME BlockAssumption == WatchdogInit \in Nat \ {0} /\ HoldGap \in Nat

IdleSlot          == [op |-> "idle"]
InitSlot(count)   == [op |-> "init", count |-> count]
FragSlot(i, name) == [op |-> "block", index |-> i, frag |-> name]
ReqSlot           == [op |-> "req"]

-----------------------------------------------------------------------------
(* RecvBlock.                                                              *)

NoFrag == 0           \* bytes that were never written

EmptyRecv == [count |-> 0, flags |-> {}, buf |-> << >>, receiving |-> FALSE,
              done |-> FALSE, last |-> 0]

opened(count) == [count |-> count, flags |-> {}, buf |-> [i \in 1 .. count |-> NoFrag],
                  receiving |-> TRUE, done |-> FALSE, last |-> 0]

\* Mutant: flags is not cleared with the rest.
on_initKeepsFlags(rx, count) ==
    IF ~rx.receiving \/ rx.done \/ count # rx.count
    THEN [opened(count) EXCEPT !.flags = rx.flags] ELSE rx

\* An INIT of the same size that comes while a block is coming in is a re-send.
on_init(rx, count) ==
    IF ~rx.receiving \/ rx.done \/ count # rx.count THEN opened(count) ELSE rx

\* Mutant: off by one, the last fragment is not waited for.
completeShort(flags, count) == 1 .. count - 1 \subseteq flags

complete(flags, count) == flags = 1 .. count

on_block(rx, i, name) ==
    IF rx.receiving /\ i \in 1 .. rx.count
    THEN [rx EXCEPT !.last = i,
                    !.flags = @ \cup {i},
                    !.buf[i] = name,
                    !.done = @ \/ complete(rx.flags \cup {i}, rx.count)]
    ELSE rx

\* Mutant: the receiver stays open, so a HOLD re-send lands in the next block.
consumeOpen(rx) == [rx EXCEPT !.done = FALSE, !.flags = {}]

consume(rx) == [rx EXCEPT !.receiving = FALSE, !.done = FALSE, !.flags = {}]

\* One slot of a frame, as BlockReceiver.feed_frame hands it to its peer.
fed(rx, slot) ==
    CASE slot.op = "init"  -> on_init(rx, slot.count)
      [] slot.op = "block" -> on_block(rx, slot.index, slot.frag)
      [] OTHER             -> rx

-----------------------------------------------------------------------------
(* BlockSender.  ack is the RecvBlock that the reflections are fed into.    *)

NewSender(name, count, trust_pia) ==
    [at |-> "init", name |-> name, count |-> count, trust_pia |-> trust_pia,
     index |-> 1, inits |-> 0, gap |-> 0, held |-> FALSE]

NoSender == [at |-> "none"]

active(s) == s.at \notin {"none", "done"}

\* A sender's next state and the words it hands out.
Out(s, words) == [sender |-> s, words |-> words]

\* The mirrored INIT arms the sender, or the watchdog: the mirror may never come.
armed(s, ack) ==
    \/ ack.receiving /\ ack.count = s.count
    \/ s.inits + 1 > WatchdogInit

sendInit(s) == Out([s EXCEPT !.inits = @ + 1], InitSlot(s.count))

\* The last fragment ends the stream; a sender that trusts Pia is done with it.
sendFrag(s) ==
    Out(IF s.index < s.count THEN [s EXCEPT !.at = "stream", !.index = @ + 1]
        ELSE [s EXCEPT !.at = IF s.trust_pia THEN "done" ELSE "hold", !.held = FALSE],
        FragSlot(s.index, s.name))

returned(s, ack) == ack.last = s.count /\ complete(ack.flags, s.count)

\* HOLD idles between two re-sends, unless the reflection is complete.  The
\* missing fragment that is re-sent is a choice; the code takes turns.
hold(s, ack) ==
    LET missing == (1 .. s.count) \ ack.flags
        resend  == [s EXCEPT !.gap = 0, !.held = TRUE]
    IN  IF returned(s, ack) THEN {Out([s EXCEPT !.at = "done"], IdleSlot)}
        ELSE IF s.held /\ s.gap < HoldGap
        THEN {Out([s EXCEPT !.gap = @ + 1], IdleSlot)}
        ELSE IF ack.last = s.count /\ ack.count = s.count
        THEN {Out(resend, FragSlot(i, s.name)) : i \in missing}
        ELSE {Out(resend, FragSlot(s.count, s.name))}

\* BlockSender.tick: the set of its outcomes.
ticked(s, ack, peer_sending) ==
    CASE ~active(s)                                        -> {Out(s, IdleSlot)}
      [] s.at = "init" /\ peer_sending                     -> {Out(s, IdleSlot)}
      [] s.at = "init" /\ ~peer_sending /\ ~armed(s, ack)  -> {sendInit(s)}
      [] s.at = "init" /\ ~peer_sending /\ armed(s, ack)   -> {sendFrag(s)}
      [] s.at = "stream"                                   -> {sendFrag(s)}
      [] s.at = "hold"                                     -> hold(s, ack)
=============================================================================
