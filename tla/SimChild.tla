------------------------------ MODULE SimChild ------------------------------
(***************************************************************************)
(* The joiner's side of the emulated RFU link: the live path of Sim in     *)
(* pokeldn/frlg/link/sim.py with NISender and NIReceiver of                *)
(* pokeldn/gba/ni.py.  The VBlank counters that pace re-sends are choices: *)
(* an action that waits for one may happen at any tick on which its other  *)
(* conditions hold.  K frames are left out: the leader only counts them.   *)
(***************************************************************************)
EXTENDS RfuFrames

CONSTANTS
    MaxInflight,         \* MAX_INFLIGHT (24)
    SilenceCeil,         \* SILENCE_OVERRIDE_CEIL (2)
    SlotCreditMax,       \* SLOT_CREDIT_MAX (2)
    ReackEvery,          \* RECV_NI_REACK_EVERY (20)
    AckRepeats,          \* HOST_ACK_REPEAT_BEFORE_RESEND (10)
    NullReemitMax        \* NULL_REEMIT_MAX (30)

ASSUME ChildAssumption ==
    /\ {MaxInflight, SilenceCeil, SlotCreditMax, ReackEvery, AckRepeats} \subseteq Nat \ {0}
    /\ NullReemitMax \in Nat

Nothing == 0             \* None, for the fields that hold a position

VARIABLES
    rel_opened,          \* _rel_opened
    conn_sent,           \* _gba_conn_sent
    accepted,            \* _gba_accepted
    ni_emitted,          \* sub-frames of ours emitted so far, len(_ni.emitted)
    ack_key,             \* _host_ni_ack_key: our sub-frame the host acked last
    ack_repeat,          \* _host_ni_ack_repeat, saturating at AckRepeats
    ni_resend,           \* _host_ni_resend
    null_reemits,        \* _null_reemits
    cur_ack,             \* _cur_ni_ack: the host's sub-frame to mirror
    ack_sent,            \* _ni_ack_bytes: the mirror emitted last
    ni_repeat,           \* _host_ni_repeat, modulo ReackEvery
    null_seen,           \* _host_ni_null_seen
    uni_seen,            \* _host_uni_seen
    ni_done,             \* _ni_done
    slot_credit          \* _slot_credit

openVars   == <<rel_opened, conn_sent, accepted>>
sendVars   == <<ni_emitted, ack_key, ack_repeat, ni_resend, null_reemits>>
mirrorVars == <<cur_ack, ack_sent, ni_repeat, null_seen>>
childVars  == <<openVars, sendVars, mirrorVars, uni_seen, ni_done, slot_credit>>

ChildInit ==
    /\ rel_opened = FALSE /\ conn_sent = FALSE /\ accepted = FALSE
    /\ ni_emitted = 0
    /\ ack_key = Nothing /\ ack_repeat = 0 /\ ni_resend = Nothing /\ null_reemits = 0
    /\ cur_ack = Nothing /\ ack_sent = Nothing /\ ni_repeat = 0 /\ null_seen = FALSE
    /\ uni_seen = FALSE /\ ni_done = FALSE
    /\ slot_credit = 0

-----------------------------------------------------------------------------
(* _on_gba_in: one operator per kind of frame of the host.                  *)

onAccept ==
    /\ accepted' = TRUE
    /\ UNCHANGED <<rel_opened, conn_sent, sendVars, mirrorVars, uni_seen, ni_done, slot_credit>>

\* Every T earns the right to one slot.
earnSlot == slot_credit' = IF slot_credit < SlotCreditMax THEN slot_credit + 1 ELSE slot_credit

\* A sub-frame of the host's transfer; its NULL is not mirrored.
onHostNi(i) ==
    /\ IF i = ParentLast
       THEN null_seen' = TRUE /\ UNCHANGED <<cur_ack, ack_sent, ni_repeat>>
       ELSE /\ cur_ack' = i
            /\ ni_repeat' = IF i = cur_ack THEN (ni_repeat + 1) % ReackEvery ELSE 0
            /\ ack_sent' = IF i = cur_ack /\ ni_repeat' = 0 THEN Nothing ELSE ack_sent
            /\ UNCHANGED null_seen
    /\ earnSlot
    /\ UNCHANGED <<openVars, sendVars, uni_seen, ni_done>>

\* NISender.resend_after: the sub-frame after the one the host names.
resend_after(i) == IF i < ni_emitted THEN i + 1 ELSE Nothing

\* The host acks a sub-frame of ours; a repeated ack names what it waits for.
onHostAck(i) ==
    /\ ack_key' = i
    /\ IF i = ack_key
       THEN /\ ack_repeat' = IF ack_repeat < AckRepeats THEN ack_repeat + 1 ELSE ack_repeat
            /\ ni_resend' = IF ack_repeat' = AckRepeats /\ ni_resend = Nothing
                            THEN resend_after(i) ELSE ni_resend
            /\ UNCHANGED null_reemits
       ELSE ack_repeat' = 0 /\ ni_resend' = Nothing /\ null_reemits' = 0
    /\ earnSlot
    /\ UNCHANGED <<openVars, mirrorVars, ni_emitted, uni_seen, ni_done>>

onHostUni ==
    /\ uni_seen' = TRUE
    /\ earnSlot
    /\ UNCHANGED <<openVars, sendVars, mirrorVars, ni_done>>

onOther == UNCHANGED childVars

-----------------------------------------------------------------------------
(* _drive_reliable and _gba_frame: at most one new slot per VBlank.  `out' *)
(* is the number of our frames that the host has not acked.                 *)

childOpen ==
    /\ ~rel_opened
    /\ rel_opened' = TRUE
    /\ UNCHANGED <<conn_sent, accepted, sendVars, mirrorVars, uni_seen, ni_done, slot_credit>>

childConnect ==
    /\ rel_opened /\ ~conn_sent
    /\ conn_sent' = TRUE
    /\ UNCHANGED <<rel_opened, accepted, sendVars, mirrorVars, uni_seen, ni_done, slot_credit>>

\* A slot is due when there is credit and room; CHILD_SILENCE_LIMIT quiet
\* VBlanks override the credit, and the window up to its ceiling.
slotDue(quiet, out) ==
    /\ conn_sent /\ accepted
    /\ out < MaxInflight \/ (quiet /\ out < MaxInflight * SilenceCeil)
    /\ slot_credit > 0 \/ quiet

spendSlot == slot_credit' = IF slot_credit > 0 THEN slot_credit - 1 ELSE 0

sending == ni_emitted < ChildLast
mayAdvance == ni_emitted = 0 \/ ack_key = ni_emitted

\* The next sub-frame goes out when the host has acked the one before it.
childNiNext(quiet, out) ==
    /\ slotDue(quiet, out)
    /\ ~ni_done /\ sending /\ mayAdvance
    /\ ni_emitted' = ni_emitted + 1
    /\ spendSlot
    /\ UNCHANGED <<openVars, ack_key, ack_repeat, ni_resend, null_reemits, mirrorVars,
                   uni_seen, ni_done>>

\* Every NI_ACK_WAIT_RESEND VBlanks of waiting the last one is sent again.
resendDue == sending /\ ~mayAdvance

childNiAgain(quiet, out) ==
    /\ slotDue(quiet, out)
    /\ ~ni_done /\ resendDue
    /\ spendSlot
    /\ UNCHANGED <<openVars, sendVars, mirrorVars, uni_seen, ni_done>>

notSendingNow == ~ni_done /\ ~(sending /\ mayAdvance)

\* The host is blocked on the mirror of its current sub-frame.
mirrorDue == cur_ack # Nothing /\ ack_sent # cur_ack

childMirror(quiet, out) ==
    /\ slotDue(quiet, out)
    /\ notSendingNow /\ mirrorDue
    /\ ack_sent' = cur_ack
    /\ spendSlot
    /\ UNCHANGED <<openVars, sendVars, cur_ack, ni_repeat, null_seen, uni_seen, ni_done>>

\* The host acks one of our sub-frames again: the next never reached it.
childResend(quiet, out) ==
    /\ slotDue(quiet, out)
    /\ notSendingNow /\ ~mirrorDue
    /\ ~sending /\ ~uni_seen
    /\ ni_resend # Nothing /\ null_reemits < NullReemitMax
    /\ null_reemits' = null_reemits + 1
    /\ spendSlot
    /\ UNCHANGED <<openVars, ni_emitted, ack_key, ack_repeat, ni_resend, mirrorVars,
                   uni_seen, ni_done>>

\* Rather than go silent the mirror is repeated, but not after the host's NULL.
childMirrorAgain(out) ==
    /\ slotDue(TRUE, out)
    /\ notSendingNow /\ ~mirrorDue /\ ~uni_seen
    /\ cur_ack # Nothing /\ ~null_seen
    /\ spendSlot
    /\ UNCHANGED <<openVars, sendVars, mirrorVars, uni_seen, ni_done>>

\* Mutant: our own transfer being done is enough.
mayGoUniAlone == ~sending

\* No UNI slot before the host itself is in UNI.
mayGoUni == uni_seen

childUniSlot(quiet, out) ==
    /\ slotDue(quiet, out)
    /\ \/ ni_done
       \/ notSendingNow /\ ~mirrorDue /\ mayGoUni
    /\ ni_done' = TRUE
    /\ spendSlot
    /\ UNCHANGED <<openVars, sendVars, mirrorVars, uni_seen>>
=============================================================================
