-------------------------------- MODULE MCGift -------------------------------
(* Small instances of GiftSession for TLC.                                 *)
EXTENDS GiftSession

MCData == [valid |-> TRUE, phrase |-> TRUE, card |-> "none", stamps |-> "new"]
MCConsole == [data |-> MCData, toss |-> 0, news |-> "none", status |-> 2, repoints |-> [i \in 1 .. DumpBlocks + 1 |-> TRUE]]
Gift(kind) == [kind |-> kind, gated |-> FALSE, expects |-> FALSE]
Holding(card) == [MCConsole EXCEPT !.data.card = card]

\* A console that holds this card, and whose player keeps it where asked.
Keeping(card) == [Holding(card) EXCEPT !.toss = 1]
Cards == {Holding("none"), Holding("same"), Holding("diff"), Keeping("diff")}
Variants == {Holding("variant"), Keeping("variant")}

\* Every branch of every server script.
AllBranches ==
    {[dist |-> Gift(k), console |-> c] : k \in {"card", "trainer", "mevent", "stamp"}, c \in Cards}
    \cup {[dist |-> Gift("stamp"), console |-> c] : c \in Variants}
    \cup {[dist |-> Gift("stamp"), console |-> [Holding("same") EXCEPT !.data.stamps = s]]
            : s \in {"full", "present"}}
    \cup {[dist |-> Gift("news"), console |-> [MCConsole EXCEPT !.news = n]] : n \in {"none", "same"}}
    \cup {[dist |-> [Gift("buffer") EXCEPT !.expects = e], console |-> [MCConsole EXCEPT !.status = s]]
            : e \in BOOLEAN, s \in {1, 2}}
    \cup {[dist |-> Gift("dump"), console |-> MCConsole]}
    \cup {[dist |-> [Gift("card") EXCEPT !.gated = TRUE], console |-> [MCConsole EXCEPT !.data.phrase = p]]
            : p \in BOOLEAN}
    \cup {[dist |-> Gift("card"), console |-> [MCConsole EXCEPT !.data.valid = FALSE]]}

\* The payload repoints the send of the last block only.
LastBlockOnly ==
    {[dist |-> Gift("dump"), console |-> [MCConsole EXCEPT !.repoints[1] = FALSE]]}
=============================================================================
