--------------------------- MODULE ReliableProofs ---------------------------
(***************************************************************************)
(* The Reliable session keeps its promises for every number of ids, every  *)
(* window and every amount of traffic.                                     *)
(***************************************************************************)
EXTENDS Reliable, TLAPS, SequenceTheorems, FiniteSetTheorems

-----------------------------------------------------------------------------
(* Wrapping ids: as long as the positions compared lie within half of the  *)
(* id space, the ids compare as the positions do.                          *)

\* A number splits in one way only into a multiple of SeqSpace and a rest.
LEMMA DivisionUnique ==
    ASSUME NEW q \in Int, NEW r \in SeqId, NEW p \in Int, NEW t \in SeqId,
           q * SeqSpace + r = p * SeqSpace + t
    PROVE  q = p /\ r = t
<1> USE SeqSpaceAssumption DEF SeqId
<1>1. (q - p) * SeqSpace = t - r
  OBVIOUS
<1>2. CASE q > p
  <2>1. q - p >= 1
    BY <1>2
  <2>2. (q - p) * SeqSpace >= SeqSpace
    BY <2>1
  <2> QED
    BY <2>2, <1>1
<1>3. CASE q < p
  <2>1. p - q >= 1
    BY <1>3
  <2>2. (p - q) * SeqSpace >= SeqSpace
    BY <2>1
  <2>3. (p - q) * SeqSpace = r - t
    OBVIOUS
  <2> QED
    BY <2>2, <2>3
<1>4. CASE q = p
  BY <1>4
<1> QED
  BY <1>2, <1>3, <1>4

\* The remainder is the id, and it is the only one that fits.
LEMMA RemainderIs ==
    ASSUME NEW a \in Int, NEW q \in Int, NEW r \in SeqId, a = q * SeqSpace + r
    PROVE  a % SeqSpace = r
<1> USE SeqSpaceAssumption DEF SeqId
<1>1. a = (a \div SeqSpace) * SeqSpace + (a % SeqSpace)
  OBVIOUS
<1>2. a % SeqSpace \in SeqId /\ a \div SeqSpace \in Int
  OBVIOUS
<1> QED
  BY <1>1, <1>2, DivisionUnique

LEMMA PlusType ==
    ASSUME NEW s \in Int, NEW n \in Int
    PROVE  Plus(s, n) \in SeqId
BY SeqSpaceAssumption DEF Plus, SeqId

LEMMA IdOfType == ASSUME NEW i \in Int PROVE IdOf(i) \in SeqId
BY PlusType, StartAssumption DEF IdOf

\* The id of position i is i places after Start, less some whole turns.
LEMMA IdOfTurns ==
    ASSUME NEW i \in Int
    PROVE  \E q \in Int : Start + i = q * SeqSpace + IdOf(i)
<1> USE SeqSpaceAssumption, StartAssumption DEF IdOf, Plus
<1>1. Start + i = ((Start + i) \div SeqSpace) * SeqSpace + ((Start + i) % SeqSpace)
  OBVIOUS
<1>2. (Start + i) \div SeqSpace \in Int
  OBVIOUS
<1> QED
  BY <1>1, <1>2

\* Stepping an id is stepping the position.
LEMMA PlusIdOf ==
    ASSUME NEW i \in Int, NEW n \in Int
    PROVE  Plus(IdOf(i), n) = IdOf(i + n)
<1>1. PICK q \in Int : Start + i = q * SeqSpace + IdOf(i)
  BY IdOfTurns
<1>2. PICK p \in Int : Start + (i + n) = p * SeqSpace + IdOf(i + n)
  BY IdOfTurns
<1>3. IdOf(i) + n = (p - q) * SeqSpace + IdOf(i + n)
  BY <1>1, <1>2, IdOfType, StartAssumption, SeqSpaceAssumption DEF SeqId
<1>4. IdOf(i) + n \in Int /\ p - q \in Int /\ IdOf(i + n) \in SeqId
  BY IdOfType DEF SeqId
<1> QED
  BY <1>3, <1>4, RemainderIs DEF Plus

LEMMA NextId ==
    ASSUME NEW i \in Int
    PROVE  Plus(IdOf(i), 1) = IdOf(i + 1)
BY PlusIdOf

\* The wrapping distance of two ids is the distance of their positions.
LEMMA MinusIdOf ==
    ASSUME NEW i \in Int, NEW j \in Int, NEW d \in SeqId,
           j - i = d \/ j - i = d - SeqSpace
    PROVE  Minus(IdOf(j), IdOf(i)) = d
<1>1. PICK q \in Int : Start + i = q * SeqSpace + IdOf(i)
  BY IdOfTurns
<1>2. PICK p \in Int : Start + j = p * SeqSpace + IdOf(j)
  BY IdOfTurns
<1>3. IdOf(j) - IdOf(i) = (q - p) * SeqSpace + (j - i)
  BY <1>1, <1>2, IdOfType, StartAssumption, SeqSpaceAssumption DEF SeqId
<1>4. \E e \in Int : IdOf(j) - IdOf(i) = e * SeqSpace + d
  <2>1. CASE j - i = d
    BY <2>1, <1>3
  <2>2. CASE j - i = d - SeqSpace
    <3>1. IdOf(j) - IdOf(i) = (q - p - 1) * SeqSpace + d
      BY <2>2, <1>3, SeqSpaceAssumption DEF SeqId
    <3> QED
      BY <3>1
  <2> QED
    BY <2>1, <2>2
<1>5. IdOf(j) - IdOf(i) \in Int
  BY IdOfType DEF SeqId
<1> QED
  BY <1>4, <1>5, RemainderIs DEF Minus

\* Two positions less than one turn apart have different ids.
LEMMA IdOfInjective ==
    ASSUME NEW i \in Int, NEW j \in Int, IdOf(i) = IdOf(j),
           i - j < SeqSpace, j - i < SeqSpace
    PROVE  i = j
<1> USE SeqSpaceAssumption DEF SeqId
<1>1. Minus(IdOf(j), IdOf(i)) = 0
  <2>1. IdOf(j) - IdOf(i) = 0 /\ 0 = 0 * SeqSpace + 0
    BY IdOfType
  <2> QED
    BY <2>1, RemainderIs DEF Minus
<1>2. CASE j >= i
  BY <1>1, <1>2, MinusIdOf
<1>3. CASE j < i
  <2>1. j - i + SeqSpace \in SeqId /\ j - i = (j - i + SeqSpace) - SeqSpace
    BY <1>3
  <2>2. Minus(IdOf(j), IdOf(i)) = j - i + SeqSpace
    BY <2>1, MinusIdOf
  <2> QED
    BY <1>1, <2>2
<1> QED
  BY <1>2, <1>3

\* _seq_lt orders ids as their positions are ordered, if the later position is
\* less than half of the id space ahead and at most half of it behind.
THEOREM SeqLtIsOrder ==
    ASSUME NEW i \in Int, NEW j \in Int, j - i < Half, i - j <= Half
    PROVE  SeqLt(IdOf(i), IdOf(j)) <=> i < j
<1> USE SeqSpaceAssumption DEF SeqId
<1>1. Half \in Nat /\ 2 * Half <= SeqSpace /\ Half < SeqSpace
  BY DEF Half
<1>2. CASE j >= i
  <2>1. Minus(IdOf(j), IdOf(i)) = j - i
    BY <1>1, <1>2, MinusIdOf
  <2> QED
    BY <2>1, <1>1, <1>2 DEF SeqLt
<1>3. CASE j < i
  <2>1. j - i + SeqSpace \in SeqId /\ j - i = (j - i + SeqSpace) - SeqSpace
    BY <1>1, <1>3
  <2>2. Minus(IdOf(j), IdOf(i)) = j - i + SeqSpace
    BY <2>1, MinusIdOf
  <2> QED
    BY <2>2, <1>1, <1>3 DEF SeqLt
<1> QED
  BY <1>2, <1>3

\* A run of ids is a run of positions.
LEMMA RunIdOf ==
    ASSUME NEW i \in Int, NEW H, NEW n \in Nat, IsRun(IdOf(i), H, n)
    PROVE  /\ \A k \in 0 .. n - 1 : IdOf(i + k) \in H
           /\ IdOf(i + n) \notin H
<1>1. \A k \in 0 .. n - 1 : Plus(IdOf(i), k) = IdOf(i + k)
  BY PlusIdOf
<1>2. Plus(IdOf(i), n) = IdOf(i + n)
  BY PlusIdOf
<1> QED
  BY <1>1, <1>2 DEF IsRun

-----------------------------------------------------------------------------
(* The sessions.                                                           *)

LEMMA OtherIsPeer ==
    ASSUME NEW p \in Peer
    PROVE  Other(p) \in Peer /\ Other(p) # p /\ Other(Other(p)) = p
BY PeerAssumption DEF Other

\* Each end receives from one other end only.
LEMMA OtherUnique ==
    ASSUME NEW p \in Peer, NEW q \in Peer, q # p
    PROVE  q = Other(p)
BY PeerAssumption DEF Other

LEMMA Bounds ==
    /\ Half \in Nat /\ 2 * Half <= SeqSpace
    /\ MaxInflight \in Nat /\ MaxInflight < Half /\ Half < SeqSpace
    /\ MaskBits \in Nat /\ MaskBits < SeqSpace /\ SeqSpace \in Nat /\ SeqSpace > 0
BY SeqSpaceAssumption, WindowAssumption DEF Half

\* In every state the types that arithmetic needs.
LEMMA Numbers ==
    ASSUME Inv, NEW p \in Peer
    PROVE  /\ sent[p] \in Nat /\ base[p] \in Nat /\ consumed(p) \in Nat
           /\ delivered[p] \in Seq(Nat)
           /\ recvOoo[p] \subseteq SeqId
BY LenProperties DEF Inv, TypeOK, consumed

\* The number of frames in the window is the number of ids it holds.
LEMMA InflightIs ==
    ASSUME Inv, NEW p \in Peer
    PROVE  inflight(p) = sent[p] - base[p]
<1> DEFINE lo == base[p]
           hi == sent[p] - 1
           ids == {IdOf(i) : i \in lo .. hi}
           f == [i \in lo .. hi |-> IdOf(i)]
<1>1. /\ lo \in Nat /\ sent[p] \in Nat /\ lo <= sent[p]
      /\ sent[p] <= lo + MaxInflight /\ DOMAIN unacked[p] = ids
  BY Numbers DEF Inv, WindowInv
<1>2. \A i, j \in lo .. hi : IdOf(i) = IdOf(j) => i = j
  BY <1>1, Bounds, IdOfInjective
<1>3. f \in Bijection(lo .. hi, ids)
  <2>1. f \in [lo .. hi -> ids]
    OBVIOUS
  <2>2. IsInjective(f)
    BY <1>2 DEF IsInjective
  <2>3. \A t \in ids : \E s \in lo .. hi : f[s] = t
    OBVIOUS
  <2> QED
    BY <2>1, <2>2, <2>3 DEF Bijection, Injection, Surjection
<1>4. lo \in Int /\ hi \in Int
  BY <1>1
<1>5. IsFiniteSet(lo .. hi) /\ Cardinality(lo .. hi) = sent[p] - base[p]
  <2>1. IsFiniteSet(lo .. hi) /\ Cardinality(lo .. hi) = IF lo > hi THEN 0 ELSE hi - lo + 1
    BY <1>4, FS_Interval
  <2> QED
    BY <1>1, <2>1
<1>6. Cardinality(ids) = Cardinality(lo .. hi)
  <2>1. ExistsBijection(lo .. hi, ids)
    BY <1>3 DEF ExistsBijection
  <2> HIDE DEF ids, lo, hi
  <2> QED
    BY <1>5, <2>1, FS_Bijection
<1> QED
  BY <1>1, <1>5, <1>6 DEF inflight

-----------------------------------------------------------------------------
LEMMA InitInv == Init => Inv
<1> SUFFICES ASSUME Init PROVE Inv
  OBVIOUS
<1>1. IdOf(0) = Start
  BY StartAssumption, SeqSpaceAssumption DEF IdOf, Plus
<1>2. \A p \in Peer : delivered[p] = << >> /\ consumed(p) = 0
  BY DEF Init, consumed
<1>3. TypeOK
  BY StartAssumption, LimitAssumption, EmptySeq
     DEF Init, TypeOK, SeqId, IsMap, EmptyMap, NoGap
<1>4. ASSUME NEW p \in Peer PROVE WindowInv(p)
  BY <1>1, Bounds DEF Init, WindowInv, EmptyMap
<1>5. ASSUME NEW p \in Peer PROVE ReceiveInv(p, Other(p)) /\ AckInv(p, Other(p))
  BY <1>1, <1>2, OtherIsPeer DEF Init, ReceiveInv, AckInv, EmptyMap
<1>6. NetInv
  BY DEF Init, NetInv
<1> QED
  BY <1>3, <1>4, <1>5, <1>6 DEF Inv

-----------------------------------------------------------------------------
\* Allocating an id: it is new to the window and to the receiver.
LEMMA QueueInv ==
    ASSUME Inv, NEW p \in Peer, NEW init \in BOOLEAN, init = (sent[p] = 0),
           sent[p] < base[p] + MaxInflight, queue(p, init),
           localOpened' = [localOpened EXCEPT ![p] = TRUE],
           UNCHANGED <<recvVars, ackVars>>
    PROVE  Inv'
<1> DEFINE q == Other(p)
           e == [inner |-> sent[p], init |-> init, resent |-> FALSE, acked |-> FALSE]
           new == DataTo(q, IdOf(sent[p]), e)
<1>1. /\ TypeOK /\ WindowInv(p) /\ NetInv
      /\ \A r \in Peer : /\ sent[r] \in Nat /\ base[r] \in Nat
                         /\ consumed(r) \in Nat /\ consumed(r)' = consumed(r)
  BY Numbers DEF Inv, recvVars, consumed
<1>2. /\ outSeq[p] = IdOf(sent[p]) /\ Plus(outSeq[p], 1) = IdOf(sent[p] + 1)
      /\ IdOf(sent[p]) \in SeqId /\ IdOf(sent[p] + 1) \in SeqId
  <2>1. sent[p] \in Int /\ sent[p] + 1 \in Int /\ outSeq[p] = IdOf(sent[p])
    BY <1>1 DEF WindowInv
  <2>2. Plus(IdOf(sent[p]), 1) = IdOf(sent[p] + 1)
    BY <2>1, NextId
  <2> QED
    BY <2>1, <2>2, IdOfType
<1>3. /\ sent' = [sent EXCEPT ![p] = sent[p] + 1] /\ sent \in [Peer -> Nat]
      /\ outSeq' = [outSeq EXCEPT ![p] = IdOf(sent[p] + 1)]
      /\ net' = net \cup {new}
      /\ unacked' = [unacked EXCEPT ![p] =
            [k \in DOMAIN unacked[p] \cup {IdOf(sent[p])} |->
                IF k = IdOf(sent[p]) THEN e ELSE unacked[p][k]]]
      /\ UNCHANGED <<windowLo, peerGap, gapNacks, base, peerOpened, recvNext, recvOoo,
                     deliverNext, deliverBuf, delivered, ackOwed, ackArmed>>
  BY <1>1, <1>2 DEF queue, recvVars, ackVars, TypeOK
<1>4. \A i \in base[p] .. sent[p] - 1 : IdOf(i) # IdOf(sent[p])
  BY <1>1, Bounds, IdOfInjective DEF WindowInv
<1>5. TypeOK'
  <2>1. e \in Entry
    BY <1>1 DEF Entry
  <2>2. ASSUME NEW r \in Peer PROVE IsMap(unacked'[r], SeqId, Entry)
    BY <1>1, <1>2, <1>3, <2>1 DEF TypeOK, IsMap
  <2>3. /\ DOMAIN unacked' = Peer /\ sent' \in [Peer -> Nat]
        /\ outSeq' \in [Peer -> SeqId] /\ localOpened' \in [Peer -> BOOLEAN]
    BY <1>1, <1>2, <1>3 DEF TypeOK
  <2> QED
    BY <1>1, <1>3, <2>2, <2>3 DEF TypeOK
<1>6. ASSUME NEW r \in Peer PROVE WindowInv(r)'
  <2>1. CASE r = p
    <3>1. /\ unacked'[p] = [k \in DOMAIN unacked[p] \cup {IdOf(sent[p])} |->
                IF k = IdOf(sent[p]) THEN e ELSE unacked[p][k]]
          /\ sent'[p] = sent[p] + 1 /\ base'[p] = base[p]
          /\ outSeq'[p] = IdOf(sent[p] + 1) /\ windowLo'[p] = IdOf(base[p])
          /\ localOpened'[p]
      BY <1>1, <1>3 DEF TypeOK, WindowInv
    <3>2. DOMAIN unacked'[p] = {IdOf(i) : i \in base[p] .. sent[p]}
      BY <1>1, <3>1 DEF WindowInv
    <3>3. ASSUME NEW i \in base[p] .. sent[p]
          PROVE  unacked'[p][IdOf(i)].inner = i /\ unacked'[p][IdOf(i)].init = (i = 0)
      BY <1>1, <1>4, <3>1 DEF WindowInv
    <3>4. base'[p] .. sent'[p] - 1 = base[p] .. sent[p]
      BY <1>1, <3>1
    <3>5. DOMAIN unacked'[p] = {IdOf(i) : i \in base'[p] .. sent'[p] - 1}
      BY <3>2, <3>4
    <3>6. \A i \in base'[p] .. sent'[p] - 1 :
             unacked'[p][IdOf(i)].inner = i /\ unacked'[p][IdOf(i)].init = (i = 0)
      BY <3>3, <3>4
    <3>7. /\ base'[p] <= sent'[p] /\ sent'[p] <= base'[p] + MaxInflight
          /\ outSeq'[p] = IdOf(sent'[p]) /\ windowLo'[p] = IdOf(base'[p])
          /\ localOpened'[p] <=> sent'[p] # 0
      BY <1>1, <3>1, Bounds DEF WindowInv
    <3>8. WindowInv(p)'
      BY <3>5, <3>6, <3>7 DEF WindowInv
    <3> QED
      BY <2>1, <3>8
  <2>2. CASE r # p
    <3>1. /\ unacked'[r] = unacked[r] /\ sent'[r] = sent[r] /\ base'[r] = base[r]
          /\ outSeq'[r] = outSeq[r] /\ windowLo'[r] = windowLo[r]
          /\ localOpened'[r] <=> localOpened[r]
      BY <1>1, <1>3, <2>2 DEF TypeOK
    <3> QED
      BY <3>1 DEF Inv, WindowInv
  <2> QED
    BY <2>1, <2>2
<1>7. ASSUME NEW r \in Peer PROVE ReceiveInv(r, Other(r))'
  <2>1. CASE r = q
    <3>1. Other(r) = p
      BY <2>1, OtherIsPeer
    <3>2. IdOf(sent[p]) \notin recvOoo[r]
      <4>1. ReceiveInv(r, p) /\ WindowInv(p)
        BY <3>1 DEF Inv
      <4>2. ASSUME NEW i \in consumed(r) + 1 .. sent[p] - 1
            PROVE  IdOf(i) # IdOf(sent[p])
        <5>1. i \in Int /\ sent[p] - i < SeqSpace /\ i < sent[p]
          BY <1>1, <2>1, <4>1, Bounds, OtherIsPeer DEF ReceiveInv, WindowInv
        <5> QED
          BY <1>1, <5>1, Bounds, IdOfInjective
      <4> QED
        BY <4>1, <4>2 DEF ReceiveInv
    <3>3. ReceiveInv(r, p)
      BY <3>1 DEF Inv
    <3>4. sent'[p] = sent[p] + 1
      BY <1>3
    <3> QED
      BY <1>1, <1>3, <3>1, <3>2, <3>3, <3>4 DEF ReceiveInv
  <2>2. CASE r # q
    <3>1. Other(r) \in Peer /\ Other(r) # p
      BY <2>2, OtherIsPeer
    <3>2. sent'[Other(r)] = sent[Other(r)]
      BY <1>3, <3>1
    <3> QED
      BY <1>1, <1>3, <3>2 DEF Inv, ReceiveInv
  <2> QED
    BY <2>1, <2>2
<1>8. ASSUME NEW r \in Peer PROVE AckInv(r, Other(r))'
  <2>1. \A i : Received(Other(r), i)' = Received(Other(r), i)
    BY <1>3 DEF Received
  <2>2. CASE r = p
    <3>1. ASSUME NEW i \in base'[p] .. sent'[p] - 1, unacked'[p][IdOf(i)].acked
          PROVE  Received(q, i)
      <4>1. i # sent[p]
        BY <1>1, <1>3, <3>1 DEF TypeOK
      <4>2. i \in base[p] .. sent[p] - 1 /\ unacked'[p][IdOf(i)] = unacked[p][IdOf(i)]
        BY <1>1, <1>3, <1>4, <4>1 DEF TypeOK, WindowInv
      <4> QED
        BY <3>1, <4>2 DEF Inv, AckInv
    <3> QED
      BY <2>1, <2>2, <3>1 DEF AckInv
  <2>3. CASE r # p
    BY <1>1, <1>3, <2>1, <2>3 DEF Inv, AckInv, TypeOK
  <2> QED
    BY <2>2, <2>3
<1>9. NetInv'
  <2>1. \A r \in Peer : sent'[r] \in Nat /\ sent[r] <= sent'[r]
    BY <1>1, <1>3
  <2>2. \A r, i : Received(r, i)' = Received(r, i)
    BY <1>3 DEF Received
  <2>3. ASSUME NEW m \in net
        PROVE  /\ m.to \in Peer
               /\ m.type \in {"data", "ack"}
               /\ m.type = "data" => DataInv(m, Other(m.to))'
               /\ m.type = "ack" => AckMessageInv(m, Other(m.to), m.to)'
    <3>1. m.to \in Peer /\ Other(m.to) \in Peer
      BY <1>1, OtherIsPeer DEF NetInv
    <3>2. m.type = "data" => DataInv(m, Other(m.to))'
      BY <1>1, <2>1, <3>1 DEF NetInv, DataInv
    <3>3. m.type = "ack" => AckMessageInv(m, Other(m.to), m.to)'
      BY <1>1, <2>1, <2>2, <3>1, Bounds DEF NetInv, AckMessageInv
    <3> QED
      BY <1>1, <3>1, <3>2, <3>3 DEF NetInv
  <2>4. ASSUME NEW m, m = new
        PROVE  m.to \in Peer /\ m.type = "data" /\ DataInv(m, Other(m.to))'
    <3>1. /\ m.to = q /\ m.type = "data" /\ m.seq = IdOf(sent[p])
          /\ m.inner = sent[p] /\ m.init = (sent[p] = 0)
      BY <2>4 DEF DataTo
    <3>2. Other(q) = p /\ sent'[p] = sent[p] + 1
      BY <1>3, OtherIsPeer
    <3> QED
      BY <1>1, <3>1, <3>2, OtherIsPeer DEF DataInv
  <2>5. net' = net \cup {new}
    BY <1>3
  <2> HIDE DEF new
  <2>6. ASSUME NEW m \in net'
        PROVE  /\ m.to \in Peer
               /\ m.type \in {"data", "ack"}
               /\ m.type = "data" => DataInv(m, Other(m.to))'
               /\ m.type = "ack" => AckMessageInv(m, Other(m.to), m.to)'
    BY <2>3, <2>4, <2>5
  <2> QED
    BY <2>6 DEF NetInv
<1> QED
  BY <1>5, <1>6, <1>7, <1>8, <1>9 DEF Inv

LEMMA OpenInv ==
    ASSUME Inv, NEW p \in Peer, open(p)
    PROVE  Inv'
<1>1. sent[p] = 0 /\ sent[p] < base[p] + MaxInflight
  BY Numbers, WindowAssumption DEF open, Inv, WindowInv
<1>2. queue(p, TRUE) /\ TRUE = (sent[p] = 0)
  BY <1>1 DEF open
<1> QED
  BY <1>1, <1>2, QueueInv DEF open

LEMMA SendInv ==
    ASSUME Inv, NEW p \in Peer, send(p)
    PROVE  Inv'
<1>1. sent[p] < base[p] + MaxInflight
  BY Numbers, Bounds, InflightIs DEF send
<1>2. localOpened' = [localOpened EXCEPT ![p] = TRUE]
  BY DEF send, Inv, TypeOK
<1>3. sent[p] # 0
  BY DEF send, Inv, WindowInv
<1> QED
  BY <1>1, <1>2, <1>3, QueueInv DEF send

LEMMA LoseInv ==
    ASSUME Inv, NEW m \in net, lose(m)
    PROVE  Inv'
<1>1. net' \subseteq net
  BY DEF lose
<1>2. UNCHANGED <<localOpened, outSeq, windowLo, unacked, peerGap, gapNacks, sent, base,
                  peerOpened, recvNext, recvOoo, deliverNext, deliverBuf, delivered,
                  ackOwed, ackArmed>>
  BY DEF lose, sendVars, recvVars, ackVars
<1>3. TypeOK'
  BY <1>2 DEF Inv, TypeOK
<1>4. ASSUME NEW r \in Peer
      PROVE  WindowInv(r)' /\ ReceiveInv(r, Other(r))' /\ AckInv(r, Other(r))'
  <2>1. WindowInv(r)'
    BY <1>2 DEF Inv, WindowInv
  <2>2. ReceiveInv(r, Other(r))'
    BY <1>2 DEF Inv, ReceiveInv, consumed
  <2>3. AckInv(r, Other(r))'
    BY <1>2 DEF Inv, AckInv, Received
  <2> QED
    BY <2>1, <2>2, <2>3
<1>5. NetInv'
  BY <1>1, <1>2 DEF Inv, NetInv, DataInv, AckMessageInv, consumed, Received
<1> QED
  BY <1>3, <1>4, <1>5 DEF Inv

-----------------------------------------------------------------------------
\* What a step of p's receive side must establish: its own invariant, and that
\* nothing received is forgotten.
Kept(p, N, K) ==
    /\ consumed(p)' \in Nat
    /\ N <= consumed(p)'
    /\ ReceiveInv(p, Other(p))'
    /\ \A j \in 0 .. K - 1 : Received(p, j) => Received(p, j)'

ReceiverTypes(p) ==
    /\ recvNext[p] \in SeqId
    /\ deliverNext[p] \in SeqId
    /\ recvOoo[p] \subseteq SeqId
    /\ delivered[p] \in Seq(Nat)
    /\ IsMap(deliverBuf[p], SeqId, Nat)

\* The receive side of the other end and both send sides are left alone.
LEMMA ReceiverStep ==
    ASSUME Inv, NEW p \in Peer, NEW N \in Nat, NEW K \in Nat,
           N = consumed(p), K = sent[Other(p)],
           Kept(p, N, K), ReceiverTypes(p)',
           UNCHANGED <<net, sendVars>>,
           peerOpened' \in [Peer -> BOOLEAN], ackOwed' \in [Peer -> BOOLEAN],
           ackArmed' \in [Peer -> BOOLEAN],
           \E a : recvNext' = [recvNext EXCEPT ![p] = a],
           \E a : recvOoo' = [recvOoo EXCEPT ![p] = a],
           \E a : deliverNext' = [deliverNext EXCEPT ![p] = a],
           DOMAIN deliverBuf' = Peer,
           \A r \in Peer : r # p => deliverBuf'[r] = deliverBuf[r],
           \E a : delivered' = [delivered EXCEPT ![p] = a]
    PROVE  Inv'
<1> DEFINE x == Other(p)
<1>1. UNCHANGED <<net, localOpened, outSeq, windowLo, unacked, peerGap, gapNacks, sent, base>>
  BY DEF sendVars
<1>2. ASSUME NEW r \in Peer, r # p
      PROVE  /\ recvNext'[r] = recvNext[r] /\ recvOoo'[r] = recvOoo[r]
             /\ deliverNext'[r] = deliverNext[r] /\ deliverBuf'[r] = deliverBuf[r]
             /\ delivered'[r] = delivered[r]
  BY <1>2 DEF Inv, TypeOK
<1>3. TypeOK'
  <2>1. \A r \in Peer : ReceiverTypes(r)'
    BY <1>2 DEF ReceiverTypes, Inv, TypeOK
  <2>2. /\ recvNext' \in [Peer -> SeqId] /\ recvOoo' \in [Peer -> SUBSET SeqId]
        /\ deliverNext' \in [Peer -> SeqId] /\ delivered' \in [Peer -> Seq(Nat)]
        /\ DOMAIN deliverBuf' = Peer
    BY <2>1 DEF ReceiverTypes, Inv, TypeOK
  <2>3. \A r \in Peer : IsMap(deliverBuf'[r], SeqId, Nat)
    BY <2>1 DEF ReceiverTypes
  <2> QED
    BY <1>1, <2>2, <2>3 DEF Inv, TypeOK
<1>4. ASSUME NEW r \in Peer PROVE WindowInv(r)'
  BY <1>1 DEF Inv, WindowInv
<1>5. ASSUME NEW r \in Peer PROVE ReceiveInv(r, Other(r))'
  <2>1. CASE r = p
    BY <2>1 DEF Kept
  <2>2. CASE r # p
    BY <1>1, <1>2, <2>2 DEF Inv, ReceiveInv, consumed
  <2> QED
    BY <2>1, <2>2
<1>6. /\ sent[x] \in Nat /\ base[x] \in Nat /\ x \in Peer
      /\ \A r \in Peer : consumed(r) \in Nat /\ sent[r] \in Nat
  BY Numbers, OtherIsPeer
<1>7. ASSUME NEW r \in Peer, r # p, NEW j PROVE Received(r, j)' = Received(r, j)
  BY <1>2, <1>7 DEF Received
<1>8. ASSUME NEW r \in Peer PROVE AckInv(r, Other(r))'
  <2>1. CASE r = x
    <3>1. Other(r) = p
      BY <2>1, OtherIsPeer
    <3> QED
      BY <1>1, <1>6, <2>1, <3>1 DEF Inv, AckInv, Kept
  <2>2. CASE r # x
    <3>1. Other(r) # p /\ Other(r) \in Peer
      BY <2>2, OtherIsPeer
    <3> QED
      BY <1>1, <1>7, <3>1 DEF Inv, AckInv
  <2> QED
    BY <2>1, <2>2
<1>9. NetInv'
  <2>1. ASSUME NEW m \in net, m.type = "data" PROVE DataInv(m, Other(m.to))'
    BY <1>1, <2>1 DEF Inv, NetInv, DataInv
  <2>2. ASSUME NEW m \in net, m.type = "ack" PROVE AckMessageInv(m, Other(m.to), m.to)'
    <3>1. m.to \in Peer /\ Other(m.to) \in Peer /\ AckMessageInv(m, Other(m.to), m.to)
      BY <2>2, OtherIsPeer DEF Inv, NetInv
    <3>2. CASE Other(m.to) = p
      <4>1. m.to = x
        BY <3>1, <3>2, OtherIsPeer
      <4>2. m.upto <= consumed(p)' /\ m.upto \in Nat
        BY <1>6, <3>1, <3>2 DEF AckMessageInv, Kept
      <4>3. ASSUME NEW b \in m.mask
            PROVE  m.upto + 1 + b < sent[x] /\ Received(p, m.upto + 1 + b)'
        <5>1. /\ b \in Nat /\ m.upto + 1 + b \in 0 .. K - 1
              /\ Received(p, m.upto + 1 + b)
          BY <1>6, <3>1, <3>2, <4>1, Bounds DEF AckMessageInv
        <5> QED
          BY <5>1, <1>6 DEF Kept
      <4> QED
        BY <1>1, <3>1, <3>2, <4>1, <4>2, <4>3 DEF AckMessageInv
    <3>3. CASE Other(m.to) # p
      <4>1. consumed(Other(m.to))' = consumed(Other(m.to))
        BY <1>2, <3>1, <3>3 DEF consumed
      <4> QED
        BY <1>1, <1>7, <3>1, <3>3, <4>1 DEF AckMessageInv
    <3> QED
      BY <3>2, <3>3
  <2> QED
    BY <1>1, <2>1, <2>2 DEF Inv, NetInv
<1> QED
  BY <1>3, <1>4, <1>5, <1>8, <1>9 DEF Inv

-----------------------------------------------------------------------------
(* Receiving a DATA frame.  The facts that the three cases share are listed *)
(* once: N frames consumed, K sent by the other end, the frame at i.        *)

Arrival(p, m, N, K, i) ==
    /\ N = consumed(p) /\ K = sent[Other(p)] /\ i = m.inner /\ i < K
    /\ N <= K /\ K <= N + MaxInflight /\ base[Other(p)] \in Nat
    /\ m.seq = IdOf(i)
    /\ ReceiveInv(p, Other(p))
    /\ ReceiverTypes(p)
    /\ recvNext \in [Peer -> SeqId] /\ deliverNext \in [Peer -> SeqId]
    /\ recvOoo \in [Peer -> SUBSET SeqId] /\ delivered \in [Peer -> Seq(Nat)]
    /\ DOMAIN deliverBuf = Peer

LEMMA ArrivalFacts ==
    ASSUME Inv, NEW p \in Peer, NEW m \in net, receiveData(p, m)
    PROVE  \E N, K, i \in Nat : Arrival(p, m, N, K, i) /\ N <= i + Half
<1> DEFINE x == Other(p)
<1>1. x \in Peer /\ m.to = p /\ m.type = "data"
  BY OtherIsPeer DEF receiveData
<1>2. DataInv(m, x) /\ ReceiveInv(p, x) /\ WindowInv(x)
  BY <1>1 DEF Inv, NetInv
<1>3. /\ sent[x] \in Nat /\ base[x] \in Nat /\ consumed(p) \in Nat /\ m.inner \in Nat
  BY <1>1, <1>2, Numbers DEF DataInv
<1>4. ReceiverTypes(p)
  BY DEF ReceiverTypes, Inv, TypeOK
<1>5. /\ consumed(p) <= sent[x] /\ sent[x] <= consumed(p) + MaxInflight
      /\ m.inner < sent[x] /\ m.seq = IdOf(m.inner)
  BY <1>2, <1>3, Bounds DEF DataInv, ReceiveInv, WindowInv
<1>6. consumed(p) <= m.inner + Half
  BY DEF receiveData, FreshData, consumed
<1>7. Arrival(p, m, consumed(p), sent[x], m.inner)
  BY <1>2, <1>3, <1>4, <1>5 DEF Arrival, Inv, TypeOK
<1> QED
  BY <1>3, <1>6, <1>7

LEMMA ArrivalNumbers ==
    ASSUME NEW p, NEW m, NEW N, NEW K, NEW i, Arrival(p, m, N, K, i)
    PROVE  /\ N <= K /\ K <= N + MaxInflight /\ i < K /\ m.seq = IdOf(i)
           /\ base[Other(p)] <= N /\ base[Other(p)] \in Nat
BY DEF Arrival, ReceiveInv

\* The ids compare as the positions do.
LEMMA ArrivalOrder ==
    ASSUME NEW p \in Peer, NEW m, NEW N \in Nat, NEW K \in Nat, NEW i \in Nat,
           Arrival(p, m, N, K, i), N <= i + Half
    PROVE  /\ recvNext[p] = IdOf(N) /\ deliverNext[p] = IdOf(N)
           /\ m.seq = IdOf(N) <=> i = N
           /\ SeqLt(IdOf(N), m.seq) <=> N < i
<1>1. recvNext[p] = IdOf(N) /\ deliverNext[p] = IdOf(N) /\ m.seq = IdOf(i)
  BY DEF Arrival, ReceiveInv
<1>2. N \in Int /\ i \in Int /\ i - N < Half /\ N - i <= Half
  BY Bounds DEF Arrival
<1>3. SeqLt(IdOf(N), IdOf(i)) <=> N < i
  BY <1>2, SeqLtIsOrder
<1>4. IdOf(N) = IdOf(i) => N = i
  BY <1>2, Bounds, IdOfInjective
<1> QED
  BY <1>1, <1>3, <1>4

\* Ids of two positions of the window, or just past it, tell them apart.
LEMMA NearIds ==
    ASSUME NEW N \in Nat, NEW K \in Nat, K <= N + MaxInflight,
           NEW j \in N .. K, NEW k \in N .. N + SeqSpace - 1, IdOf(j) = IdOf(k)
    PROVE  j = k
BY Bounds, IdOfInjective

\* A frame that is already behind: nothing moves.
LEMMA OldFrame ==
    ASSUME NEW p \in Peer, NEW m, NEW N \in Nat, NEW K \in Nat, NEW i \in Nat,
           Arrival(p, m, N, K, i), i < N,
           UNCHANGED <<recvNext, recvOoo, deliverNext, deliverBuf, delivered, sent, base>>
    PROVE  Kept(p, N, K) /\ ReceiverTypes(p)'
<1>1. consumed(p)' = consumed(p)
  BY DEF consumed
<1>2. ReceiveInv(p, Other(p))'
  BY <1>1 DEF Arrival, ReceiveInv
<1>3. ReceiverTypes(p)'
  BY DEF Arrival, ReceiverTypes
<1> QED
  BY <1>1, <1>2, <1>3 DEF Arrival, Kept, Received

\* A frame ahead of a hole is kept aside, under its own position.
LEMMA AheadFrame ==
    ASSUME NEW p \in Peer, NEW m, NEW N \in Nat, NEW K \in Nat, NEW i \in Nat,
           Arrival(p, m, N, K, i), N < i,
           recvOoo' = [recvOoo EXCEPT ![p] = @ \cup {m.seq}],
           deliverBuf' = [deliverBuf EXCEPT ![p] =
              [k \in DOMAIN deliverBuf[p] \cup {m.seq} |->
                  IF k \in DOMAIN deliverBuf[p] THEN deliverBuf[p][k] ELSE i]],
           UNCHANGED <<recvNext, deliverNext, delivered, sent, base>>
    PROVE  Kept(p, N, K) /\ ReceiverTypes(p)'
<1>1. consumed(p)' = N /\ sent' = sent /\ base' = base
  BY DEF consumed, Arrival
<1>2. /\ recvOoo'[p] = recvOoo[p] \cup {IdOf(i)} /\ IdOf(i) \in SeqId
      /\ deliverBuf'[p] = [k \in recvOoo[p] \cup {IdOf(i)} |->
                               IF k \in recvOoo[p] THEN deliverBuf[p][k] ELSE i]
      /\ i \in N + 1 .. K - 1
  BY IdOfType DEF Arrival, ReceiveInv
<1>3. ASSUME NEW s \in recvOoo'[p]
      PROVE  \E j \in N + 1 .. K - 1 : s = IdOf(j)
  BY <1>2 DEF Arrival, ReceiveInv
<1>4. ASSUME NEW j \in N + 1 .. K - 1, IdOf(j) \in recvOoo'[p]
      PROVE  deliverBuf'[p][IdOf(j)] = j
  <2>1. CASE IdOf(j) \in recvOoo[p]
    BY <1>2, <2>1 DEF Arrival, ReceiveInv
  <2>2. CASE IdOf(j) \notin recvOoo[p]
    <3>1. IdOf(j) = IdOf(i)
      BY <1>2, <1>4, <2>2
    <3>2. j = i
      <4>1. j \in N .. K /\ i \in N .. N + SeqSpace - 1 /\ K <= N + MaxInflight
        BY <1>2, Bounds, ArrivalNumbers
      <4> QED
        BY <3>1, <4>1, NearIds
    <3> QED
      BY <1>2, <2>2, <3>2
  <2> QED
    BY <2>1, <2>2
<1>5. ReceiveInv(p, Other(p))'
  <2>1. /\ base'[Other(p)] <= N /\ N <= K /\ sent'[Other(p)] = K
        /\ recvNext'[p] = IdOf(N) /\ deliverNext'[p] = IdOf(N)
        /\ \A j \in 1 .. N : delivered'[p][j] = j - 1
    BY <1>1 DEF Arrival, ReceiveInv
  <2>2. DOMAIN deliverBuf'[p] = recvOoo'[p]
    BY <1>2
  <2> QED
    BY <1>1, <1>3, <1>4, <2>1, <2>2 DEF ReceiveInv
<1>6. ReceiverTypes(p)'
  BY <1>2 DEF Arrival, ReceiverTypes, ReceiveInv, IsMap
<1>7. \A j \in 0 .. K - 1 : Received(p, j) => Received(p, j)'
  BY <1>2 DEF Received
<1> QED
  BY <1>1, <1>5, <1>6, <1>7 DEF Kept

\* The run that note_received walks over: positions N + 1 .. N + n, all sent.
LEMMA RunPositions ==
    ASSUME NEW p \in Peer, NEW m, NEW N \in Nat, NEW K \in Nat,
           Arrival(p, m, N, K, N), NEW n \in 0 .. SeqSpace - 1,
           IsRun(Plus(m.seq, 1), recvOoo[p], n)
    PROVE  /\ N + n + 1 <= K
           /\ \A j \in N + 1 .. N + n : IdOf(j) \in recvOoo[p]
           /\ IdOf(N + n + 1) \notin recvOoo[p]
<1>1. Plus(m.seq, 1) = IdOf(N + 1)
  <2>1. Plus(IdOf(N), 1) = IdOf(N + 1)
    BY PlusIdOf
  <2> QED
    BY <2>1, ArrivalNumbers
<1>2. n \in Nat /\ n < SeqSpace /\ N + 1 \in Int /\ N < K /\ K <= N + MaxInflight
  BY Bounds, ArrivalNumbers
<1>3. /\ \A k \in 0 .. n - 1 : IdOf(N + 1 + k) \in recvOoo[p]
      /\ IdOf(N + 1 + n) \notin recvOoo[p]
  <2>1. IsRun(IdOf(N + 1), recvOoo[p], n)
    BY <1>1
  <2> QED
    BY <1>2, <2>1, RunIdOf
<1>4. ASSUME NEW j \in N + 1 .. N + n PROVE IdOf(j) \in recvOoo[p] /\ j <= K - 1
  <2>1. IdOf(j) \in recvOoo[p]
    <3>1. j - N - 1 \in 0 .. n - 1 /\ N + 1 + (j - N - 1) = j
      BY <1>2
    <3> QED
      BY <1>3, <3>1
  <2>2. PICK l \in N + 1 .. K - 1 : IdOf(j) = IdOf(l)
    BY <2>1 DEF Arrival, ReceiveInv
  <2>3. l \in N .. K /\ j \in N .. N + SeqSpace - 1
    BY <1>2, Bounds
  <2>4. l = j
    BY <1>2, <2>2, <2>3, NearIds
  <2> QED
    BY <2>1, <2>4
<1>5. N + n + 1 <= K
  <2>1. CASE n = 0
    BY <1>2, <2>1
  <2>2. CASE n # 0
    <3>1. N + n \in N + 1 .. N + n
      BY <1>2, <2>2
    <3> QED
      BY <1>2, <1>4, <3>1
  <2> QED
    BY <2>1, <2>2
<1>6. N + 1 + n = N + n + 1
  BY <1>2
<1> QED
  BY <1>3, <1>4, <1>5, <1>6

\* The i-th payload that goes out when m closes the hole at N.
Handed(p, m, N, i) == IF i = 1 THEN N ELSE deliverBuf[p][Plus(m.seq, i - 1)]

\* The payloads behind the closed hole are the positions that follow it.
LEMMA RunPayloads ==
    ASSUME NEW p \in Peer, NEW m, NEW N \in Nat, NEW K \in Nat,
           Arrival(p, m, N, K, N), NEW n \in 0 .. SeqSpace - 1,
           IsRun(Plus(m.seq, 1), recvOoo[p], n), NEW i \in 1 .. n + 1
    PROVE  Handed(p, m, N, i) = N + i - 1
<1>1. n \in Nat /\ m.seq = IdOf(N) /\ N + n + 1 <= K
  BY Bounds, ArrivalNumbers, RunPositions
<1>2. CASE i = 1
  BY <1>2 DEF Handed
<1>3. CASE i # 1
  <2>1. Plus(m.seq, i - 1) = IdOf(N + i - 1)
    <3>1. Plus(IdOf(N), i - 1) = IdOf(N + (i - 1)) /\ N + (i - 1) = N + i - 1
      BY <1>1, PlusIdOf
    <3> QED
      BY <1>1, <3>1
  <2>2. N + i - 1 \in N + 1 .. N + n /\ N + i - 1 \in N + 1 .. K - 1
    BY <1>1, <1>3
  <2>3. IdOf(N + i - 1) \in recvOoo[p]
    BY <2>2, RunPositions
  <2> QED
    BY <1>3, <2>1, <2>2, <2>3 DEF Arrival, ReceiveInv, Handed
<1> QED
  BY <1>2, <1>3

\* Both loops stop at the same id: the first that has not arrived.
LEMMA RunUnique ==
    ASSUME NEW s \in SeqId, NEW H, NEW n \in Nat, NEW k \in Nat,
           IsRun(s, H, n), IsRun(s, H, k)
    PROVE  n = k
<1>1. CASE n < k
  <2>1. n \in 0 .. k - 1
    BY <1>1
  <2> QED
    BY <2>1 DEF IsRun
<1>2. CASE k < n
  <2>1. k \in 0 .. n - 1
    BY <1>2
  <2> QED
    BY <2>1 DEF IsRun
<1> QED
  BY <1>1, <1>2

\* A stream that holds its positions in order, extended by the next n + 1.
LEMMA Extended ==
    ASSUME NEW N \in Nat, NEW n \in Nat, NEW d \in Seq(Nat), Len(d) = N,
           \A j \in 1 .. N : d[j] = j - 1
    PROVE  LET e == d \o [i \in 1 .. n + 1 |-> N + i - 1]
           IN  /\ e \in Seq(Nat)
               /\ Len(e) = N + n + 1
               /\ \A j \in 1 .. N + n + 1 : e[j] = j - 1
<1> DEFINE tail == [i \in 1 .. n + 1 |-> N + i - 1]
<1>1. tail \in Seq(Nat) /\ Len(tail) = n + 1 /\ \A i \in 1 .. n + 1 : tail[i] = N + i - 1
  OBVIOUS
<1> HIDE DEF tail
<1>2. d \o tail \in Seq(Nat) /\ Len(d \o tail) = N + n + 1
  <2>1. d \o tail \in Seq(Nat) /\ Len(d \o tail) = Len(d) + Len(tail)
    BY <1>1, ConcatProperties
  <2> QED
    BY <1>1, <2>1
<1>3. ASSUME NEW j \in 1 .. N + n + 1 PROVE (d \o tail)[j] = j - 1
  <2>1. CASE j <= N
    BY <1>1, <2>1
  <2>2. CASE j > N
    <3>1. j - N \in 1 .. n + 1 /\ N + (j - N) - 1 = j - 1
      BY <2>2
    <3> QED
      BY <1>1, <2>2, <3>1
  <2>3. j <= N \/ j > N
    OBVIOUS
  <2> QED
    BY <2>1, <2>2, <2>3, Zenon
<1> QED
  BY <1>2, <1>3 DEF tail

LEMMA Apart ==
    ASSUME NEW N \in Nat, NEW n \in Nat, NEW K \in Nat, n < SeqSpace, K <= N + MaxInflight,
           NEW j \in 0 .. K - 1, j > N + n, NEW k \in N + 1 .. N + n
    PROVE  IdOf(k) # IdOf(j)
<1>1. j \in N .. K /\ k \in N .. N + SeqSpace - 1 /\ k # j
  BY Bounds
<1> QED
  BY <1>1, NearIds

\* The frame that closes the hole takes the run behind it along.
LEMMA NextFrame ==
    ASSUME NEW p \in Peer, NEW m, NEW N \in Nat, NEW K \in Nat,
           Arrival(p, m, N, K, N), NEW n \in 0 .. SeqSpace - 1,
           IsRun(Plus(m.seq, 1), recvOoo[p], n),
           recvNext' = [recvNext EXCEPT ![p] = Plus(m.seq, n + 1)],
           recvOoo' = [recvOoo EXCEPT ![p] = @ \ {Plus(m.seq, k) : k \in 1 .. n}],
           deliverNext' = [deliverNext EXCEPT ![p] = Plus(m.seq, n + 1)],
           delivered' = [delivered EXCEPT ![p] = @ \o
              [i \in 1 .. n + 1 |->
                  IF i = 1 THEN N ELSE deliverBuf[p][Plus(m.seq, i - 1)]]],
           deliverBuf' = [deliverBuf EXCEPT ![p] =
              [k \in DOMAIN deliverBuf[p] \ {Plus(m.seq, j) : j \in 1 .. n} |->
                  deliverBuf[p][k]]],
           UNCHANGED <<sent, base>>
    PROVE  Kept(p, N, K) /\ ReceiverTypes(p)'
<1> DEFINE gone == {IdOf(j) : j \in N + 1 .. N + n}
<1>1. /\ n \in Nat /\ n < SeqSpace /\ m.seq = IdOf(N) /\ N + n + 1 \in Int
      /\ K <= N + MaxInflight /\ base[Other(p)] <= N /\ base[Other(p)] \in Nat
  BY Bounds, ArrivalNumbers
<1>2. /\ N + n + 1 <= K
      /\ \A j \in N + 1 .. N + n : IdOf(j) \in recvOoo[p]
      /\ IdOf(N + n + 1) \notin recvOoo[p]
  BY RunPositions
<1>3. Plus(m.seq, n + 1) = IdOf(N + n + 1)
  <2>1. Plus(IdOf(N), n + 1) = IdOf(N + (n + 1))
    BY <1>1, PlusIdOf
  <2>2. N + (n + 1) = N + n + 1
    BY <1>1
  <2> QED
    BY <1>1, <2>1, <2>2
<1>4. {Plus(m.seq, k) : k \in 1 .. n} = gone
  <2>1. \A k \in 1 .. n : Plus(m.seq, k) = IdOf(N + k)
    BY <1>1, PlusIdOf
  <2>2. \A k \in 1 .. n : N + k \in N + 1 .. N + n
    BY <1>1
  <2>3. \A j \in N + 1 .. N + n : j - N \in 1 .. n /\ N + (j - N) = j
    BY <1>1
  <2> QED
    BY <2>1, <2>2, <2>3
<1>5. /\ recvNext'[p] = IdOf(N + n + 1) /\ deliverNext'[p] = IdOf(N + n + 1)
      /\ recvOoo'[p] = recvOoo[p] \ gone
      /\ deliverBuf'[p] = [k \in recvOoo[p] \ gone |-> deliverBuf[p][k]]
  BY <1>3, <1>4 DEF Arrival, ReceiveInv
<1>6. /\ delivered'[p] \in Seq(Nat)
      /\ consumed(p)' = N + n + 1
      /\ \A j \in 1 .. N + n + 1 : delivered'[p][j] = j - 1
  <2> DEFINE tail == [i \in 1 .. n + 1 |-> N + i - 1]
  <2>1. \A i \in 1 .. n + 1 : Handed(p, m, N, i) = N + i - 1
    BY RunPayloads
  <2>2. delivered'[p] = delivered[p] \o tail
    BY <2>1 DEF Arrival, Handed
  <2>3. /\ delivered[p] \in Seq(Nat) /\ Len(delivered[p]) = N
        /\ \A j \in 1 .. N : delivered[p][j] = j - 1
    BY DEF Arrival, ReceiverTypes, ReceiveInv, consumed
  <2>4. /\ delivered[p] \o tail \in Seq(Nat)
        /\ Len(delivered[p] \o tail) = N + n + 1
        /\ \A j \in 1 .. N + n + 1 : (delivered[p] \o tail)[j] = j - 1
    BY <1>1, <2>3, Extended
  <2> QED
    BY <2>2, <2>4 DEF consumed
<1>7. ASSUME NEW s \in recvOoo'[p]
      PROVE  \E j \in N + n + 2 .. K - 1 : s = IdOf(j)
  <2>1. PICK j \in N + 1 .. K - 1 : s = IdOf(j)
    BY <1>5, <1>7 DEF Arrival, ReceiveInv
  <2>2. j \notin N + 1 .. N + n /\ j # N + n + 1
    BY <1>2, <1>5, <1>7, <2>1
  <2> QED
    BY <1>1, <2>1, <2>2
<1>8. ReceiveInv(p, Other(p))'
  <2>1. /\ base'[Other(p)] <= N + n + 1 /\ N + n + 1 <= K /\ sent'[Other(p)] = K
    <3>1. base[Other(p)] <= N + n + 1
      BY <1>1
    <3> QED
      BY <1>2, <3>1 DEF Arrival
  <2>2. DOMAIN deliverBuf'[p] = recvOoo'[p]
    BY <1>5
  <2>3. ASSUME NEW j \in N + n + 2 .. K - 1, IdOf(j) \in recvOoo'[p]
        PROVE  deliverBuf'[p][IdOf(j)] = j
    <3>1. j \in N + 1 .. K - 1
      BY <1>1
    <3> QED
      BY <1>5, <2>3, <3>1 DEF Arrival, ReceiveInv
  <2>4. N + n + 1 + 1 = N + n + 2
    BY <1>1
  <2> DEFINE C == N + n + 1
  <2>5. /\ base'[Other(p)] <= C /\ C <= sent'[Other(p)]
        /\ recvNext'[p] = IdOf(C) /\ deliverNext'[p] = IdOf(C)
        /\ \A j \in 1 .. C : delivered'[p][j] = j - 1
        /\ \A s \in recvOoo'[p] : \E j \in C + 1 .. sent'[Other(p)] - 1 : s = IdOf(j)
        /\ \A j \in C + 1 .. sent'[Other(p)] - 1 :
              IdOf(j) \in recvOoo'[p] => deliverBuf'[p][IdOf(j)] = j
    BY <1>5, <1>6, <1>7, <2>1, <2>3, <2>4
  <2> QED
    BY <1>6, <2>2, <2>5 DEF ReceiveInv
<1>9. ReceiverTypes(p)'
  BY <1>1, <1>5, <1>6, IdOfType DEF Arrival, ReceiverTypes, ReceiveInv, IsMap
<1>10. ASSUME NEW j \in 0 .. K - 1, Received(p, j) PROVE Received(p, j)'
  <2>1. CASE j <= N + n
    BY <1>1, <1>6, <2>1 DEF Received, consumed
  <2>2. CASE j > N + n
    <3>1. IdOf(j) \in recvOoo[p]
      BY <1>1, <1>10, <2>2 DEF Received, Arrival, consumed
    <3>2. IdOf(j) \notin gone
      <4>1. ASSUME NEW k \in N + 1 .. N + n PROVE IdOf(k) # IdOf(j)
        BY <1>1, <2>2, Apart
      <4> QED
        BY <4>1
    <3> QED
      BY <1>5, <3>1, <3>2 DEF Received
  <2> QED
    BY <1>1, <2>1, <2>2
<1> QED
  BY <1>1, <1>6, <1>8, <1>9, <1>10 DEF Kept

LEMMA ReceiveDataInv ==
    ASSUME Inv, NEW p \in Peer, NEW m \in net, receiveData(p, m)
    PROVE  Inv'
<1>1. PICK N \in Nat, K \in Nat, i \in Nat : Arrival(p, m, N, K, i) /\ N <= i + Half
  BY ArrivalFacts
<1>2. /\ recvNext[p] = IdOf(N) /\ deliverNext[p] = IdOf(N)
      /\ m.seq = IdOf(N) <=> i = N
      /\ SeqLt(IdOf(N), m.seq) <=> N < i
  BY <1>1, ArrivalOrder
<1>3. /\ note_received(p, m.seq) /\ deliver(p, m.seq, i)
      /\ UNCHANGED <<net, sendVars>>
      /\ DOMAIN deliverBuf[p] = recvOoo[p]
      /\ UNCHANGED <<sent, base>>
  BY <1>1 DEF receiveData, Arrival, ReceiveInv, sendVars
<1>4. Kept(p, N, K) /\ ReceiverTypes(p)'
  <2>1. CASE i < N
    <3>1. m.seq # recvNext[p] /\ ~SeqLt(recvNext[p], m.seq)
      BY <1>2, <2>1
    <3>2. UNCHANGED <<recvNext, recvOoo>>
      BY <1>3, <3>1 DEF note_received
    <3>3. UNCHANGED <<deliverNext, deliverBuf, delivered>>
      BY <1>2, <1>3, <3>1 DEF deliver
    <3> QED
      BY <1>1, <1>3, <2>1, <3>2, <3>3, OldFrame
  <2>2. CASE N < i
    <3>1. m.seq # recvNext[p] /\ SeqLt(recvNext[p], m.seq)
      BY <1>2, <2>2
    <3>2. recvOoo' = [recvOoo EXCEPT ![p] = @ \cup {m.seq}] /\ recvNext' = recvNext
      BY <1>3, <3>1 DEF note_received
    <3>3. /\ deliverBuf' = [deliverBuf EXCEPT ![p] =
               [k \in DOMAIN deliverBuf[p] \cup {m.seq} |->
                   IF k \in DOMAIN deliverBuf[p] THEN deliverBuf[p][k] ELSE i]]
          /\ UNCHANGED <<deliverNext, delivered>>
      BY <1>2, <1>3, <3>1 DEF deliver
    <3> QED
      BY <1>1, <1>3, <2>2, <3>2, <3>3, AheadFrame
  <2>3. CASE i = N
    <3>1. m.seq = recvNext[p] /\ m.seq = deliverNext[p]
      BY <1>2, <2>3
    <3>2. ~SeqLt(recvNext[p], m.seq) /\ ~SeqLt(deliverNext[p], m.seq)
      BY <1>2, <2>3
    <3>3. PICK n \in 0 .. SeqSpace - 1 :
             /\ IsRun(Plus(m.seq, 1), recvOoo[p], n)
             /\ recvNext' = [recvNext EXCEPT ![p] = Plus(m.seq, n + 1)]
             /\ recvOoo' = [recvOoo EXCEPT ![p] = @ \ {Plus(m.seq, k) : k \in 1 .. n}]
      BY <1>3, <3>1, <3>2 DEF note_received
    <3>4. PICK l \in 0 .. SeqSpace - 1 :
             /\ IsRun(Plus(m.seq, 1), DOMAIN deliverBuf[p], l)
             /\ deliverNext' = [deliverNext EXCEPT ![p] = Plus(m.seq, l + 1)]
             /\ delivered' = [delivered EXCEPT ![p] = @ \o
                   [t \in 1 .. l + 1 |->
                       IF t = 1 THEN i ELSE deliverBuf[p][Plus(m.seq, t - 1)]]]
             /\ deliverBuf' = [deliverBuf EXCEPT ![p] =
                   [k \in DOMAIN deliverBuf[p] \ {Plus(m.seq, j) : j \in 1 .. l} |->
                       deliverBuf[p][k]]]
      BY <1>3, <3>1, <3>2 DEF deliver
    <3>5. n = l
      <4>1. Plus(m.seq, 1) \in SeqId /\ n \in Nat /\ l \in Nat
        <5>1. m.seq \in Int
          BY <1>2, <2>3, IdOfType, Bounds DEF SeqId
        <5> QED
          BY <5>1, PlusType, Bounds
      <4> QED
        BY <1>3, <3>3, <3>4, <4>1, RunUnique
    <3>6. Arrival(p, m, N, K, N)
      BY <1>1, <2>3
    <3> QED
      BY <1>3, <2>3, <3>3, <3>4, <3>5, <3>6, NextFrame
  <2> QED
    BY <2>1, <2>2, <2>3
<1>5. N = consumed(p) /\ K = sent[Other(p)]
  BY <1>1 DEF Arrival
<1>6. /\ peerOpened' \in [Peer -> BOOLEAN] /\ ackOwed' \in [Peer -> BOOLEAN]
      /\ ackArmed' \in [Peer -> BOOLEAN]
  <2>1. m.init \in BOOLEAN
    BY OtherIsPeer DEF receiveData, Inv, NetInv, DataInv
  <2> QED
    BY <2>1 DEF receiveData, Inv, TypeOK
<1>7. /\ \E a : recvNext' = [recvNext EXCEPT ![p] = a]
      /\ \E a : recvOoo' = [recvOoo EXCEPT ![p] = a]
  <2>1. recvNext = [recvNext EXCEPT ![p] = recvNext[p]] /\ recvOoo = [recvOoo EXCEPT ![p] = recvOoo[p]]
    BY DEF Inv, TypeOK
  <2> QED
    BY <1>3, <2>1 DEF note_received
<1>8. /\ \E a : deliverNext' = [deliverNext EXCEPT ![p] = a]
      /\ DOMAIN deliverBuf' = Peer
      /\ \A r \in Peer : r # p => deliverBuf'[r] = deliverBuf[r]
      /\ \E a : delivered' = [delivered EXCEPT ![p] = a]
  <2>1. /\ deliverNext = [deliverNext EXCEPT ![p] = deliverNext[p]]
        /\ delivered = [delivered EXCEPT ![p] = delivered[p]]
    BY DEF Inv, TypeOK
  <2>2. DOMAIN deliverBuf = Peer
    BY DEF Inv, TypeOK
  <2>3. /\ DOMAIN deliverBuf' = Peer
        /\ \A r \in Peer : r # p => deliverBuf'[r] = deliverBuf[r]
    BY <1>3, <2>2 DEF deliver
  <2> QED
    BY <1>3, <2>1, <2>3 DEF deliver
<1> QED
  BY <1>3, <1>4, <1>5, <1>6, <1>7, <1>8, ReceiverStep

-----------------------------------------------------------------------------
\* The mask position of an id says how far past the peer's hole the frame is.
LEMMA MaskBitIs ==
    ASSUME NEW N \in Nat, NEW i \in Nat, N < i, i - N - 1 < SeqSpace
    PROVE  MaskBit(IdOf(N), IdOf(i)) = i - N - 1
<1>1. Plus(IdOf(N), 1) = IdOf(N + 1)
  BY PlusIdOf
<1>2. i - N - 1 \in SeqId /\ i - (N + 1) = i - N - 1
  BY Bounds DEF SeqId
<1>3. Minus(IdOf(i), IdOf(N + 1)) = i - N - 1
  BY <1>2, MinusIdOf
<1> QED
  BY <1>1, <1>3 DEF MaskBit, MASK_ORIGIN_OFFSET

\* The hole itself has the last position of a whole turn, beyond every mask.
LEMMA HoleHasNoMaskBit ==
    ASSUME NEW N \in Nat
    PROVE  MaskBit(IdOf(N), IdOf(N)) = SeqSpace - 1
<1>1. Plus(IdOf(N), 1) = IdOf(N + 1)
  BY PlusIdOf
<1>2. SeqSpace - 1 \in SeqId /\ N - (N + 1) = (SeqSpace - 1) - SeqSpace
  BY Bounds DEF SeqId
<1>3. Minus(IdOf(N), IdOf(N + 1)) = SeqSpace - 1
  BY <1>2, MinusIdOf
<1> QED
  BY <1>1, <1>3 DEF MaskBit, MASK_ORIGIN_OFFSET

\* What one end has in its window and the other end has consumed.
LEMMA Ends ==
    ASSUME Inv, NEW p \in Peer
    PROVE  LET q == Other(p)
           IN  /\ q \in Peer /\ q # p /\ Other(q) = p
               /\ base[p] \in Nat /\ sent[p] \in Nat /\ consumed(q) \in Nat
               /\ base[p] <= consumed(q) /\ consumed(q) <= sent[p]
               /\ sent[p] <= base[p] + MaxInflight
               /\ WindowInv(p) /\ ReceiveInv(q, p) /\ AckInv(p, q)
BY Numbers, OtherIsPeer DEF Inv, ReceiveInv, WindowInv

\* The frame the receiver waits for is not among those it has received.
LEMMA HoleNotReceived ==
    ASSUME Inv, NEW p \in Peer
    PROVE  ~Received(Other(p), consumed(Other(p)))
<1> DEFINE N == consumed(Other(p))
<1>1. /\ N \in Nat /\ sent[p] \in Nat /\ sent[p] <= N + MaxInflight
      /\ ReceiveInv(Other(p), p)
  BY Ends, Bounds
<1>2. ASSUME NEW i \in N + 1 .. sent[p] - 1 PROVE IdOf(i) # IdOf(N)
  <2>1. i \in Int /\ i - N < SeqSpace /\ N - i < SeqSpace /\ i # N
    BY <1>1, Bounds
  <2> QED
    BY <1>1, <2>1, IdOfInjective
<1>3. IdOf(N) \notin recvOoo[Other(p)]
  BY <1>1, <1>2 DEF ReceiveInv
<1> QED
  BY <1>1, <1>3 DEF Received, consumed

\* A bulk ack names only frames that did arrive.
LEMMA ArrivedIsReceived ==
    ASSUME Inv, NEW p \in Peer, NEW m \in net, on_ack(p, m),
           NEW i \in base[p] .. sent[p] - 1, arrived(m, IdOf(i))
    PROVE  Received(Other(p), i)
<1> DEFINE q == Other(p)
<1>1. AckMessageInv(m, q, p) /\ sent[p] <= m.upto + Half
  BY DEF on_ack, FreshAck, Inv, NetInv
<1>2. PICK u \in Nat : /\ u = m.upto /\ u <= consumed(q) /\ m.ackId = IdOf(u)
                       /\ sent[p] <= u + Half
                       /\ m.mask \subseteq 0 .. MaskBits - 1
                       /\ \A b \in m.mask : /\ u + 1 + b < sent[p]
                                            /\ Received(q, u + 1 + b)
  BY <1>1 DEF AckMessageInv
<1>3. /\ i \in Nat /\ consumed(q) \in Nat /\ i < sent[p] /\ sent[p] \in Nat
      /\ u <= i + MaxInflight
  BY <1>2, Ends, Bounds
<1>4. CASE i < u
  BY <1>2, <1>3, <1>4 DEF Received, consumed
<1>5. CASE ~(i < u)
  <2>1. ~SeqLt(IdOf(i), IdOf(u))
    <3>1. u - i < Half /\ i - u <= Half
      BY <1>2, <1>3, Bounds
    <3> QED
      BY <1>3, <1>5, <3>1, SeqLtIsOrder
  <2>2. MaskBit(IdOf(u), IdOf(i)) \in m.mask
    BY <1>2, <2>1 DEF arrived
  <2>3. i # u
    BY <1>2, <2>2, HoleHasNoMaskBit, Bounds
  <2>4. u < i /\ i - u - 1 < SeqSpace /\ u + 1 + (i - u - 1) = i
    BY <1>2, <1>3, <1>5, <2>3, Bounds
  <2>5. MaskBit(IdOf(u), IdOf(i)) = i - u - 1
    BY <1>3, <2>4, MaskBitIs
  <2> QED
    BY <1>2, <2>2, <2>4, <2>5
<1> QED
  BY <1>4, <1>5

\* The window as on_ack leaves it before the base moves.
Marked(p, m) == [s \in DOMAIN unacked[p] |->
                    [unacked[p][s] EXCEPT !.acked = @ \/ arrived(m, s)]]

\* The base moves over frames that were consumed, and over nothing else.
LEMMA SlideFacts ==
    ASSUME Inv, NEW p \in Peer, NEW m \in net, on_ack(p, m),
           NEW n \in 0 .. MaxInflight,
           IsRun(windowLo[p], {s \in DOMAIN Marked(p, m) : Marked(p, m)[s].acked}, n)
    PROVE  base[p] + n <= consumed(Other(p))
<1> DEFINE q == Other(p)
           B == base[p]
           N == consumed(q)
           H == {s \in DOMAIN Marked(p, m) : Marked(p, m)[s].acked}
<1>1. /\ B \in Nat /\ N \in Nat /\ n \in Nat /\ n <= MaxInflight /\ sent[p] \in Nat
      /\ B <= N /\ sent[p] <= B + MaxInflight
  BY Ends, Bounds
<1>2. windowLo[p] = IdOf(B) /\ DOMAIN unacked[p] = {IdOf(i) : i \in B .. sent[p] - 1}
  BY DEF Inv, WindowInv
<1>3. ASSUME NEW i \in B .. sent[p] - 1, IdOf(i) \in H
      PROVE  Received(q, i)
  <2>1. unacked[p][IdOf(i)].acked \/ arrived(m, IdOf(i))
    <3>1. unacked[p][IdOf(i)] \in Entry
      BY <1>2 DEF Inv, TypeOK, IsMap
    <3> QED
      BY <1>3, <3>1 DEF Marked, Entry
  <2> QED
    BY <2>1, Ends, ArrivedIsReceived DEF AckInv
<1>4. ASSUME NEW k \in 0 .. n - 1 PROVE Received(q, B + k)
  <2>1. IdOf(B + k) \in H
    BY <1>1, <1>2, RunIdOf
  <2>2. PICK i \in B .. sent[p] - 1 : IdOf(B + k) = IdOf(i)
    BY <1>2, <2>1 DEF Marked
  <2>3. B + k = i
    <3>1. B + k \in Int /\ i \in Int /\ i - (B + k) < SeqSpace /\ (B + k) - i < SeqSpace
      BY <1>1, Bounds
    <3> QED
      BY <2>2, <3>1, IdOfInjective
  <2> QED
    BY <1>3, <2>1, <2>2, <2>3
<1>5. ASSUME B + n > N PROVE FALSE
  <2>1. N - B \in 0 .. n - 1 /\ B + (N - B) = N
    BY <1>1, <1>5
  <2>2. Received(q, N)
    BY <1>4, <2>1
  <2> QED
    BY <2>2, HoleNotReceived
<1> QED
  BY <1>1, <1>5

\* The window after the base moved on by n.
LEMMA SlidWindow ==
    ASSUME Inv, NEW p \in Peer, NEW m \in net, on_ack(p, m)
    PROVE  \E n \in Nat :
              /\ base' = [base EXCEPT ![p] = base[p] + n]
              /\ windowLo' = [windowLo EXCEPT ![p] = IdOf(base[p] + n)]
              /\ base[p] + n <= consumed(Other(p))
              /\ DOMAIN unacked' = Peer
              /\ \A r \in Peer : r # p => unacked'[r] = unacked[r]
              /\ DOMAIN unacked'[p] = {IdOf(i) : i \in base[p] + n .. sent[p] - 1}
              /\ \A s \in DOMAIN unacked'[p] : /\ s \in DOMAIN unacked[p]
                                               /\ unacked'[p][s] = Marked(p, m)[s]
<1>1. slide(p, Marked(p, m))
  BY DEF on_ack, Marked
<1>2. PICK n \in 0 .. MaxInflight :
         /\ IsRun(windowLo[p], {s \in DOMAIN Marked(p, m) : Marked(p, m)[s].acked}, n)
         /\ windowLo' = [windowLo EXCEPT ![p] = Plus(@, n)]
         /\ base' = [base EXCEPT ![p] = @ + n]
         /\ unacked' = [unacked EXCEPT ![p] =
               [s \in DOMAIN Marked(p, m) \ {Plus(windowLo[p], k) : k \in 0 .. n - 1} |->
                   Marked(p, m)[s]]]
  BY <1>1 DEF slide
<1>3. /\ base[p] \in Nat /\ sent[p] \in Nat /\ n \in Nat /\ n <= MaxInflight
      /\ sent[p] <= base[p] + MaxInflight
      /\ windowLo[p] = IdOf(base[p])
      /\ DOMAIN unacked[p] = {IdOf(i) : i \in base[p] .. sent[p] - 1}
      /\ DOMAIN unacked = Peer /\ windowLo \in [Peer -> SeqId] /\ base \in [Peer -> Nat]
  BY <1>2, Numbers, Bounds DEF Inv, TypeOK, WindowInv
<1>4. base[p] + n <= consumed(Other(p))
  BY <1>2, SlideFacts
<1>5. Plus(windowLo[p], n) = IdOf(base[p] + n)
  BY <1>3, PlusIdOf
<1>6. {Plus(windowLo[p], k) : k \in 0 .. n - 1} = {IdOf(i) : i \in base[p] .. base[p] + n - 1}
  <2>1. \A k \in 0 .. n - 1 : /\ Plus(windowLo[p], k) = IdOf(base[p] + k)
                              /\ base[p] + k \in base[p] .. base[p] + n - 1
    BY <1>3, PlusIdOf
  <2>2. \A i \in base[p] .. base[p] + n - 1 : i - base[p] \in 0 .. n - 1
                                              /\ base[p] + (i - base[p]) = i
    BY <1>3
  <2> QED
    BY <2>1, <2>2
<1>7. DOMAIN unacked'[p] = DOMAIN unacked[p] \ {Plus(windowLo[p], k) : k \in 0 .. n - 1}
  BY <1>2, <1>3 DEF Marked
<1>8. DOMAIN unacked'[p] = {IdOf(i) : i \in base[p] + n .. sent[p] - 1}
  <2>1. ASSUME NEW i \in base[p] + n .. sent[p] - 1, NEW j \in base[p] .. base[p] + n - 1
        PROVE  IdOf(i) # IdOf(j)
    <3>1. i \in Int /\ j \in Int /\ i # j /\ i - j < SeqSpace /\ j - i < SeqSpace
      BY <1>3, Bounds
    <3> QED
      BY <3>1, IdOfInjective
  <2>2. ASSUME NEW i \in base[p] .. sent[p] - 1
        PROVE  i \in base[p] .. base[p] + n - 1 \/ i \in base[p] + n .. sent[p] - 1
    BY <1>3
  <2>3. \A i \in base[p] + n .. sent[p] - 1 : i \in base[p] .. sent[p] - 1
    BY <1>3
  <2> QED
    BY <1>3, <1>6, <1>7, <2>1, <2>2, <2>3
<1>9. /\ DOMAIN unacked' = Peer
      /\ \A r \in Peer : r # p => unacked'[r] = unacked[r]
      /\ \A s \in DOMAIN unacked'[p] : s \in DOMAIN unacked[p]
                                       /\ unacked'[p][s] = Marked(p, m)[s]
  BY <1>2, <1>3, <1>7
<1>10. /\ base' = [base EXCEPT ![p] = base[p] + n]
       /\ windowLo' = [windowLo EXCEPT ![p] = IdOf(base[p] + n)]
  BY <1>2, <1>5
<1> QED
  BY <1>3, <1>4, <1>8, <1>9, <1>10

\* Nothing that the messages speak of moves.
LEMMA SameNet ==
    ASSUME NetInv, net' = net, UNCHANGED <<sent, delivered, recvOoo>>
    PROVE  NetInv'
BY DEF NetInv, DataInv, AckMessageInv, consumed, Received

LEMMA OnAckInv ==
    ASSUME Inv, NEW p \in Peer, NEW m \in net, on_ack(p, m)
    PROVE  Inv'
<1> DEFINE q == Other(p)
<1>1. PICK n \in Nat :
              /\ base' = [base EXCEPT ![p] = base[p] + n]
              /\ windowLo' = [windowLo EXCEPT ![p] = IdOf(base[p] + n)]
              /\ base[p] + n <= consumed(Other(p))
              /\ DOMAIN unacked' = Peer
              /\ \A r \in Peer : r # p => unacked'[r] = unacked[r]
              /\ DOMAIN unacked'[p] = {IdOf(i) : i \in base[p] + n .. sent[p] - 1}
              /\ \A s \in DOMAIN unacked'[p] : /\ s \in DOMAIN unacked[p]
                                               /\ unacked'[p][s] = Marked(p, m)[s]
  BY SlidWindow
<1>2. UNCHANGED <<net, localOpened, outSeq, sent, peerOpened, recvNext, recvOoo,
                  deliverNext, deliverBuf, delivered, ackOwed, ackArmed>>
  BY DEF on_ack, recvVars, ackVars
<1>3. /\ base[p] \in Nat /\ sent[p] \in Nat /\ consumed(q) \in Nat
      /\ consumed(q) <= sent[p] /\ sent[p] <= base[p] + MaxInflight
      /\ base \in [Peer -> Nat] /\ windowLo \in [Peer -> SeqId]
      /\ DOMAIN unacked[p] = {IdOf(i) : i \in base[p] .. sent[p] - 1}
  BY Ends DEF Inv, TypeOK, WindowInv
<1>4. \A r : consumed(r)' = consumed(r)
  BY <1>2 DEF consumed
<1>5. \A r, i : Received(r, i)' = Received(r, i)
  BY <1>2 DEF Received
<1>6. ASSUME NEW s \in DOMAIN unacked[p]
      PROVE  /\ Marked(p, m)[s] \in Entry
             /\ Marked(p, m)[s].inner = unacked[p][s].inner
             /\ Marked(p, m)[s].init = unacked[p][s].init
             /\ Marked(p, m)[s].acked => unacked[p][s].acked \/ arrived(m, s)
  <2>1. unacked[p][s] \in Entry
    BY DEF Inv, TypeOK, IsMap
  <2>2. arrived(m, s) \in BOOLEAN
    BY DEF arrived, SeqLt
  <2> QED
    BY <2>1, <2>2 DEF Marked, Entry
<1>7. \A i \in base[p] + n .. sent[p] - 1 : i \in base[p] .. sent[p] - 1
  BY <1>3
<1>8. TypeOK'
  <2>1. /\ peerGap' \in [Peer -> SeqId \cup {NoGap}]
        /\ gapNacks' \in [Peer -> 0 .. NackThreshold]
    <3>1. m.ackId \in SeqId
      BY IdOfType DEF on_ack, Inv, NetInv, AckMessageInv
    <3>2. /\ peerGap \in [Peer -> SeqId \cup {NoGap}] /\ NackThreshold \in Nat \ {0}
          /\ gapNacks \in [Peer -> 0 .. NackThreshold]
          /\ countNack(p, m, unacked'[p])
      BY LimitAssumption DEF on_ack, Inv, TypeOK
    <3>3. \E x \in SeqId \cup {NoGap} : peerGap' = [peerGap EXCEPT ![p] = x]
      BY <3>1, <3>2 DEF countNack
    <3>4. gapNacks[p] \in 0 .. NackThreshold
      BY <3>2
    <3>5. \E x \in 0 .. NackThreshold : gapNacks' = [gapNacks EXCEPT ![p] = x]
      <4>1. \E x : /\ gapNacks' = [gapNacks EXCEPT ![p] = x]
                   /\ x \in {0, 1, gapNacks[p]} \/ (gapNacks[p] < NackThreshold /\ x = gapNacks[p] + 1)
        BY <3>2 DEF countNack
      <4>2. ASSUME NEW g \in 0 .. NackThreshold, NEW x,
                   x \in {0, 1, g} \/ (g < NackThreshold /\ x = g + 1)
            PROVE  x \in 0 .. NackThreshold
        BY <4>2, LimitAssumption
      <4> QED
        BY <3>4, <4>1, <4>2
    <3> QED
      BY <3>2, <3>3, <3>5
  <2>2. base' \in [Peer -> Nat] /\ windowLo' \in [Peer -> SeqId]
    BY <1>1, <1>3, IdOfType
  <2>3. ASSUME NEW r \in Peer PROVE IsMap(unacked'[r], SeqId, Entry)
    <3>1. CASE r = p
      <4>1. unacked'[p] = [s \in DOMAIN unacked'[p] |-> unacked'[p][s]]
        BY <1>3 DEF on_ack, slide, Inv, TypeOK
      <4> QED
        BY <1>1, <1>6, <3>1, <4>1 DEF IsMap, Inv, TypeOK
    <3>2. CASE r # p
      BY <1>1, <3>2 DEF Inv, TypeOK
    <3> QED
      BY <3>1, <3>2
  <2> QED
    BY <1>1, <1>2, <2>1, <2>2, <2>3 DEF Inv, TypeOK
<1>9. ASSUME NEW r \in Peer PROVE WindowInv(r)'
  <2>1. CASE r = p
    <3>1. /\ base'[p] = base[p] + n /\ sent'[p] = sent[p] /\ windowLo'[p] = IdOf(base[p] + n)
          /\ base'[p] <= sent'[p] /\ sent'[p] <= base'[p] + MaxInflight
      BY <1>1, <1>2, <1>3, Bounds
    <3>2. \A i \in base[p] + n .. sent[p] - 1 :
             unacked'[p][IdOf(i)].inner = i /\ unacked'[p][IdOf(i)].init = (i = 0)
      BY <1>1, <1>6, <1>7 DEF Inv, WindowInv
    <3> QED
      BY <1>1, <1>2, <2>1, <3>1, <3>2 DEF Inv, WindowInv
  <2>2. CASE r # p
    <3>1. base'[r] = base[r] /\ windowLo'[r] = windowLo[r] /\ unacked'[r] = unacked[r]
      BY <1>1, <1>3, <2>2
    <3> QED
      BY <1>2, <3>1 DEF Inv, WindowInv
  <2> QED
    BY <2>1, <2>2
<1>10. ASSUME NEW r \in Peer PROVE ReceiveInv(r, Other(r))'
  <2>1. CASE Other(r) = p
    <3>1. r = q
      BY <2>1, OtherIsPeer
    <3>2. base'[p] <= consumed(r)
      BY <1>1, <1>3, <3>1
    <3> QED
      BY <1>2, <1>4, <2>1, <3>2 DEF Inv, ReceiveInv
  <2>2. CASE Other(r) # p
    <3>1. base'[Other(r)] = base[Other(r)]
      BY <1>1, <1>3, <2>2, OtherIsPeer
    <3> QED
      BY <1>2, <1>4, <3>1 DEF Inv, ReceiveInv
  <2> QED
    BY <2>1, <2>2
<1>11. ASSUME NEW r \in Peer PROVE AckInv(r, Other(r))'
  <2>1. CASE r = p
    <3>1. ASSUME NEW i \in base[p] + n .. sent[p] - 1, unacked'[p][IdOf(i)].acked
          PROVE  Received(q, i)
      <4>1. unacked[p][IdOf(i)].acked \/ arrived(m, IdOf(i))
        BY <1>1, <1>6, <3>1
      <4> QED
        BY <1>7, <4>1, ArrivedIsReceived DEF Inv, AckInv
    <3>2. base'[p] = base[p] + n /\ sent'[p] = sent[p]
      BY <1>1, <1>2, <1>3
    <3> QED
      BY <1>5, <2>1, <3>1, <3>2 DEF AckInv
  <2>2. CASE r # p
    <3>1. base'[r] = base[r] /\ unacked'[r] = unacked[r]
      BY <1>1, <1>3, <2>2
    <3> QED
      BY <1>2, <1>5, <3>1 DEF Inv, AckInv
  <2> QED
    BY <2>1, <2>2
<1>12. NetInv'
  BY <1>2, SameNet DEF Inv
<1> QED
  BY <1>8, <1>9, <1>10, <1>11, <1>12 DEF Inv

-----------------------------------------------------------------------------
LEMMA PollInv ==
    ASSUME Inv, NEW p \in Peer, NEW due \in SUBSET Outstanding(p), NEW elapsed \in BOOLEAN,
           poll(p, due, elapsed)
    PROVE  Inv'
<1> DEFINE q == Other(p)
           again == due_retransmits(p, due)
           N == consumed(p)
           ackNow == elapsed /\ ackArmed[p] /\ (ackOwed[p] \/ recvOoo[p] # {})
<1>1. UNCHANGED <<localOpened, outSeq, windowLo, peerGap, sent, base, peerOpened, recvNext,
                  recvOoo, deliverNext, deliverBuf, delivered>>
  BY DEF poll, recvVars
<1>2. again \subseteq DOMAIN unacked[p] /\ again \in SUBSET SeqId
  BY DEF due_retransmits, Outstanding, Inv, TypeOK, IsMap
<1>3. /\ DOMAIN unacked' = Peer
      /\ \A r \in Peer : r # p => unacked'[r] = unacked[r]
      /\ unacked'[p] = [s \in DOMAIN unacked[p] |->
                           [unacked[p][s] EXCEPT !.resent = @ \/ s \in again]]
  BY DEF poll, Inv, TypeOK
<1>4. ASSUME NEW s \in DOMAIN unacked[p]
      PROVE  /\ unacked'[p][s] \in Entry
             /\ unacked'[p][s].inner = unacked[p][s].inner
             /\ unacked'[p][s].init = unacked[p][s].init
             /\ unacked'[p][s].acked = unacked[p][s].acked
  <2>1. unacked[p][s] \in Entry
    BY DEF Inv, TypeOK, IsMap
  <2> QED
    BY <1>3, <2>1 DEF Entry
<1>5. \A r : consumed(r)' = consumed(r)
  BY <1>1 DEF consumed
<1>6. \A r, i : Received(r, i)' = Received(r, i)
  BY <1>1 DEF Received
<1>7. TypeOK'
  <2>1. /\ gapNacks' \in [Peer -> 0 .. NackThreshold]
        /\ ackOwed' \in [Peer -> BOOLEAN] /\ ackArmed' \in [Peer -> BOOLEAN]
    <3>1. /\ gapNacks \in [Peer -> 0 .. NackThreshold] /\ NackThreshold \in Nat \ {0}
          /\ ackOwed \in [Peer -> BOOLEAN] /\ ackArmed \in [Peer -> BOOLEAN]
      BY LimitAssumption DEF Inv, TypeOK
    <3>2. \E x \in {0, gapNacks[p]} : gapNacks' = [gapNacks EXCEPT ![p] = x]
      BY DEF poll
    <3>3. gapNacks' \in [Peer -> 0 .. NackThreshold]
      BY <3>1, <3>2
    <3>4. \E x \in BOOLEAN : ackOwed' = [ackOwed EXCEPT ![p] = x]
      BY <3>1 DEF poll
    <3>5. \E x \in BOOLEAN : ackArmed' = [ackArmed EXCEPT ![p] = x]
      <4>1. (recvOoo[p] # {}) \in BOOLEAN /\ ackArmed[p] \in BOOLEAN
        BY <3>1
      <4> QED
        BY <4>1 DEF poll
    <3> QED
      BY <3>1, <3>3, <3>4, <3>5
  <2>2. ASSUME NEW r \in Peer PROVE IsMap(unacked'[r], SeqId, Entry)
    BY <1>3, <1>4 DEF IsMap, Inv, TypeOK
  <2> QED
    BY <1>1, <1>3, <2>1, <2>2 DEF Inv, TypeOK
<1>8. ASSUME NEW r \in Peer PROVE WindowInv(r)'
  <2>1. WindowInv(r) /\ DOMAIN unacked'[r] = DOMAIN unacked[r]
    BY <1>3 DEF Inv
  <2>2. ASSUME NEW i \in base[r] .. sent[r] - 1
        PROVE  unacked'[r][IdOf(i)].inner = i /\ unacked'[r][IdOf(i)].init = (i = 0)
    <3>1. /\ IdOf(i) \in DOMAIN unacked[r] /\ unacked[r][IdOf(i)].inner = i
          /\ unacked[r][IdOf(i)].init = (i = 0)
      BY <2>1 DEF WindowInv
    <3>2. CASE r = p
      BY <1>4, <3>1, <3>2
    <3>3. CASE r # p
      BY <1>3, <3>1, <3>3
    <3> QED
      BY <3>2, <3>3
  <2> QED
    BY <1>1, <2>1, <2>2 DEF WindowInv
<1>9. ASSUME NEW r \in Peer PROVE ReceiveInv(r, Other(r))'
  BY <1>1, <1>5 DEF Inv, ReceiveInv
<1>10. ASSUME NEW r \in Peer PROVE AckInv(r, Other(r))'
  <2>1. AckInv(r, Other(r)) /\ WindowInv(r)
    BY DEF Inv
  <2>2. ASSUME NEW i \in base[r] .. sent[r] - 1
        PROVE  unacked'[r][IdOf(i)].acked = unacked[r][IdOf(i)].acked
    <3>1. IdOf(i) \in DOMAIN unacked[r]
      BY <2>1 DEF WindowInv
    <3>2. CASE r = p
      BY <1>4, <3>1, <3>2
    <3>3. CASE r # p
      BY <1>3, <3>3
    <3> QED
      BY <3>2, <3>3
  <2> QED
    BY <1>1, <1>6, <2>1, <2>2 DEF AckInv
<1>11. NetInv'
  <2>1. ASSUME NEW k \in net
        PROVE  /\ k.to \in Peer /\ k.type \in {"data", "ack"}
               /\ k.type = "data" => DataInv(k, Other(k.to))'
               /\ k.type = "ack" => AckMessageInv(k, Other(k.to), k.to)'
    BY <1>1, <1>5, <1>6 DEF Inv, NetInv, DataInv, AckMessageInv
  <2>2. ASSUME NEW s \in again, NEW k, k = DataTo(q, s, unacked[p][s])
        PROVE  k.to = q /\ k.type = "data" /\ DataInv(k, p)'
    <3>1. /\ k.to = q /\ k.type = "data" /\ k.seq = s
          /\ k.inner = unacked[p][s].inner /\ k.init = unacked[p][s].init
      BY <2>2 DEF DataTo
    <3>2. PICK i \in base[p] .. sent[p] - 1 : s = IdOf(i)
      BY <1>2 DEF Inv, WindowInv
    <3>3. k.inner = i /\ k.init = (i = 0) /\ i \in Nat /\ i < sent[p]
      BY <3>1, <3>2, Numbers DEF Inv, WindowInv
    <3> QED
      BY <1>1, <3>1, <3>2, <3>3 DEF DataInv
  <2>3. ASSUME NEW k, k = ack_payload(p)
        PROVE  k.to = q /\ k.type = "ack" /\ AckMessageInv(k, p, q)'
    <3>1. /\ k.to = q /\ k.type = "ack" /\ k.ackId = recvNext[p] /\ k.upto = N
          /\ k.mask = {MaskBit(recvNext[p], s) : s \in recvOoo[p]} \cap (0 .. MaskBits - 1)
      BY <2>3 DEF ack_payload, AckTo, consumed
    <3>2. /\ N \in Nat /\ sent[q] \in Nat /\ sent[q] <= N + MaxInflight
          /\ ReceiveInv(p, q) /\ recvNext[p] = IdOf(N)
      BY Numbers, OtherIsPeer, Ends, Bounds DEF Inv, ReceiveInv
    <3>3. ASSUME NEW b \in k.mask
          PROVE  N + 1 + b < sent[q] /\ Received(p, N + 1 + b)
      <4>1. PICK s \in recvOoo[p] : b = MaskBit(recvNext[p], s)
        BY <3>1
      <4>2. PICK i \in N + 1 .. sent[q] - 1 : s = IdOf(i)
        BY <3>2 DEF ReceiveInv
      <4>3. i \in Nat /\ N < i /\ i - N - 1 < SeqSpace /\ N + 1 + (i - N - 1) = i
        BY <3>2, Bounds
      <4>4. b = i - N - 1
        BY <3>2, <4>1, <4>2, <4>3, MaskBitIs
      <4> QED
        BY <3>2, <4>1, <4>2, <4>3, <4>4 DEF Received
    <3> QED
      BY <1>1, <1>5, <1>6, <3>1, <3>2, <3>3 DEF AckMessageInv
  <2>4. net' = net \cup {DataTo(q, s, unacked[p][s]) : s \in again}
                  \cup (IF ackNow THEN {ack_payload(p)} ELSE {})
    BY DEF poll
  <2>5. q \in Peer /\ Other(q) = p
    BY OtherIsPeer
  <2> HIDE DEF q, again, ackNow
  <2>6. ASSUME NEW k \in net'
        PROVE  /\ k.to \in Peer /\ k.type \in {"data", "ack"}
               /\ k.type = "data" => DataInv(k, Other(k.to))'
               /\ k.type = "ack" => AckMessageInv(k, Other(k.to), k.to)'
    <3>1. CASE k \in net
      BY <2>1, <3>1
    <3>2. CASE \E s \in again : k = DataTo(q, s, unacked[p][s])
      BY <2>2, <2>5, <3>2
    <3>3. CASE k = ack_payload(p)
      BY <2>3, <2>5, <3>3
    <3> QED
      BY <2>4, <3>1, <3>2, <3>3
  <2> QED
    BY <2>6 DEF NetInv
<1> QED
  BY <1>7, <1>8, <1>9, <1>10, <1>11 DEF Inv

-----------------------------------------------------------------------------
(* The theorems.                                                           *)

LEMMA NextInv == Inv /\ [Next]_vars => Inv'
<1> SUFFICES ASSUME Inv, [Next]_vars PROVE Inv'
  OBVIOUS
<1>1. ASSUME NEW p \in Peer, open(p) PROVE Inv'
  BY <1>1, OpenInv
<1>2. ASSUME NEW p \in Peer, send(p) PROVE Inv'
  BY <1>2, SendInv
<1>3. ASSUME NEW p \in Peer, NEW m \in net, receiveData(p, m) PROVE Inv'
  BY <1>3, ReceiveDataInv
<1>4. ASSUME NEW p \in Peer, NEW m \in net, on_ack(p, m) PROVE Inv'
  BY <1>4, OnAckInv
<1>5. ASSUME NEW p \in Peer, NEW due \in SUBSET Outstanding(p), NEW elapsed \in BOOLEAN,
             poll(p, due, elapsed)
      PROVE  Inv'
  BY <1>5, PollInv
<1>6. ASSUME NEW m \in net, lose(m) PROVE Inv'
  BY <1>6, LoseInv
<1>7. CASE UNCHANGED vars
  <2>1. UNCHANGED <<net, localOpened, outSeq, windowLo, unacked, peerGap, gapNacks, sent, base,
                    peerOpened, recvNext, recvOoo, deliverNext, deliverBuf, delivered,
                    ackOwed, ackArmed>>
    BY <1>7 DEF vars, sendVars, recvVars, ackVars
  <2>2. TypeOK'
    BY <2>1 DEF Inv, TypeOK
  <2>3. ASSUME NEW r \in Peer
        PROVE  WindowInv(r)' /\ ReceiveInv(r, Other(r))' /\ AckInv(r, Other(r))'
    <3>1. WindowInv(r)'
      BY <2>1 DEF Inv, WindowInv
    <3>2. ReceiveInv(r, Other(r))'
      BY <2>1 DEF Inv, ReceiveInv, consumed
    <3>3. AckInv(r, Other(r))'
      BY <2>1 DEF Inv, AckInv, Received
    <3> QED
      BY <3>1, <3>2, <3>3
  <2>4. NetInv'
    BY <2>1, SameNet DEF Inv
  <2> QED
    BY <2>2, <2>3, <2>4 DEF Inv
<1> QED
  BY <1>1, <1>2, <1>3, <1>4, <1>5, <1>6, <1>7 DEF Next

\* The inductive invariant holds of every reachable state: the ids that either
\* end of reliable.py holds are those of the stream's positions, whatever the
\* air does.
THEOREM InvAlways == Spec => []Inv
<1> QED
  BY InitInv, NextInv, PTL DEF Spec

\* The state of both ends keeps its types (reliable.py, ReliableLink and
\* HostReliableSession fields).
THEOREM TypeCorrect == Spec => []TypeOK
<1>1. Inv => TypeOK
  BY DEF Inv
<1> QED
  BY <1>1, InvAlways, PTL

\* HostReliableSession hands its application the other end's payloads in the
\* order they were queued, each once, over a network that loses, repeats and
\* reorders packets and across any number of id wraps.
THEOREM Ordered == Spec => []InOrderExactlyOnce
<1>1. Inv => InOrderExactlyOnce
  <2> SUFFICES ASSUME Inv, NEW p \in Peer
               PROVE  /\ Len(delivered[p]) <= sent[Other(p)]
                      /\ \A i \in 1 .. Len(delivered[p]) : delivered[p][i] = i - 1
    BY DEF InOrderExactlyOnce
  <2> QED
    BY DEF Inv, ReceiveInv, consumed
<1> QED
  BY <1>1, InvAlways, PTL

\* ReliableLink.on_ack never counts a frame as arrived that did not arrive, and
\* never lets go of one the other end's application has not consumed.
THEOREM AcksAreTrue == Spec => []AckedWasReceived
<1>1. ASSUME Inv PROVE AckedWasReceived
  <2>1. ASSUME NEW p \in Peer
        PROVE  base[p] <= Len(delivered[Other(p)])
    BY <1>1, Ends DEF consumed
  <2>2. ASSUME NEW p \in Peer, NEW s \in DOMAIN unacked[p], unacked[p][s].acked
        PROVE  Received(Other(p), unacked[p][s].inner)
    BY <1>1, <2>2, Ends DEF WindowInv, AckInv
  <2> QED
    BY <2>1, <2>2 DEF AckedWasReceived
<1> QED
  BY <1>1, InvAlways, PTL

\* note_received and _deliver agree on what is held back behind a hole, so an
\* id that is acknowledged is never one the delivery order has lost.
THEOREM DeliveryAgrees == Spec => []DeliveryTracksAcks
<1>1. ASSUME Inv PROVE DeliveryTracksAcks
  BY <1>1, OtherIsPeer DEF Inv, ReceiveInv, DeliveryTracksAcks
<1> QED
  BY <1>1, InvAlways, PTL

\* The selective mask of ack_payload is wide enough for every id beyond a hole.
THEOREM MaskIsWideEnough == Spec => []MaskCoversReceived
<1>1. ASSUME Inv PROVE MaskCoversReceived
  <2>1. ASSUME NEW p \in Peer, NEW s \in recvOoo[p]
        PROVE  MaskBit(recvNext[p], s) < MaskBits
    <3> DEFINE N == consumed(p)
               K == sent[Other(p)]
    <3>1. N \in Nat /\ K \in Nat /\ K <= N + MaxInflight /\ MaxInflight <= MaskBits
      BY <1>1, Numbers, OtherIsPeer, Ends, Bounds, WindowAssumption
    <3>2. recvNext[p] = IdOf(N) /\ ReceiveInv(p, Other(p))
      BY <1>1 DEF Inv, ReceiveInv
    <3>3. PICK i \in N + 1 .. K - 1 : s = IdOf(i)
      BY <3>2 DEF ReceiveInv
    <3>4. i \in Nat /\ N < i /\ i - N - 1 < SeqSpace /\ i - N - 1 < MaskBits
      BY <3>1, Bounds
    <3>5. MaskBit(recvNext[p], s) = i - N - 1
      BY <3>1, <3>2, <3>3, <3>4, MaskBitIs
    <3> QED
      BY <3>4, <3>5
  <2> QED
    BY <2>1 DEF MaskCoversReceived
<1> QED
  BY <1>1, InvAlways, PTL

-----------------------------------------------------------------------------
(* The session implements the two queues of Stream.                        *)

LEMMA ReceiveIsGet ==
    ASSUME Inv, NEW p \in Peer, NEW m \in net, receiveData(p, m)
    PROVE  Promise!Get(p) \/ UNCHANGED <<sent, delivered>>
<1>1. PICK N \in Nat, K \in Nat, i \in Nat : Arrival(p, m, N, K, i) /\ N <= i + Half
  BY ArrivalFacts
<1>2. /\ deliver(p, m.seq, i) /\ sent' = sent
      /\ N = Len(delivered[p]) /\ K = sent[Other(p)] /\ DOMAIN deliverBuf[p] = recvOoo[p]
  BY <1>1 DEF receiveData, Arrival, ReceiveInv, sendVars, consumed
<1>3. /\ deliverNext[p] = IdOf(N)
      /\ m.seq = IdOf(N) <=> i = N
      /\ SeqLt(IdOf(N), m.seq) <=> N < i
  BY <1>1, ArrivalOrder
<1>4. CASE i # N
  <2>1. m.seq # deliverNext[p]
    BY <1>3, <1>4
  <2>2. delivered' = delivered
    BY <1>2, <2>1 DEF deliver
  <2> QED
    BY <1>2, <2>2
<1>5. CASE i = N
  <2>0. m.seq = deliverNext[p] /\ ~SeqLt(deliverNext[p], m.seq)
    BY <1>3, <1>5
  <2>1. PICK n \in 0 .. SeqSpace - 1 :
           /\ IsRun(Plus(m.seq, 1), recvOoo[p], n)
           /\ delivered' = [delivered EXCEPT ![p] = @ \o
               [t \in 1 .. n + 1 |->
                   IF t = 1 THEN N ELSE deliverBuf[p][Plus(m.seq, t - 1)]]]
    BY <1>2, <1>5, <2>0 DEF deliver
  <2>2. Arrival(p, m, N, K, N)
    BY <1>1, <1>5
  <2>3. N + n + 1 <= K /\ n \in Nat
    <3>1. IsRun(Plus(m.seq, 1), recvOoo[p], n)
      BY <2>1
    <3>2. N + n + 1 <= K
      BY <2>2, <3>1, RunPositions
    <3> QED
      BY <3>2, Bounds
  <2>4. \A t \in 1 .. n + 1 : Handed(p, m, N, t) = N + t - 1
    <3>1. IsRun(Plus(m.seq, 1), recvOoo[p], n)
      BY <2>1
    <3> QED
      BY <2>2, <3>1, RunPayloads
  <2>5. [t \in 1 .. n + 1 |-> IF t = 1 THEN N ELSE deliverBuf[p][Plus(m.seq, t - 1)]]
           = [t \in 1 .. n + 1 |-> N + t - 1]
    BY <2>4 DEF Handed
  <2>6. n + 1 \in 1 .. K - N
    BY <2>3
  <2>7. delivered' = [delivered EXCEPT ![p] = @ \o [t \in 1 .. n + 1 |-> Len(@) + t - 1]]
    BY <1>2, <2>1, <2>5
  <2> QED
    BY <1>2, <2>6, <2>7 DEF Promise!Get, Promise!other, Other
<1> QED
  BY <1>4, <1>5

\* Over any air, the two sessions of reliable.py are two queues: a step of
\* theirs puts a frame in, hands the next run of frames out, or is invisible.
THEOREM SessionImplementsStream == Spec => ImplementsStream
<1>1. Init => Promise!Init
  BY DEF Init, Promise!Init
<1>2. ASSUME Inv, [Next]_vars PROVE [Promise!Next]_(Promise!vars)
  <2>1. ASSUME NEW p \in Peer, NEW init \in BOOLEAN, queue(p, init), UNCHANGED <<recvVars, ackVars>>
        PROVE  Promise!Put(p)
    BY <2>1 DEF queue, recvVars, Promise!Put
  <2>2. ASSUME NEW p \in Peer, open(p) \/ send(p) PROVE Promise!Put(p)
    BY <2>1, <2>2 DEF open, send, recvVars, ackVars
  <2>3. ASSUME NEW p \in Peer, NEW m \in net, receiveData(p, m)
        PROVE  Promise!Get(p) \/ UNCHANGED <<sent, delivered>>
    BY <1>2, <2>3, ReceiveIsGet
  <2>4. ASSUME NEW p \in Peer, NEW m \in net, on_ack(p, m) PROVE UNCHANGED <<sent, delivered>>
    BY <2>4 DEF on_ack, recvVars
  <2>5. ASSUME NEW p \in Peer, NEW due, NEW elapsed, poll(p, due, elapsed)
        PROVE  UNCHANGED <<sent, delivered>>
    BY <2>5 DEF poll, recvVars
  <2>6. ASSUME NEW m, lose(m) PROVE UNCHANGED <<sent, delivered>>
    BY <2>6 DEF lose, sendVars, recvVars
  <2>7. CASE UNCHANGED vars
    BY <2>7 DEF vars, sendVars, recvVars, Promise!vars
  <2> QED
    BY <1>2, <2>2, <2>3, <2>4, <2>5, <2>6, <2>7 DEF Next, Promise!Next, Promise!vars
<1> QED
  BY <1>1, <1>2, InvAlways, PTL DEF Spec, ImplementsStream, Promise!Spec
=============================================================================
