--------------------------- MODULE RudpAckProofs ---------------------------
(* An acknowledged rudp_send covers every earlier message that has a        *)
(* payload: the inductive invariant IInv of Rudp, and that Rudp implements  *)
(* AckChannel.  All of it assumes that the sendto of an acknowledgement     *)
(* never fails: rudp_recv acknowledges a datagram in its control before it  *)
(* does.                                                                    *)
EXTENDS RudpProofs

-----------------------------------------------------------------------------
(* The numbers at which p's messages end.                                   *)

LEMMA HdrType == Hdr \in Nat /\ Hdr > 0
  BY RudpAssumption

LEMMA EndPositive ==
    ASSUME NEW s, NEW k \in Nat \ {0}
    PROVE  EndOf(s, k) = s[k].seq + s[k].len + Hdr
<1>1. k # 0
  OBVIOUS
<1> QED BY <1>1, Zenon DEF EndOf

LEMMA EndNat ==
    ASSUME NEW s, NEW k \in Nat,
           k # 0 => s[k].seq \in Nat /\ s[k].len \in Nat
    PROVE  EndOf(s, k) \in Nat
<1>1. CASE k = 0
  BY <1>1, HdrType DEF EndOf
<1>2. CASE k # 0
  <2> DEFINE x == s[k].seq
             y == s[k].len
  <2>1. x \in Nat /\ y \in Nat /\ EndOf(s, k) = x + y + Hdr
    BY <1>2, EndPositive
  <2> HIDE DEF x, y
  <2> QED BY <2>1, HdrType
<1> QED BY <1>1, <1>2

LEMMA EndFacts ==
    ASSUME TypeOK, SentContiguous, NEW p \in Peers
    PROVE  /\ Len(sent[p]) \in Nat
           /\ \A k \in 0..Len(sent[p]) : EndOf(sent[p], k) \in Nat
           /\ \A k \in 1..Len(sent[p]) :
                 /\ sent[p][k].seq \in Nat /\ sent[p][k].len \in Nat
                 /\ sent[p][k].seq = EndOf(sent[p], k - 1)
                 /\ EndOf(sent[p], k) = sent[p][k].seq + sent[p][k].len + Hdr
           /\ \A j, k \in 0..Len(sent[p]) :
                 j < k => EndOf(sent[p], j) + Hdr <= EndOf(sent[p], k)
<1> DEFINE s == sent[p]
<1>1. s \in Seq([seq : Nat, len : Nat]) /\ Len(s) \in Nat
  BY LenProperties DEF TypeOK
<1>2. \A k \in 1..Len(s) : s[k] \in [seq : Nat, len : Nat]
  BY <1>1, ElementOfSeq
<1>3. \A k \in 1..Len(s) : s[k].seq \in Nat /\ s[k].len \in Nat
  BY <1>2
<1>4. \A k \in 1..Len(s) : EndOf(s, k) = s[k].seq + s[k].len + Hdr
  BY <1>1 DEF EndOf
<1>5. \A k \in 1..Len(s) :
        /\ s[k].seq = EndOf(s, k - 1)
        /\ \A j \in 0..(k - 1) : EndOf(s, j) + Hdr <= EndOf(s, k)
  BY DEF SentContiguous
<1> HIDE DEF s
<1>7. \A k \in 0..Len(s) : EndOf(s, k) \in Nat
  BY <1>1, <1>3, EndNat
<1>8. \A j, k \in 0..Len(s) : j < k => EndOf(s, j) + Hdr <= EndOf(s, k)
  BY <1>1, <1>5
<1> QED BY <1>1, <1>3, <1>4, <1>5, <1>7, <1>8 DEF s

LEMMA EndInjective ==
    ASSUME TypeOK, SentContiguous, NEW p \in Peers,
           NEW j \in 0..Len(sent[p]), NEW k \in 0..Len(sent[p]),
           EndOf(sent[p], j) = EndOf(sent[p], k)
    PROVE  j = k
<1>1. /\ EndOf(sent[p], j) \in Nat
      /\ j < k => EndOf(sent[p], j) + Hdr <= EndOf(sent[p], k)
      /\ k < j => EndOf(sent[p], k) + Hdr <= EndOf(sent[p], j)
      /\ j \in Nat /\ k \in Nat
  BY EndFacts
<1>2. ~(EndOf(sent[p], j) + Hdr <= EndOf(sent[p], j))
  BY <1>1, HdrType
<1> QED BY <1>1, <1>2

\* No end of a message lies beyond the sender's number.
LEMMA EndBelowSeq ==
    ASSUME TypeOK, SentContiguous, SeqAtEnd, NEW p \in Peers,
           NEW k \in 0..Len(sent[p])
    PROVE  EndOf(sent[p], k) \in Nat /\ EndOf(sent[p], k) <= ctl[p].seq
<1>1. /\ Len(sent[p]) \in Nat /\ EndOf(sent[p], k) \in Nat
      /\ EndOf(sent[p], Len(sent[p])) \in Nat
      /\ k < Len(sent[p])
            => EndOf(sent[p], k) + Hdr <= EndOf(sent[p], Len(sent[p]))
  BY EndFacts
<1>2. EndOf(sent[p], k) <= EndOf(sent[p], Len(sent[p]))
  BY <1>1, HdrType
<1>3. ctl[p].seq = EndOf(sent[p], Len(sent[p]))
      \/ ctl[p].seq = EndOf(sent[p], Len(sent[p])) + Hdr
  <2>1. EndOf(sent[p], Len(sent[p])) + 0 = EndOf(sent[p], Len(sent[p]))
    BY <1>1
  <2> QED BY <2>1 DEF SeqAtEnd
<1> QED BY <1>1, <1>2, <1>3, HdrType

LEMMA SameHistory ==
    ASSUME SentContiguous, SeqAtEnd, UNCHANGED <<sent, finished>>,
           \A p \in Peers : ctl'[p].seq = ctl[p].seq
    PROVE  /\ SentContiguous' /\ SeqAtEnd'
           /\ \A p \in Peers : \A d : Genuine(p, d) => Genuine(p, d)'
  BY DEF SentContiguous, SeqAtEnd, Genuine

-----------------------------------------------------------------------------
(* rudp_send begins.                                                        *)

LEMMA SendEnds ==
    ASSUME TypeOK, SentContiguous, SeqAtEnd, NEW a \in Peers,
           NEW len \in Nat, ~finished[a],
           sent' = [sent EXCEPT
                      ![a] = Append(@, [seq |-> ctl[a].seq, len |-> len])]
    PROVE  /\ Len(sent'[a]) = Len(sent[a]) + 1
           /\ \A p \in Peers : p # a => sent'[p] = sent[p]
           /\ \A k \in 1..Len(sent[a]) : sent'[a][k] = sent[a][k]
           /\ sent'[a][Len(sent[a]) + 1] = [seq |-> ctl[a].seq, len |-> len]
           /\ \A p \in Peers : \A k \in 0..Len(sent[p]) :
                 EndOf(sent'[p], k) = EndOf(sent[p], k)
           /\ EndOf(sent'[a], Len(sent[a]) + 1) = ctl[a].seq + len + Hdr
           /\ EndOf(sent[a], Len(sent[a])) = ctl[a].seq
<1> DEFINE m == [seq |-> ctl[a].seq, len |-> len]
           n == Len(sent[a])
<1>1. /\ m \in [seq : Nat, len : Nat]
      /\ sent[a] \in Seq([seq : Nat, len : Nat])
      /\ m.seq = ctl[a].seq /\ m.len = len
  BY DEF TypeOK, Header
<1>2. /\ n \in Nat /\ EndOf(sent[a], n) \in Nat
      /\ \A p \in Peers : Len(sent[p]) \in Nat
  BY EndFacts
<1>3. sent'[a] = Append(sent[a], m) /\ \A p \in Peers : p # a => sent'[p] = sent[p]
  BY DEF TypeOK
<1> HIDE DEF m
<1>4. /\ Len(sent'[a]) = n + 1
      /\ \A k \in 1..n : sent'[a][k] = sent[a][k]
      /\ sent'[a][n + 1] = m
  BY <1>1, <1>3, AppendProperties
<1> HIDE DEF n
<1>5. \A k \in 0..n : EndOf(sent'[a], k) = EndOf(sent[a], k)
  BY <1>2, <1>4 DEF EndOf
<1>6. EndOf(sent'[a], n + 1) = ctl[a].seq + len + Hdr
  <2>1. EndOf(sent'[a], n + 1) = sent'[a][n + 1].seq + sent'[a][n + 1].len + Hdr
    <3>1. n + 1 \in Nat \ {0}
      BY <1>2
    <3> QED BY <3>1, EndPositive, Zenon
  <2> QED BY <1>1, <1>4, <2>1
<1>7. EndOf(sent[a], n) = ctl[a].seq
  <2>1. ctl[a].seq = EndOf(sent[a], n) + 0
    BY DEF SeqAtEnd, n
  <2> QED BY <1>2, <2>1
<1> QED BY <1>3, <1>4, <1>5, <1>6, <1>7 DEF m, n

LEMMA SendCallKeeps ==
    ASSUME TypeOK, IInv, NEW a \in Peers, SendCall(a)
    PROVE  IInv'
<1> DEFINE n == Len(sent[a])
<1>1. PICK len \in Nat :
        /\ Begin(a, "send", DataPacket(a, len))
        /\ sent' = [sent EXCEPT
                      ![a] = Append(@, [seq |-> ctl[a].seq, len |-> len])]
  BY RudpAssumption DEF SendCall
<1> DEFINE d == DataPacket(a, len)
<1>2. /\ ~finished[a]
      /\ UNCHANGED <<net, finished, delivered, acked>>
  BY DEF SendCall
<1>3. SentContiguous /\ SeqAtEnd
  BY DEF IInv
<1>4. /\ Len(sent'[a]) = n + 1
      /\ \A p \in Peers : p # a => sent'[p] = sent[p]
      /\ \A k \in 1..n : sent'[a][k] = sent[a][k]
      /\ sent'[a][n + 1] = [seq |-> ctl[a].seq, len |-> len]
      /\ \A p \in Peers : \A k \in 0..Len(sent[p]) :
            EndOf(sent'[p], k) = EndOf(sent[p], k)
      /\ EndOf(sent'[a], n + 1) = ctl[a].seq + len + Hdr
      /\ EndOf(sent[a], n) = ctl[a].seq
  BY <1>1, <1>2, <1>3, SendEnds
<1>5. /\ d \in Datagram /\ d.seq = ctl[a].seq /\ d.len = len
      /\ d.flag = "DATA" /\ d.msg = n + 1
  BY PacketTypes DEF DataPacket
<1> HIDE DEF d
<1>6. /\ \A q \in Peers : q # a => call'[q] = call[q] /\ ctl'[q] = ctl[q]
      /\ InSend(a)' /\ ~InRecv(a)'
      /\ call'[a].pkt = d /\ call'[a].op = "send"
      /\ ctl'[a].seq = ctl[a].seq + len + Hdr
      /\ ctl'[a].ack = ctl[a].ack
  <2>1. Begin(a, "send", d)
    BY <1>1 DEF d
  <2> QED BY <1>5, <2>1, BeginEffect
<1>7. \A p \in Peers : Len(sent[p]) \in Nat
  BY <1>3, EndFacts
<1>8. n \in Nat /\ ctl[a].seq \in Nat
  BY <1>7 DEF TypeOK, Header
<1>9. \A p \in Peers : ctl[p].ack \in Nat /\ ctl[p].seq \in Nat
  BY DEF TypeOK, Header
<1>10. \A p \in Peers : /\ ctl'[p].ack = ctl[p].ack
                        /\ ctl'[p].seq \in Nat /\ ctl'[p].seq >= ctl[p].seq
  <2>1. ctl'[a].seq \in Nat /\ ctl'[a].seq >= ctl[a].seq
    BY <1>6, <1>8, HdrType
  <2> QED BY <1>6, <1>9, <2>1
<1> HIDE DEF n
<1>11. SentContiguous'
  <2>1. ASSUME NEW p \in Peers, NEW k \in 1..Len(sent'[p])
        PROVE  /\ sent'[p][k].seq = EndOf(sent'[p], k - 1)
               /\ \A j \in 0..(k - 1) :
                    EndOf(sent'[p], j) + Hdr <= EndOf(sent'[p], k)
    <3>1. CASE p # a \/ k # n + 1
      <4>1. k \in 1..Len(sent[p]) /\ sent'[p][k] = sent[p][k]
        BY <1>4, <1>7, <2>1, <3>1 DEF n
      <4>2. \A j \in 0..k : EndOf(sent'[p], j) = EndOf(sent[p], j)
        BY <1>4, <1>7, <4>1
      <4>3. /\ sent[p][k].seq = EndOf(sent[p], k - 1)
            /\ \A j \in 0..(k - 1) : EndOf(sent[p], j) + Hdr <= EndOf(sent[p], k)
        BY <1>3, <4>1 DEF SentContiguous
      <4> QED BY <1>7, <4>1, <4>2, <4>3
    <3>2. CASE p = a /\ k = n + 1
      <4>1. k - 1 = n /\ n \in 0..Len(sent[a])
        BY <1>8, <3>2 DEF n
      <4>2. EndOf(sent'[a], n) = ctl[a].seq
        BY <1>4, <4>1
      <4>3. sent'[a][k].seq = ctl[a].seq
        BY <1>4, <3>2
      <4>4. \A j \in 0..n : /\ EndOf(sent'[a], j) \in Nat
                            /\ EndOf(sent'[a], j) <= ctl[a].seq
        BY <1>3, <1>4, EndBelowSeq DEF n
      <4>5. \A j \in 0..n : EndOf(sent'[a], j) + Hdr <= ctl[a].seq + len + Hdr
        BY <1>8, <4>4, HdrType
      <4> QED BY <1>4, <3>2, <4>1, <4>2, <4>3, <4>5
    <3> QED BY <3>1, <3>2
  <2> QED BY <2>1 DEF SentContiguous
<1>12. SeqAtEnd'
  <2>1. ASSUME NEW p \in Peers
        PROVE  ctl'[p].seq = EndOf(sent'[p], Len(sent'[p]))
                               + (IF finished'[p] THEN Hdr ELSE 0)
    <3>1. CASE p = a
      <4>1. ~finished'[a] /\ ctl'[a].seq = EndOf(sent'[a], Len(sent'[a]))
        BY <1>2, <1>4, <1>6
      <4>2. ctl'[a].seq = ctl'[a].seq + 0
        BY <1>10
      <4> QED BY <3>1, <4>1, <4>2
    <3>2. CASE p # a
      BY <1>2, <1>3, <1>4, <1>6, <3>2 DEF SeqAtEnd
    <3> QED BY <3>1, <3>2
  <2> QED BY <2>1 DEF SeqAtEnd
<1>13. \A p \in Peers : \A e : Genuine(p, e) => Genuine(p, e)'
  <2> SUFFICES ASSUME NEW p \in Peers, NEW e, Genuine(p, e)
               PROVE  Genuine(p, e)'
    OBVIOUS
  <2>0. \A k \in 0..Len(sent[p]) : k \in 0..Len(sent'[p])
    BY <1>4, <1>7 DEF n
  <2>1. CASE e.flag = "DATA"
    <3>1. /\ e.msg \in 1..Len(sent[p])
          /\ e.seq = sent[p][e.msg].seq /\ e.len = sent[p][e.msg].len
      BY <2>1 DEF Genuine
    <3>2. e.msg \in 1..Len(sent'[p]) /\ sent'[p][e.msg] = sent[p][e.msg]
      BY <1>4, <1>7, <3>1 DEF n
    <3> QED BY <2>1, <3>1, <3>2 DEF Genuine
  <2>2. CASE e.flag # "DATA"
    <3>0. e.len = 0
      BY <2>2 DEF Genuine
    <3>1. CASE \E k \in 0..Len(sent[p]) : e.seq = EndOf(sent[p], k)
      <4>1. PICK k \in 0..Len(sent[p]) : e.seq = EndOf(sent[p], k)
        BY <3>1
      <4>2. k \in 0..Len(sent'[p]) /\ e.seq = EndOf(sent'[p], k)
        BY <1>4, <2>0, <4>1
      <4> QED BY <2>2, <3>0, <4>2 DEF Genuine
    <3>2. CASE finished[p] /\ e.seq = ctl[p].seq
      BY <1>2, <1>6, <2>2, <3>0, <3>2 DEF Genuine
    <3> QED BY <2>2, <3>1, <3>2 DEF Genuine
  <2> QED BY <2>1, <2>2
<1>14. DatagramsGenuine'
  <2>1. ASSUME NEW p \in Peers, NEW e \in ToSet(net'[Other(p)])
        PROVE  Genuine(p, e)'
    BY <1>2, <1>13, <2>1 DEF IInv, DatagramsGenuine
  <2>2. ASSUME NEW p \in Peers, InSend(p)'
        PROVE  Genuine(p, call[p].pkt)'
    <3>1. CASE p = a
      <4>1. /\ d.msg \in 1..Len(sent'[a]) /\ sent'[a][d.msg].seq = d.seq
            /\ sent'[a][d.msg].len = d.len
        BY <1>4, <1>5, <1>8
      <4> QED BY <1>5, <1>6, <3>1, <4>1 DEF Genuine
    <3>2. CASE p # a
      <4>1. InSend(p) /\ call'[p] = call[p]
        BY <1>6, <2>2, <3>2 DEF InSend
      <4>2. Genuine(p, call[p].pkt)
        BY <4>1 DEF IInv, DatagramsGenuine
      <4>3. \A e : e = call[p].pkt => Genuine(p, e)'
        BY <1>13, <4>2
      <4> QED BY <4>1, <4>3 DEF Genuine
    <3> QED BY <3>1, <3>2
  <2> QED BY <2>1, <2>2 DEF DatagramsGenuine
<1>15. PendingIsLast'
  <2>1. ASSUME NEW p \in Peers, InSend(p)', p # a
        PROVE  InSend(p) /\ call'[p] = call[p] /\ sent'[p] = sent[p]
    BY <1>4, <1>6, <2>1 DEF InSend
  <2> QED BY <1>2, <1>4, <1>5, <1>6, <2>1 DEF PendingIsLast, IInv
<1>16. AcksTrail'
  BY <1>2, <1>10, OtherPeer DEF AcksTrail, IInv
<1>17. AckAheadByAtMostAHeader'
  <2>1. ASSUME NEW p \in Peers
        PROVE  ctl'[Other(p)].ack <= ctl'[p].seq + Hdr
    <3>1. ctl[Other(p)].ack <= ctl[p].seq + Hdr /\ Other(p) \in Peers
      BY OtherPeer DEF IInv, AckAheadByAtMostAHeader
    <3> QED BY <1>9, <1>10, <3>1, HdrType
  <2> QED BY <2>1 DEF AckAheadByAtMostAHeader
\* No acknowledgement yet can be as large as the end of the new message,
\* unless that is empty.
<1>18. ASSUME NEW p \in Peers, NEW x \in Nat, x <= ctl[p].seq + Hdr, Covers(p, x)
       PROVE  Covers(p, x)'
  <2>1. ASSUME NEW k \in 0..Len(sent'[p]), EndOf(sent'[p], k) <= x
        PROVE  Filled(p, k)' \subseteq ToSet(delivered'[Other(p)])
    <3>1. CASE k \in 0..Len(sent[p])
      <4>1. EndOf(sent[p], k) <= x
        BY <1>4, <2>1, <3>1
      <4>2. \A j \in 1..k : sent'[p][j] = sent[p][j]
        <5>1. CASE p = a
          BY <1>4, <1>8, <3>1, <5>1 DEF n
        <5>2. CASE p # a
          BY <1>4, <5>2
        <5> QED BY <5>1, <5>2
      <4>3. Filled(p, k)' = Filled(p, k)
        BY <4>2 DEF Filled
      <4> QED BY <1>2, <1>18, <3>1, <4>1, <4>3 DEF Covers
    <3>2. CASE k \notin 0..Len(sent[p])
      <4>1. p = a /\ k = n + 1
        BY <1>4, <1>7, <2>1, <3>2 DEF n
      <4>2. ctl[a].seq + len + Hdr <= ctl[a].seq + Hdr
        BY <1>4, <1>8, <1>18, <2>1, <4>1, HdrType
      <4>3. len = 0
        BY <1>8, <4>2, HdrType
      <4>4. sent'[a][n + 1].len = 0 /\ n \in 0..n
        BY <1>4, <1>8, <4>3
      <4>5. Filled(a, k)' \subseteq Filled(a, n)
        BY <1>4, <1>8, <4>1, <4>4 DEF Filled
      <4>6. EndOf(sent[a], n) <= x
        BY <1>4, <1>8, <1>18, <2>1, <4>1, <4>3, HdrType
      <4>7. Filled(a, n) \subseteq ToSet(delivered[Other(a)])
        BY <1>18, <4>1, <4>4, <4>6 DEF Covers, n
      <4> QED BY <1>2, <4>1, <4>5, <4>7
    <3> QED BY <3>1, <3>2
  <2> QED BY <2>1 DEF Covers
<1>19. AcksCover'
  <2>1. ASSUME NEW p \in Peers
        PROVE  Covers(p, ctl[Other(p)].ack)'
    <3>1. /\ ctl[Other(p)].ack \in Nat
          /\ ctl[Other(p)].ack <= ctl[p].seq + Hdr
          /\ Covers(p, ctl[Other(p)].ack)
      BY <1>9, OtherPeer DEF IInv, AckAheadByAtMostAHeader, AcksCover
    <3>2. \A x : x = ctl[Other(p)].ack => Covers(p, x)'
      BY <1>18, <3>1
    <3>3. ctl'[Other(p)].ack = ctl[Other(p)].ack
      BY <1>10, OtherPeer
    <3> QED BY <3>2, <3>3 DEF Covers
  <2> QED BY <2>1 DEF AcksCover
<1>20. NoFinPending'
  <2>1. \A p \in Peers : InRecv(p)' => InRecv(p) /\ call'[p] = call[p]
    BY <1>6 DEF InRecv
  <2> QED BY <2>1 DEF NoFinPending, IInv
<1>21. AckIsCumulative'
  <2>1. ASSUME NEW p \in Peers, NEW k \in acked'[p]
        PROVE  Filled(p, k)' \subseteq ToSet(delivered'[Other(p)])
    <3>1. Filled(p, k) \subseteq ToSet(delivered[Other(p)]) /\ k \in 1..Len(sent[p])
      BY <1>2, <2>1 DEF AckIsCumulative, AckedWereSent, IInv
    <3>2. \A j \in 1..k : sent'[p][j] = sent[p][j]
      BY <1>4, <1>7, <3>1 DEF n
    <3>3. Filled(p, k)' = Filled(p, k)
      BY <3>2 DEF Filled
    <3> QED BY <1>2, <3>1, <3>3
  <2> QED BY <2>1 DEF AckIsCumulative
<1>22. AckedWereSent'
  <2>1. \A p \in Peers : \A k \in 1..Len(sent[p]) : k \in 1..Len(sent'[p])
    BY <1>4, <1>7 DEF n
  <2> QED BY <1>2, <2>1 DEF AckedWereSent, IInv
<1> QED BY <1>11, <1>12, <1>14, <1>15, <1>16, <1>17, <1>19, <1>20, <1>21, <1>22
        DEF IInv

-----------------------------------------------------------------------------
(* rudp_close begins.                                                       *)

LEMMA CloseCallKeeps ==
    ASSUME TypeOK, IInv, NEW a \in Peers, CloseCall(a)
    PROVE  IInv'
<1> DEFINE d == FinPacket(a)
<1>1. /\ Begin(a, "close", d) /\ ~finished[a]
      /\ finished' = [finished EXCEPT ![a] = TRUE]
      /\ UNCHANGED <<net, sent, delivered, acked>>
  BY DEF CloseCall
<1>2. d \in Datagram /\ d.seq = ctl[a].seq /\ d.len = 0 /\ d.flag = "FIN"
  BY PacketTypes DEF FinPacket
<1> HIDE DEF d
<1>3. /\ \A q \in Peers : q # a => call'[q] = call[q] /\ ctl'[q] = ctl[q]
      /\ InSend(a)' /\ ~InRecv(a)'
      /\ call'[a].pkt = d /\ call'[a].op = "close"
      /\ ctl'[a].seq = ctl[a].seq + 0 + Hdr
      /\ ctl'[a].ack = ctl[a].ack
  BY <1>1, <1>2, BeginEffect
<1>4. finished'[a] /\ \A p \in Peers : p # a => finished'[p] = finished[p]
  BY <1>1 DEF TypeOK
<1>5. \A p \in Peers : /\ ctl[p].ack \in Nat /\ ctl[p].seq \in Nat
                       /\ ctl'[p].ack = ctl[p].ack
                       /\ ctl'[p].seq \in Nat /\ ctl'[p].seq >= ctl[p].seq
  <2>1. \A p \in Peers : ctl[p].ack \in Nat /\ ctl[p].seq \in Nat
    BY DEF TypeOK, Header
  <2>2. ctl'[a].seq \in Nat /\ ctl'[a].seq >= ctl[a].seq
    BY <1>3, <2>1, HdrType
  <2> QED BY <1>3, <2>1, <2>2
<1>6. EndOf(sent[a], Len(sent[a])) = ctl[a].seq /\ Len(sent[a]) \in Nat
  <2>1. EndOf(sent[a], Len(sent[a])) \in Nat /\ Len(sent[a]) \in Nat
    BY EndFacts DEF IInv
  <2>2. ctl[a].seq = EndOf(sent[a], Len(sent[a])) + 0
    BY <1>1 DEF IInv, SeqAtEnd
  <2> QED BY <2>1, <2>2
<1>7. SentContiguous'
  BY <1>1 DEF IInv, SentContiguous
<1>8. SeqAtEnd'
  <2>1. ctl'[a].seq = EndOf(sent[a], Len(sent[a])) + Hdr
    BY <1>3, <1>5, <1>6, HdrType
  <2> QED BY <1>1, <1>3, <1>4, <2>1 DEF IInv, SeqAtEnd
<1>9. \A p \in Peers : \A e : Genuine(p, e) => Genuine(p, e)'
  BY <1>1, <1>3, <1>4 DEF Genuine
<1>10. DatagramsGenuine'
  <2>1. ASSUME NEW p \in Peers, InSend(p)'
        PROVE  Genuine(p, call[p].pkt)'
    <3>1. CASE p = a
      <4>1. Len(sent[a]) \in 0..Len(sent[a])
        BY <1>6
      <4>2. \E k \in 0..Len(sent'[a]) : d.seq = EndOf(sent'[a], k)
        BY <1>1, <1>2, <1>6, <4>1
      <4> QED BY <1>2, <1>3, <3>1, <4>2 DEF Genuine
    <3>2. CASE p # a
      <4>1. InSend(p) /\ call'[p] = call[p]
        BY <1>3, <2>1, <3>2 DEF InSend
      <4>2. Genuine(p, call[p].pkt)
        BY <4>1 DEF IInv, DatagramsGenuine
      <4>3. \A e : e = call[p].pkt => Genuine(p, e)'
        BY <1>9, <4>2
      <4> QED BY <4>1, <4>3 DEF Genuine
    <3> QED BY <3>1, <3>2
  <2> QED BY <1>1, <1>9, <2>1 DEF IInv, DatagramsGenuine
<1>11. PendingIsLast'
  <2>1. ASSUME NEW p \in Peers, InSend(p)', p # a
        PROVE  InSend(p) /\ call'[p] = call[p]
    BY <1>3, <2>1 DEF InSend
  <2> QED BY <1>1, <1>2, <1>3, <1>4, <2>1 DEF PendingIsLast, IInv
<1>12. AcksTrail'
  BY <1>1, <1>5, OtherPeer DEF AcksTrail, IInv
<1>13. AckAheadByAtMostAHeader'
  <2>1. ASSUME NEW p \in Peers
        PROVE  ctl'[Other(p)].ack <= ctl'[p].seq + Hdr
    <3>1. ctl[Other(p)].ack <= ctl[p].seq + Hdr /\ Other(p) \in Peers
      BY OtherPeer DEF IInv, AckAheadByAtMostAHeader
    <3> QED BY <1>5, <3>1, HdrType
  <2> QED BY <2>1 DEF AckAheadByAtMostAHeader
<1>14. \A p \in Peers : \A x : Covers(p, x) => Covers(p, x)'
  BY <1>1 DEF Covers, Filled
<1>15. AcksCover'
  <2>1. \A p \in Peers : ctl'[Other(p)].ack = ctl[Other(p)].ack
    BY <1>5, OtherPeer
  <2>2. ASSUME NEW p \in Peers
        PROVE  Covers(p, ctl[Other(p)].ack)'
    <3>1. \A x : x = ctl[Other(p)].ack => Covers(p, x)'
      BY <1>14 DEF IInv, AcksCover
    <3> QED BY <2>1, <3>1 DEF Covers
  <2> QED BY <2>2 DEF AcksCover
<1>16. NoFinPending'
  <2>1. \A p \in Peers : InRecv(p)' => InRecv(p) /\ call'[p] = call[p]
    BY <1>3 DEF InRecv
  <2> QED BY <2>1 DEF NoFinPending, IInv
<1>17. AckIsCumulative' /\ AckedWereSent'
  BY <1>1 DEF AckIsCumulative, AckedWereSent, Filled, IInv
<1> QED BY <1>7, <1>8, <1>10, <1>11, <1>12, <1>13, <1>15, <1>16, <1>17 DEF IInv

-----------------------------------------------------------------------------
(* Steps that leave every number as it is.                                  *)

\* Nothing new on the wire but what is pending at its sender.
LEMMA StillKeeps ==
    ASSUME TypeOK, IInv, UNCHANGED <<ctl, sent, delivered, finished>>, KeepsCalls,
           \A q \in Peers : \A e \in ToSet(net'[q]) :
              \/ e \in ToSet(net[q])
              \/ InSend(Other(q)) /\ e = call[Other(q)].pkt
    PROVE  /\ SentContiguous' /\ SeqAtEnd' /\ DatagramsGenuine' /\ PendingIsLast'
           /\ AcksTrail' /\ AckAheadByAtMostAHeader' /\ AcksCover' /\ NoFinPending'
<1>1. /\ SentContiguous' /\ SeqAtEnd'
      /\ \A p \in Peers : \A e : Genuine(p, e) => Genuine(p, e)'
  BY SameHistory DEF IInv
<1>2. DatagramsGenuine'
  <2>1. ASSUME NEW p \in Peers, NEW e \in ToSet(net'[Other(p)])
        PROVE  Genuine(p, e)'
    <3>1. Genuine(p, e)
      BY <2>1, OtherPeer DEF IInv, DatagramsGenuine
    <3> QED BY <1>1, <3>1
  <2>2. ASSUME NEW p \in Peers, InSend(p)'
        PROVE  Genuine(p, call[p].pkt)'
    <3>1. Genuine(p, call[p].pkt) /\ call'[p].pkt = call[p].pkt
      BY <2>2 DEF IInv, DatagramsGenuine, KeepsCalls
    <3>2. \A e : e = call[p].pkt => Genuine(p, e)'
      BY <1>1, <3>1
    <3> QED BY <3>1, <3>2 DEF Genuine
  <2> QED BY <2>1, <2>2 DEF DatagramsGenuine
<1>3. PendingIsLast'
  BY DEF PendingIsLast, IInv, KeepsCalls
<1>4. ASSUME NEW q \in Peers, NEW e \in ToSet(net'[q]), e.flag = "ACK"
      PROVE  e \in ToSet(net[q])
  BY <1>4, OtherPeer DEF PendingIsLast, IInv
<1>5. AcksTrail'
  BY <1>4 DEF AcksTrail, IInv
<1>6. AckAheadByAtMostAHeader'
  BY DEF AckAheadByAtMostAHeader, IInv
<1>7. AcksCover'
  BY DEF AcksCover, Covers, Filled, IInv
<1>8. NoFinPending'
  BY DEF NoFinPending, IInv, KeepsCalls
<1> QED BY <1>1, <1>2, <1>3, <1>5, <1>6, <1>7, <1>8

LEMMA QuietKeeps == ASSUME TypeOK, IInv, Quiet PROVE IInv'
<1>1. AckIsCumulative' /\ AckedWereSent'
  BY DEF AckIsCumulative, AckedWereSent, Filled, IInv, Quiet
<1> QED BY <1>1, StillKeeps DEF Quiet, ShrinksNets, IInv

LEMMA TransmitKeeps ==
    ASSUME TypeOK, IInv, NEW a \in Peers, Transmit(a) PROVE IInv'
<1>1. /\ InSend(a) /\ KeepsCalls /\ OnlyAdds(Other(a), call[a].pkt)
      /\ UNCHANGED <<ctl, sent, delivered, acked, finished>>
  BY TransmitEffect
<1>2. AckIsCumulative' /\ AckedWereSent'
  BY <1>1 DEF AckIsCumulative, AckedWereSent, Filled, IInv
<1>3. \A q \in Peers : \A e \in ToSet(net'[q]) :
         \/ e \in ToSet(net[q])
         \/ InSend(Other(q)) /\ e = call[Other(q)].pkt
  BY <1>1, OtherPeer DEF OnlyAdds
<1> QED BY <1>1, <1>2, <1>3, StillKeeps DEF IInv

\* The acknowledgement that ends rudp_send is the end of p's last message.
LEMMA AnswerKeeps ==
    ASSUME TypeOK, IInv, NEW a \in Peers, Answer(a), Answers(a, Head(net[a]))
    PROVE  IInv'
<1>1. /\ InSend(a) /\ KeepsCalls /\ ShrinksNets
      /\ UNCHANGED <<ctl, sent, delivered, finished>>
      /\ Head(net[a]) \in ToSet(net[a])
      /\ acked' = IF call[a].op = "send"
                  THEN [acked EXCEPT ![a] = @ \cup {call[a].pkt.msg}]
                  ELSE acked
  BY AnswerEffect
<1>2. AckIsCumulative' /\ AckedWereSent'
  <2>1. CASE call[a].op = "send"
    <3>1. /\ ~finished[a] /\ call[a].pkt.msg = Len(sent[a])
          /\ Len(sent[a]) \in 1..Len(sent[a])
      BY <1>1, <2>1 DEF IInv, PendingIsLast, DatagramsGenuine, Genuine
    <3>2. /\ EndOf(sent[a], Len(sent[a])) \in Nat /\ Len(sent[a]) \in Nat
      BY EndFacts DEF IInv
    <3>3. ctl[a].seq = EndOf(sent[a], Len(sent[a])) + 0
      BY <3>1 DEF IInv, SeqAtEnd
    <3>4. ctl[a].seq = EndOf(sent[a], Len(sent[a]))
      BY <3>2, <3>3
    <3>5. EndOf(sent[a], Len(sent[a])) <= ctl[Other(a)].ack
      BY <1>1, <3>4 DEF IInv, AcksTrail, Answers
    <3>6. Filled(a, Len(sent[a])) \subseteq ToSet(delivered[Other(a)])
      BY <3>2, <3>5 DEF Covers, IInv, AcksCover
    <3>7. /\ \A p \in Peers : p # a => acked'[p] = acked[p]
          /\ acked'[a] = acked[a] \cup {Len(sent[a])}
      BY <1>1, <2>1, <3>1 DEF TypeOK
    <3>8. \A p \in Peers : \A k : Filled(p, k)' = Filled(p, k)
      BY <1>1 DEF Filled
    <3>9. AckedWereSent'
      BY <1>1, <3>1, <3>7 DEF AckedWereSent, IInv
    <3> QED BY <1>1, <3>6, <3>7, <3>8, <3>9 DEF AckIsCumulative, IInv
  <2>2. CASE call[a].op # "send"
    BY <1>1, <2>2 DEF AckIsCumulative, AckedWereSent, Filled, IInv
  <2> QED BY <2>1, <2>2
<1> QED BY <1>1, <1>2, StillKeeps DEF ShrinksNets, IInv

-----------------------------------------------------------------------------
(* rudp_recv takes a datagram.                                              *)

\* If the datagram moves the acknowledgement, the new one still covers what
\* it reaches: data ends its own message, control none but an empty one.
LEMMA AdvanceCovers ==
    ASSUME TypeOK, IInv, NEW p \in Peers, NEW x \in Nat, NEW d \in Datagram,
           x <= ctl[p].seq + Hdr, Covers(p, x), Genuine(p, d)
    PROVE  /\ Advance(x, d) \in Nat
           /\ Advance(x, d) <= ctl[p].seq + Hdr
           /\ \A k \in 0..Len(sent[p]) : EndOf(sent[p], k) <= Advance(x, d) =>
                 Filled(p, k) \subseteq ToSet(delivered[Other(p)])
                                  \cup (IF d.flag = "DATA" THEN {d.msg} ELSE {})
<1> DEFINE y == Advance(x, d)
           n == Len(sent[p])
           got == ToSet(delivered[Other(p)])
                    \cup (IF d.flag = "DATA" THEN {d.msg} ELSE {})
<1>1. /\ n \in Nat /\ ctl[p].seq \in Nat
      /\ \A k \in 0..n : /\ EndOf(sent[p], k) \in Nat
                         /\ EndOf(sent[p], k) <= ctl[p].seq
      /\ \A k \in 1..n :
            /\ sent[p][k].seq \in Nat /\ sent[p][k].len \in Nat
            /\ sent[p][k].seq = EndOf(sent[p], k - 1)
            /\ EndOf(sent[p], k) = sent[p][k].seq + sent[p][k].len + Hdr
      /\ \A j, k \in 0..n : j < k => EndOf(sent[p], j) + Hdr <= EndOf(sent[p], k)
  BY EndFacts, EndBelowSeq DEF IInv, TypeOK, Header
<1>2. y \in Nat /\ (y # x => d.seq = x /\ y = d.seq + d.len + Hdr)
  BY AdvanceEffect
<1> HIDE DEF y, n
<1>3. CASE y = x
  BY <1>2, <1>3 DEF Covers, y, n
<1>4. CASE y # x /\ d.flag = "DATA"
  <2> DEFINE m == d.msg
  <2>1. m \in 1..n /\ d.seq = sent[p][m].seq /\ d.len = sent[p][m].len
    BY <1>4 DEF Genuine, n
  <2>2. y = EndOf(sent[p], m) /\ x = EndOf(sent[p], m - 1)
    BY <1>1, <1>2, <1>4, <2>1
  <2>3. m \in 0..n /\ m - 1 \in 0..n
    BY <1>1, <2>1
  <2>4. y <= ctl[p].seq
    BY <1>1, <2>2, <2>3
  <2>5. Filled(p, m - 1) \subseteq ToSet(delivered[Other(p)])
    <3>1. EndOf(sent[p], m - 1) <= x
      BY <2>2
    <3> QED BY <2>3, <3>1 DEF Covers, n
  <2>6. Filled(p, m) \subseteq got
    BY <1>1, <1>4, <2>1, <2>5 DEF Filled
  <2>7. ASSUME NEW k \in 0..n, EndOf(sent[p], k) <= y
        PROVE  Filled(p, k) \subseteq got
    <3>1. k <= m
      <4>1. m < k => y + Hdr <= EndOf(sent[p], k)
        BY <1>1, <2>2, <2>3
      <4> QED BY <1>1, <1>2, <2>3, <2>7, <4>1, HdrType
    <3>2. Filled(p, k) \subseteq Filled(p, m)
      BY <1>1, <2>3, <3>1 DEF Filled
    <3> QED BY <2>6, <3>2
  <2>8. y <= ctl[p].seq + Hdr
    BY <1>1, <1>2, <2>4, HdrType
  <2> QED BY <1>2, <2>7, <2>8 DEF y, n
<1>5. CASE y # x /\ d.flag # "DATA"
  <2>1. d.len = 0 /\ d.seq \in Nat
    BY <1>5 DEF Genuine, Datagram
  <2>2. y = d.seq + Hdr
    BY <1>2, <1>5, <2>1
  <2>3. \E j \in 0..n : \/ d.seq = EndOf(sent[p], j)
                      \/ (d.seq = EndOf(sent[p], j) + Hdr /\ j = n)
    <3>1. CASE \E k \in 0..n : d.seq = EndOf(sent[p], k)
      BY <3>1
    <3>2. CASE finished[p] /\ d.seq = ctl[p].seq
      <4>1. ctl[p].seq = EndOf(sent[p], n) + Hdr
        BY <3>2 DEF IInv, SeqAtEnd, n
      <4>2. n \in 0..n
        BY <1>1
      <4> QED BY <3>2, <4>1, <4>2
    <3> QED BY <1>5, <3>1, <3>2 DEF Genuine, n
  <2>4. d.seq <= ctl[p].seq
    BY <1>1, <1>5 DEF Genuine, n
  <2>5. y <= ctl[p].seq + Hdr
    BY <1>1, <2>1, <2>2, <2>4, HdrType
  <2>6. ASSUME NEW k \in 0..n, EndOf(sent[p], k) <= y
        PROVE  Filled(p, k) \subseteq got
    <3>1. PICK j \in 0..n : \/ d.seq = EndOf(sent[p], j)
                            \/ (d.seq = EndOf(sent[p], j) + Hdr /\ j = n)
      BY <2>3
    <3>2. EndOf(sent[p], j) <= x /\ EndOf(sent[p], j) \in Nat
      BY <1>1, <1>2, <1>5, <3>1, HdrType
    <3>3. Filled(p, j) \subseteq got
      BY <3>2 DEF Covers, n
    <3>4. CASE k <= j
      <4>1. Filled(p, k) \subseteq Filled(p, j)
        BY <1>1, <3>4 DEF Filled
      <4> QED BY <3>3, <4>1
    <3>5. CASE k > j
      <4>1. j \in 0..n /\ k \in 1..n /\ j # n /\ j + 1 \in 1..n /\ j + 1 \in 0..n
        BY <1>1, <3>5
      <4>2. d.seq = EndOf(sent[p], j)
        BY <3>1, <4>1
      <4>3. EndOf(sent[p], k) <= EndOf(sent[p], j) + Hdr
        BY <2>2, <2>6, <4>2
      <4>4. EndOf(sent[p], j + 1) = EndOf(sent[p], j) + sent[p][j + 1].len + Hdr
        <5>1. sent[p][j + 1].seq = EndOf(sent[p], (j + 1) - 1)
          BY <1>1, <4>1
        <5>2. (j + 1) - 1 = j
          BY <1>1
        <5> QED BY <1>1, <4>1, <5>1, <5>2
      <4>5. sent[p][j + 1].len \in Nat /\ EndOf(sent[p], k) \in Nat
        BY <1>1, <4>1
      <4>6. k = j + 1
        <5>1. j + 1 < k => EndOf(sent[p], j + 1) + Hdr <= EndOf(sent[p], k)
          BY <1>1, <4>1
        <5> QED BY <1>1, <3>2, <3>5, <4>3, <4>4, <4>5, <5>1, HdrType
      <4>7. sent[p][k].len = 0
        BY <3>2, <4>3, <4>4, <4>5, <4>6, HdrType
      <4>8. Filled(p, k) \subseteq Filled(p, j)
        BY <1>1, <4>6, <4>7 DEF Filled
      <4> QED BY <3>3, <4>8
    <3> QED BY <1>1, <3>4, <3>5
  <2> QED BY <1>2, <2>5, <2>6 DEF y, n
<1> QED BY <1>3, <1>4, <1>5

LEMMA RecvDatagramKeeps ==
    ASSUME TypeOK, IInv, NEW a \in Peers, RecvDatagram(a) PROVE IInv'
<1> DEFINE p == Other(a)
           d == Head(net[a])
           new == AckPacket(ctl'[a])
<1>1. p \in Peers /\ p # a /\ Other(p) = a /\ Peers = {a, p}
  BY OtherPeer DEF Peers
<1>2. /\ InRecv(a)
      /\ d \in Datagram /\ d \in ToSet(net[a])
      /\ ctl'[p] = ctl[p]
      /\ ctl'[a].seq = ctl[a].seq
      /\ ctl'[a].ack = Advance(ctl[a].ack, d)
      /\ UNCHANGED <<sent, acked, finished>>
      /\ OnlyAdds(p, new)
      /\ KeepsCalls
      /\ delivered' = IF d.flag = "DATA" /\ ~SeenFin(a, d)
                      THEN [delivered EXCEPT ![a] = Append(@, d.msg)]
                      ELSE delivered
  BY <1>1, RecvDatagramEffect
<1>3. /\ new.flag = "ACK" /\ new.len = 0
      /\ new.seq = ctl[a].seq /\ new.ack = ctl'[a].ack
  BY <1>2 DEF AckPacket
<1> HIDE DEF new, d
<1>4. \A q \in Peers : ctl[q].ack \in Nat /\ ctl[q].seq \in Nat
  BY DEF TypeOK, Header
<1>5. /\ ctl[a].ack <= ctl[p].seq + Hdr
      /\ Covers(p, ctl[a].ack)
      /\ Genuine(p, d)
  <2>1. Covers(p, ctl[Other(p)].ack) /\ ctl[Other(p)].ack <= ctl[p].seq + Hdr
    BY <1>1 DEF IInv, AckAheadByAtMostAHeader, AcksCover
  <2>2. d \in ToSet(net[Other(p)])
    BY <1>1, <1>2
  <2>3. Genuine(p, d)
    BY <1>1, <2>2 DEF IInv, DatagramsGenuine
  <2> QED BY <1>1, <2>1, <2>3
<1> HIDE DEF p
<1>6. /\ ctl'[a].ack \in Nat /\ ctl'[a].ack >= ctl[a].ack
      /\ ctl'[a].ack <= ctl[p].seq + Hdr
      /\ \A k \in 0..Len(sent[p]) : EndOf(sent[p], k) <= ctl'[a].ack =>
            Filled(p, k) \subseteq ToSet(delivered[a])
                             \cup (IF d.flag = "DATA" THEN {d.msg} ELSE {})
  <2>1. Advance(ctl[a].ack, d) >= ctl[a].ack
    BY <1>2, <1>4, AdvanceEffect
  <2> QED BY <1>1, <1>2, <1>4, <1>5, <2>1, AdvanceCovers
<1>7. /\ delivered'[p] = delivered[p]
      /\ ToSet(delivered'[a]) = ToSet(delivered[a])
                          \cup (IF d.flag = "DATA" THEN {d.msg} ELSE {})
  <2>1. delivered[a] \in Seq(Nat) /\ d.msg \in Nat
    BY <1>2 DEF TypeOK, Datagram
  <2>2. ToSet(Append(delivered[a], d.msg)) = ToSet(delivered[a]) \cup {d.msg}
    BY <2>1, ToSetOfAppend
  <2>3. d.flag = "DATA" => ~SeenFin(a, d)
    BY <1>2 DEF IInv, NoFinPending, SeenFin
  <2>4. CASE d.flag = "DATA"
    BY <1>1, <1>2, <2>2, <2>3, <2>4 DEF TypeOK
  <2>5. CASE d.flag # "DATA"
    BY <1>2, <2>5
  <2> QED BY <2>4, <2>5
<1>8. \A q \in Peers : ToSet(delivered[q]) \subseteq ToSet(delivered'[q])
  BY <1>1, <1>7
<1>9. \A q \in Peers : \A e \in ToSet(net'[q]) :
         e \in ToSet(net[q]) \/ (q = p /\ e = new)
  BY <1>2 DEF OnlyAdds
<1>10. /\ SentContiguous' /\ SeqAtEnd'
       /\ \A q \in Peers : \A e : Genuine(q, e) => Genuine(q, e)'
  <2>1. \A q \in Peers : ctl'[q].seq = ctl[q].seq
    BY <1>1, <1>2
  <2> QED BY <1>2, <2>1, SameHistory DEF IInv
<1>11. Genuine(a, new)
  <2>1. /\ Len(sent[a]) \in 0..Len(sent[a])
        /\ EndOf(sent[a], Len(sent[a])) \in Nat
    BY EndFacts DEF IInv
  <2>2. CASE finished[a]
    BY <1>3, <2>2 DEF Genuine
  <2>3. CASE ~finished[a]
    <3>1. ctl[a].seq = EndOf(sent[a], Len(sent[a])) + 0
      BY <2>3 DEF IInv, SeqAtEnd
    <3>2. new.seq = EndOf(sent[a], Len(sent[a]))
      BY <1>3, <2>1, <3>1
    <3> QED BY <1>3, <2>1, <3>2 DEF Genuine
  <2> QED BY <2>2, <2>3
<1>12. DatagramsGenuine'
  <2>1. ASSUME NEW q \in Peers, NEW e \in ToSet(net'[Other(q)])
        PROVE  Genuine(q, e)'
    <3>1. Genuine(q, e)
      <4>1. CASE e \in ToSet(net[Other(q)])
        BY <4>1 DEF IInv, DatagramsGenuine
      <4>2. CASE Other(q) = p /\ e = new
        BY <1>1, <1>11, <4>2, OtherPeer
      <4> QED BY <1>9, <2>1, <4>1, <4>2, OtherPeer
    <3> QED BY <1>10, <3>1
  <2>2. ASSUME NEW q \in Peers, InSend(q)'
        PROVE  Genuine(q, call[q].pkt)'
    <3>1. Genuine(q, call[q].pkt) /\ call'[q].pkt = call[q].pkt
      BY <1>2, <2>2 DEF IInv, DatagramsGenuine, KeepsCalls
    <3>2. \A e : e = call[q].pkt => Genuine(q, e)'
      BY <1>10, <3>1
    <3> QED BY <3>1, <3>2 DEF Genuine
  <2> QED BY <2>1, <2>2 DEF DatagramsGenuine
<1>13. PendingIsLast'
  BY <1>2 DEF PendingIsLast, IInv, KeepsCalls
<1>14. AcksTrail'
  <2>1. ASSUME NEW q \in Peers, NEW e \in ToSet(net'[q]), e.flag = "ACK"
        PROVE  e.ack <= ctl'[Other(q)].ack
    <3>1. CASE e \in ToSet(net[q])
      <4>1. e.ack <= ctl[Other(q)].ack /\ e.ack \in Nat
        BY <2>1, <3>1, InNet DEF IInv, AcksTrail, Datagram
      <4>2. /\ ctl'[Other(q)].ack \in Nat
            /\ ctl'[Other(q)].ack >= ctl[Other(q)].ack
        BY <1>1, <1>2, <1>4, <1>6, OtherPeer
      <4>3. ctl[Other(q)].ack \in Nat
        BY <1>4, OtherPeer
      <4> QED BY <4>1, <4>2, <4>3
    <3>2. CASE q = p /\ e = new
      BY <1>1, <1>3, <1>6, <3>2
    <3> QED BY <1>9, <2>1, <3>1, <3>2
  <2> QED BY <2>1 DEF AcksTrail
<1>15. AckAheadByAtMostAHeader'
  <2>1. ctl'[Other(p)].ack <= ctl'[p].seq + Hdr
    BY <1>1, <1>2, <1>6
  <2>2. ctl'[Other(a)].ack <= ctl'[a].seq + Hdr
    <3>1. ctl[Other(a)].ack <= ctl[a].seq + Hdr
      BY DEF IInv, AckAheadByAtMostAHeader
    <3> QED BY <1>2, <3>1 DEF p
  <2> QED BY <1>1, <2>1, <2>2 DEF AckAheadByAtMostAHeader
<1>16. \A q \in Peers : \A x : Covers(q, x) => Covers(q, x)'
  BY <1>2, <1>8, OtherPeer DEF Covers, Filled
<1>17. \A x : x = ctl'[a].ack => Covers(p, x)'
  BY <1>1, <1>2, <1>6, <1>7 DEF Covers, Filled
<1>18. AcksCover'
  <2>1. Covers(p, ctl[Other(p)].ack)'
    <3>1. \A x : x = ctl'[Other(p)].ack => Covers(p, x)'
      BY <1>1, <1>17
    <3> QED BY <3>1 DEF Covers
  <2>2. Covers(a, ctl[Other(a)].ack)'
    <3>1. ctl'[Other(a)].ack = ctl[Other(a)].ack
      BY <1>2 DEF p
    <3>2. \A x : x = ctl[Other(a)].ack => Covers(a, x)'
      BY <1>16 DEF IInv, AcksCover
    <3> QED BY <3>1, <3>2 DEF Covers
  <2> DEFINE C(q) == Covers(q, ctl[Other(q)].ack)'
  <2>3. \A q \in Peers : C(q)
    <3>1. C(a) /\ C(p)
      BY <2>1, <2>2
    <3> HIDE DEF C
    <3> QED BY <1>1, <3>1
  <2> QED BY <2>3 DEF AcksCover
<1>19. NoFinPending'
  BY <1>2 DEF NoFinPending, IInv, KeepsCalls
<1>20. AckIsCumulative'
  <2>1. ASSUME NEW q \in Peers, NEW k \in acked'[q]
        PROVE  Filled(q, k)' \subseteq ToSet(delivered'[Other(q)])
    <3>1. Filled(q, k) \subseteq ToSet(delivered[Other(q)])
      BY <1>2, <2>1 DEF IInv, AckIsCumulative
    <3>2. Filled(q, k)' = Filled(q, k)
      BY <1>2 DEF Filled
    <3> QED BY <1>8, <3>1, <3>2, OtherPeer
  <2> QED BY <2>1 DEF AckIsCumulative
<1>21. AckedWereSent'
  BY <1>2 DEF AckedWereSent, IInv
<1> QED BY <1>10, <1>12, <1>13, <1>14, <1>15, <1>18, <1>19, <1>20, <1>21 DEF IInv

-----------------------------------------------------------------------------
(* The invariant holds of every behaviour.                                  *)

LEMMA IInvInit == Init => IInv
<1> SUFFICES ASSUME Init PROVE IInv
  OBVIOUS
<1>1. /\ \A p \in Peers : /\ ctl[p].seq = Hdr /\ ctl[p].ack = Hdr
                          /\ net[p] = <<>> /\ sent[p] = <<>>
                          /\ delivered[p] = <<>> /\ acked[p] = {}
                          /\ call[p].op = "idle" /\ ~finished[p]
      /\ \A p \in Peers : Other(p) \in Peers
  BY OtherPeer DEF Init, Idle
<1>2. Len(<<>>) = 0 /\ ToSet(<<>>) = {} /\ 1..0 = {} /\ 0..0 = {0}
  BY EmptySeq DEF ToSet
<1>3. \A p \in Peers : /\ EndOf(sent[p], 0) = Hdr
                      /\ ToSet(net[p]) = {} /\ Len(sent[p]) = 0
                      /\ ~InSend(p) /\ ~InRecv(p)
  BY <1>1, <1>2 DEF EndOf, InSend, InRecv
<1>4. /\ SentContiguous /\ NoFinPending /\ PendingIsLast /\ AckIsCumulative
      /\ AckedWereSent
  BY <1>1, <1>2, <1>3
     DEF SentContiguous, NoFinPending, PendingIsLast, AckIsCumulative, AckedWereSent
<1>5. SeqAtEnd
  BY <1>1, <1>3, HdrType DEF SeqAtEnd
<1>6. DatagramsGenuine /\ AcksTrail
  BY <1>1, <1>3 DEF DatagramsGenuine, AcksTrail
<1>7. AckAheadByAtMostAHeader
  BY <1>1, HdrType DEF AckAheadByAtMostAHeader
<1>8. AcksCover
  BY <1>1, <1>2, <1>3 DEF AcksCover, Covers, Filled
<1> QED BY <1>4, <1>5, <1>6, <1>7, <1>8 DEF IInv

LEMMA IInvStep ==
    ASSUME "ackfail" \notin FaultKinds, TypeOK, IInv, [Next]_vars
    PROVE  IInv'
<1>1. CASE Next
  <2>1. PICK a \in Peers : Quiet \/ Loud(a)
    BY <1>1, StepKinds DEF Next
  <2>2. ~RecvAckFails(a)
    BY DEF RecvAckFails, Fault
  <2> QED BY <2>1, <2>2, QuietKeeps, SendCallKeeps, CloseCallKeeps,
             TransmitKeeps, AnswerKeeps, RecvDatagramKeeps DEF Loud
<1>2. CASE UNCHANGED vars
  BY <1>2, UnchangedIsQuiet, QuietKeeps
<1> QED BY <1>1, <1>2

\* The numbers, the datagrams in flight and the acknowledgements of rudp_send
\* and rudp_recv fit together in every behaviour in which the sendto of an
\* acknowledgement does not fail.
THEOREM IInvAlways ==
    ASSUME "ackfail" \notin FaultKinds PROVE Spec => []IInv
<1>1. TypeOK /\ IInv /\ [Next]_vars => IInv'
  BY IInvStep
<1> QED BY <1>1, IInvInit, TypeCorrect, PTL DEF Spec

\* A successful rudp_send vouches for its message and for every earlier one
\* that has a payload, the ones whose own rudp_send failed included: whatever
\* is lost, duplicated, reordered or interrupted, for any lengths, header size
\* and number of tries.
THEOREM AckCumulative ==
    ASSUME "ackfail" \notin FaultKinds PROVE Spec => []AckIsCumulative
<1>1. IInv => AckIsCumulative
  BY DEF IInv
<1> QED BY <1>1, IInvAlways, PTL

\* A receiver that counted control packets as data is ahead of the sender by
\* one header at the most.
THEOREM AckAhead ==
    ASSUME "ackfail" \notin FaultKinds PROVE Spec => []AckAheadByAtMostAHeader
<1>1. IInv => AckAheadByAtMostAHeader
  BY DEF IInv
<1> QED BY <1>1, IInvAlways, PTL

-----------------------------------------------------------------------------
(* Rudp implements AckChannel.                                              *)

LEMMA ChannelInit == Init => Channel!Init
<1> SUFFICES ASSUME Init PROVE Channel!Init
  OBVIOUS
<1>1. \A p \in Peers : [k \in DOMAIN sent[p] |-> sent[p][k].len] = <<>>
  BY DEF Init
<1> QED BY <1>1 DEF Init, Channel!Init, Channel!Peers, Peers

LEMMA ChannelPeers ==
    Channel!Peers = Peers /\ \A p \in Peers : Channel!Other(p) = Other(p)
  BY DEF Channel!Peers, Channel!Other, Peers, Other

\* The lengths of a sequence of messages.
LEMMA LengthsOf ==
    ASSUME NEW s \in Seq([seq : Nat, len : Nat])
    PROVE  LET l == [k \in DOMAIN s |-> s[k].len]
           IN  /\ l \in Seq(Nat) /\ Len(l) = Len(s)
               /\ \A k \in 1..Len(s) : l[k] = s[k].len
<1> DEFINE l == [k \in DOMAIN s |-> s[k].len]
<1>1. DOMAIN s = 1..Len(s) /\ Len(s) \in Nat
  BY LenProperties
<1>2. \A k \in 1..Len(s) : s[k].len \in Nat
  <2>1. \A k \in 1..Len(s) : s[k] \in [seq : Nat, len : Nat]
    BY ElementOfSeq
  <2> QED BY <2>1
<1>3. l = [k \in 1..Len(s) |-> s[k].len]
  BY <1>1
<1>4. l \in Seq(Nat)
  BY <1>1, <1>2, <1>3, IsASeq
<1>5. Len(l) = Len(s)
  BY <1>1, <1>3, <1>4, LenProperties
<1> QED BY <1>1, <1>4, <1>5

\* A message more is a length more.
LEMMA LengthAppended ==
    ASSUME NEW s \in Seq([seq : Nat, len : Nat]),
           NEW m \in [seq : Nat, len : Nat]
    PROVE  [k \in DOMAIN Append(s, m) |-> Append(s, m)[k].len]
             = Append([k \in DOMAIN s |-> s[k].len], m.len)
<1> DEFINE t == Append(s, m)
           l == [k \in DOMAIN s |-> s[k].len]
           lt == [k \in DOMAIN t |-> t[k].len]
           la == Append(l, m.len)
<1>1. /\ t \in Seq([seq : Nat, len : Nat]) /\ Len(t) = Len(s) + 1
      /\ \A k \in 1..Len(s) : t[k] = s[k]
      /\ t[Len(s) + 1] = m
      /\ Len(s) \in Nat
  BY AppendProperties, LenProperties
<1>2. l \in Seq(Nat) /\ Len(l) = Len(s) /\ \A k \in 1..Len(s) : l[k] = s[k].len
  BY LengthsOf
<1> HIDE DEF t
<1>3. lt \in Seq(Nat) /\ Len(lt) = Len(t) /\ \A k \in 1..Len(t) : lt[k] = t[k].len
  BY <1>1, LengthsOf
<1>4. m.len \in Nat
  OBVIOUS
<1> HIDE DEF l, lt
<1>5. /\ la \in Seq(Nat) /\ Len(la) = Len(l) + 1
      /\ \A k \in 1..Len(l) : la[k] = l[k]
      /\ la[Len(l) + 1] = m.len
  BY <1>2, <1>4, AppendProperties
<1> HIDE DEF la
<1>6. \A k \in 1..Len(lt) : lt[k] = la[k]
  <2> SUFFICES ASSUME NEW k \in 1..Len(lt) PROVE lt[k] = la[k]
    OBVIOUS
  <2>1. CASE k \in 1..Len(s)
    <3>1. lt[k] = t[k].len /\ t[k] = s[k]
      BY <1>1, <1>3, <2>1
    <3>2. la[k] = l[k] /\ l[k] = s[k].len
      BY <1>2, <1>5, <2>1
    <3> QED BY <3>1, <3>2
  <2>2. CASE k = Len(s) + 1
    BY <1>1, <1>2, <1>3, <1>5, <2>2
  <2> QED BY <1>1, <1>3, <2>1, <2>2
<1>7. Len(lt) = Len(la)
  BY <1>1, <1>2, <1>3, <1>5
<1>8. lt = la
  BY <1>3, <1>5, <1>6, <1>7, SeqEqual
<1> QED BY <1>8 DEF lt, la, l, t

\* rudp_send hands a message over.
LEMMA SendIsSend ==
    ASSUME TypeOK, NEW a \in Peers, SendCall(a) PROVE Channel!Send(a)
<1> DEFINE l == [p \in Peers |-> [k \in DOMAIN sent[p] |-> sent[p][k].len]]
<1>1. PICK len \in Lengths :
        sent' = [sent EXCEPT
                   ![a] = Append(@, [seq |-> ctl[a].seq, len |-> len])]
  BY DEF SendCall
<1> DEFINE m == [seq |-> ctl[a].seq, len |-> len]
<1>2. m \in [seq : Nat, len : Nat] /\ m.len = len
  BY RudpAssumption DEF TypeOK, Header
<1>3. /\ sent[a] \in Seq([seq : Nat, len : Nat])
      /\ sent'[a] = Append(sent[a], m)
      /\ \A p \in Peers : p # a => sent'[p] = sent[p]
  BY <1>1 DEF TypeOK
<1> HIDE DEF m
<1>4. [k \in DOMAIN sent'[a] |-> sent'[a][k].len]
        = Append([k \in DOMAIN sent[a] |-> sent[a][k].len], len)
  BY <1>2, <1>3, LengthAppended
<1>5. l' = [l EXCEPT ![a] = Append(@, len)]
  BY <1>3, <1>4
<1>6. UNCHANGED <<delivered, acked>>
  BY DEF SendCall
<1> QED BY <1>5, <1>6 DEF Channel!Send

\* rudp_recv hands one out, if it is data.
LEMMA RecvIsDeliver ==
    ASSUME TypeOK, IInv, NEW a \in Peers, RecvDatagram(a)
    PROVE  Channel!Deliver(a) \/ UNCHANGED Channel!vars
<1> DEFINE d == Head(net[a])
           l == [p \in Peers |-> [k \in DOMAIN sent[p] |-> sent[p][k].len]]
<1>1. /\ d \in ToSet(net[a])
      /\ UNCHANGED <<sent, acked>>
      /\ delivered' = IF d.flag = "DATA" /\ ~SeenFin(a, d)
                      THEN [delivered EXCEPT ![a] = Append(@, d.msg)]
                      ELSE delivered
  BY RecvDatagramEffect
<1> HIDE DEF d
<1>2. l' = l
  BY <1>1
<1>3. CASE d.flag = "DATA" /\ ~SeenFin(a, d)
  <2>1. Genuine(Other(a), d)
    BY <1>1, OtherPeer DEF IInv, DatagramsGenuine
  <2>2. d.msg \in 1..Len(sent[Other(a)]) /\ Other(a) \in Peers
    BY <1>3, <2>1, OtherPeer DEF Genuine
  <2>3. Len(l[Other(a)]) = Len(sent[Other(a)])
    BY <2>2, LengthsOf DEF TypeOK
  <2>4. d.msg \in 1..Len(l[Channel!Other(a)])
    BY <2>2, <2>3, ChannelPeers
  <2>5. delivered' = [delivered EXCEPT ![a] = Append(@, d.msg)]
    BY <1>1, <1>3
  <2> QED BY <1>1, <1>2, <2>4, <2>5 DEF Channel!Deliver
<1>4. CASE ~(d.flag = "DATA" /\ ~SeenFin(a, d))
  BY <1>1, <1>2, <1>4 DEF Channel!vars
<1> QED BY <1>3, <1>4

\* A rudp_send that succeeds has the right to.
LEMMA AnswerIsAcknowledge ==
    ASSUME TypeOK, IInv, IInv', NEW a \in Peers,
           Answer(a), Answers(a, Head(net[a]))
    PROVE  Channel!Acknowledge(a) \/ UNCHANGED Channel!vars
<1> DEFINE k == call[a].pkt.msg
           l == [p \in Peers |-> [i \in DOMAIN sent[p] |-> sent[p][i].len]]
<1>1. /\ InSend(a) /\ UNCHANGED <<sent, delivered>>
      /\ acked' = IF call[a].op = "send"
                  THEN [acked EXCEPT ![a] = @ \cup {k}]
                  ELSE acked
  BY AnswerEffect
<1>2. l' = l
  BY <1>1
<1>3. CASE call[a].op = "send"
  <2>1. Genuine(a, call[a].pkt) /\ call[a].pkt.flag = "DATA"
    BY <1>1, <1>3 DEF IInv, DatagramsGenuine, PendingIsLast
  <2>2. k \in 1..Len(sent[a])
    BY <2>1 DEF Genuine
  <2>3. k \in acked'[a]
    BY <1>1, <1>3 DEF TypeOK
  <2> HIDE DEF k
  <2>4. Len(l[a]) = Len(sent[a]) /\ \A j \in 1..Len(sent[a]) : l[a][j] = sent[a][j].len
    BY LengthsOf DEF TypeOK
  <2>5. Len(sent[a]) \in Nat
    BY LenProperties DEF TypeOK
  <2> HIDE DEF l
  <2>6. {j \in 1..k : l[a][j] > 0} \subseteq Filled(a, k)
    BY <2>2, <2>4, <2>5 DEF Filled
  <2>7. Filled(a, k) \subseteq Channel!ToSet(delivered[Channel!Other(a)])
    <3>1. \A i \in acked'[a] : Filled(a, i) \subseteq ToSet(delivered'[Other(a)])
      BY <1>1 DEF IInv, AckIsCumulative, Filled
    <3>2. Filled(a, k) \subseteq ToSet(delivered[Other(a)])
      BY <1>1, <2>3, <3>1
    <3> QED BY <3>2, ChannelPeers DEF ToSet, Channel!ToSet
  <2>8. acked' = [acked EXCEPT ![a] = @ \cup {k}]
    BY <1>1, <1>3 DEF k
  <2>9. \E i \in 1..Len(l[a]) :
          /\ {j \in 1..i : l[a][j] > 0}
                \subseteq Channel!ToSet(delivered[Channel!Other(a)])
          /\ acked' = [acked EXCEPT ![a] = @ \cup {i}]
    BY <2>2, <2>4, <2>6, <2>7, <2>8
  <2>10. UNCHANGED <<l, delivered>>
    BY <1>1, <1>2
  <2> QED BY <2>9, <2>10 DEF Channel!Acknowledge, l
<1>4. CASE call[a].op # "send"
  BY <1>1, <1>2, <1>4 DEF Channel!vars
<1> QED BY <1>3, <1>4

LEMMA ChannelStep ==
    ASSUME "ackfail" \notin FaultKinds, TypeOK, IInv, IInv', [Next]_vars
    PROVE  [Channel!Next]_Channel!vars
<1>1. ASSUME UNCHANGED <<sent, delivered, acked>>
      PROVE  UNCHANGED Channel!vars
  BY <1>1 DEF Channel!vars
<1>2. CASE Next
  <2>1. PICK a \in Peers : Quiet \/ Loud(a)
    BY <1>2, StepKinds DEF Next
  <2>2. \/ Channel!Send(a) \/ Channel!Deliver(a) \/ Channel!Acknowledge(a)
        \/ UNCHANGED Channel!vars
    <3>1. CASE Quiet \/ CloseCall(a) \/ Transmit(a)
      BY <1>1, <3>1 DEF Quiet, CloseCall, Transmit, history
    <3>2. CASE SendCall(a)
      BY <3>2, SendIsSend
    <3>3. CASE RecvDatagram(a)
      BY <3>3, RecvIsDeliver
    <3>4. CASE Answer(a) /\ Answers(a, Head(net[a]))
      BY <3>4, AnswerIsAcknowledge
    <3>5. ~RecvAckFails(a)
      BY DEF RecvAckFails, Fault
    <3> QED BY <2>1, <3>1, <3>2, <3>3, <3>4, <3>5 DEF Loud
  <2> QED BY <2>2, ChannelPeers DEF Channel!Next
<1>3. CASE UNCHANGED vars
  BY <1>1, <1>3 DEF vars
<1> QED BY <1>2, <1>3

\* rudp.c is an acknowledged channel: its steps, seen through the messages
\* handed over, handed out and acknowledged, are steps of AckChannel.
THEOREM Refinement ==
    ASSUME "ackfail" \notin FaultKinds PROVE Spec => ImplementsChannel
<1>1. TypeOK /\ IInv /\ IInv' /\ [Next]_vars => [Channel!Next]_Channel!vars
  BY ChannelStep
<1> QED BY <1>1, ChannelInit, TypeCorrect, IInvAlways, PTL
        DEF Spec, ImplementsChannel, Channel!Spec
=============================================================================
