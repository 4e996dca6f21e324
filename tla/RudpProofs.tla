----------------------------- MODULE RudpProofs -----------------------------
(* Proofs about Rudp, for every value of its constants.                     *)
EXTENDS Rudp, SequenceTheorems, FunctionTheorems, FiniteSetTheorems, TLAPS

-----------------------------------------------------------------------------
(* Sequences, as queues of datagrams and as histories.                      *)

LEMMA ToSetOfAppend ==
    ASSUME NEW T, NEW s \in Seq(T), NEW x \in T
    PROVE  /\ Append(s, x) \in Seq(T)
           /\ ToSet(Append(s, x)) = ToSet(s) \cup {x}
  BY AppendProperties DEF ToSet

LEMMA ToSetOfTail ==
    ASSUME NEW T, NEW s \in Seq(T), s # <<>>
    PROVE  /\ Head(s) \in T
           /\ Head(s) \in ToSet(s)
           /\ Tail(s) \in Seq(T)
           /\ ToSet(Tail(s)) \subseteq ToSet(s)
<1>1. Len(s) \in Nat /\ Len(s) > 0 /\ DOMAIN s = 1..Len(s)
  BY EmptySeq, LenProperties
<1>2. Head(s) = s[1] /\ s[1] \in T
  BY <1>1, ElementOfSeq
<1>3. /\ Tail(s) \in Seq(T)
      /\ Len(Tail(s)) = Len(s) - 1
      /\ \A i \in 1..Len(Tail(s)) : Tail(s)[i] = s[i + 1]
  BY <1>1
<1>4. DOMAIN Tail(s) = 1..(Len(s) - 1)
  BY <1>3, LenProperties
<1> QED BY <1>1, <1>2, <1>3, <1>4 DEF ToSet

LEMMA ToSetOfRemoveAt ==
    ASSUME NEW T, NEW s \in Seq(T), NEW i \in DOMAIN s
    PROVE  /\ RemoveAt(s, i) \in Seq(T)
           /\ ToSet(RemoveAt(s, i)) \subseteq ToSet(s)
<1>1. Len(s) \in Nat /\ DOMAIN s = 1..Len(s)
  BY LenProperties
<1> DEFINE a == SubSeq(s, 1, i - 1)
           b == SubSeq(s, i + 1, Len(s))
<1>2. /\ a \in Seq(T) /\ Len(a) = i - 1
      /\ \A j \in 1..(i - 1) : a[j] = s[j]
  BY <1>1, SubSeqProperties
<1>3. /\ b \in Seq(T) /\ Len(b) = Len(s) - i
      /\ \A j \in 1..(Len(s) - i) : b[j] = s[i + j]
  BY <1>1, SubSeqProperties
<1> HIDE DEF a, b
<1>4. /\ a \o b \in Seq(T)
      /\ Len(a \o b) = Len(a) + Len(b)
      /\ \A j \in 1..(Len(a) + Len(b)) :
            (a \o b)[j] = IF j <= Len(a) THEN a[j] ELSE b[j - Len(a)]
  BY <1>2, <1>3, ConcatProperties, Zenon
<1>5. ASSUME NEW j \in 1..Len(a \o b)
      PROVE  (a \o b)[j] \in ToSet(s)
  <2>1. i \in 1..Len(s) /\ j \in 1..(i - 1 + Len(s) - i)
    BY <1>1, <1>2, <1>3, <1>4, <1>5
  <2>2. CASE j <= i - 1
    <3>1. (a \o b)[j] = a[j] /\ a[j] = s[j]
      BY <1>1, <1>2, <1>3, <1>4, <2>1, <2>2
    <3> QED BY <1>1, <2>1, <2>2, <3>1 DEF ToSet
  <2>3. CASE ~(j <= i - 1)
    <3>1. (a \o b)[j] = b[j - (i - 1)] /\ j - (i - 1) \in 1..(Len(s) - i)
      BY <1>1, <1>2, <1>3, <1>4, <2>1, <2>3
    <3>2. b[j - (i - 1)] = s[j + 1] /\ j + 1 \in 1..Len(s)
      BY <1>1, <1>3, <2>1, <3>1
    <3> QED BY <1>1, <3>1, <3>2 DEF ToSet
  <2> QED BY <2>2, <2>3
<1>6. DOMAIN (a \o b) = 1..Len(a \o b)
  BY <1>4, LenProperties
<1>7. RemoveAt(s, i) = a \o b
  BY DEF RemoveAt, a, b
<1> QED BY <1>4, <1>5, <1>6, <1>7 DEF ToSet

LEMMA ElementsInToSet ==
    ASSUME NEW T, NEW s \in Seq(T), NEW i \in DOMAIN s
    PROVE  s[i] \in T /\ s[i] \in ToSet(s)
  BY ElementOfSeq, LenProperties DEF ToSet

-----------------------------------------------------------------------------
(* Peers, datagrams and calls.                                              *)

LEMMA OtherPeer ==
    ASSUME NEW p \in Peers
    PROVE  Other(p) \in Peers /\ Other(p) # p /\ Other(Other(p)) = p
  BY DEF Other, Peers

LEMMA PacketTypes ==
    ASSUME TypeOK, NEW p \in Peers
    PROVE  /\ \A len \in Nat : DataPacket(p, len) \in Datagram
           /\ FinPacket(p) \in Datagram
           /\ \A c \in Header : AckPacket(c) \in Datagram
<1>1. ctl[p] \in Header /\ Len(sent[p]) \in Nat
  BY LenProperties DEF TypeOK
<1> QED BY <1>1 DEF DataPacket, FinPacket, AckPacket, Datagram, Header

\* What Put does to the queues, whether or not the socket is still there.
LEMMA PutEffect ==
    ASSUME NEW n \in [Peers -> Seq(Datagram)], NEW q \in Peers,
           NEW d \in Datagram
    PROVE  /\ Put(n, q, d) \in [Peers -> Seq(Datagram)]
           /\ ToSet(Put(n, q, d)[q]) \subseteq ToSet(n[q]) \cup {d}
           /\ \A r \in Peers : r # q => Put(n, q, d)[r] = n[r]
<1>1. /\ Append(n[q], d) \in Seq(Datagram)
      /\ ToSet(Append(n[q], d)) = ToSet(n[q]) \cup {d}
  BY ToSetOfAppend
<1> QED BY <1>1 DEF Put

LEMMA AdvanceType ==
    ASSUME NEW a \in Nat, NEW d \in Datagram
    PROVE  Advance(a, d) \in Nat
  BY RudpAssumption DEF Advance, Datagram

\* The call of a peer inside rudp_send or rudp_close, or inside rudp_recv.
LEMMA CallTypes ==
    ASSUME TypeOK, NEW p \in Peers
    PROVE  /\ call[p] \in CallState
           /\ InSend(p) =>
                call[p] \in [op : {"send", "close"}, at : {"sendto", "recvfrom"},
                             i : 0..(N_ATTEMPT - 1), pkt : Datagram,
                             saved : Timeout]
           /\ InRecv(p) =>
                call[p] \in [op : {"recv"}, i : 0..(N_ATTEMPT - 1),
                             fin : BOOLEAN]
  BY DEF TypeOK, CallState, InSend, InRecv

LEMMA CallsBuilt ==
    /\ Idle \in CallState
    /\ [op |-> "closed"] \in CallState
    /\ Receiving \in CallState
    /\ \A o \in {"send", "close"}, d \in Datagram, t \in Timeout :
          Sending(o, d, t) \in CallState
  BY RudpAssumption DEF Idle, Receiving, Sending, CallState

LEMMA RetryType ==
    ASSUME TypeOK, NEW p \in Peers, InSend(p), Retry(p)
    PROVE  call' \in [Peers -> CallState]
<1> DEFINE S == [op : {"send", "close"}, at : {"sendto", "recvfrom"},
                 i : 0..(N_ATTEMPT - 1), pkt : Datagram, saved : Timeout]
<1>1. call \in [Peers -> CallState] /\ call[p] \in S /\ S \subseteq CallState
  BY CallTypes DEF TypeOK, CallState
<1>2. CASE call[p].i + 1 < N_ATTEMPT
  <2>1. call' = [call EXCEPT
                   ![p] = [call[p] EXCEPT !.i = call[p].i + 1, !.at = "sendto"]]
    BY <1>2 DEF Retry
  <2>2. call[p].i + 1 \in 0..(N_ATTEMPT - 1)
    <3>1. call[p].i \in 0..(N_ATTEMPT - 1)
      BY <1>1
    <3> QED BY <1>2, <3>1, RudpAssumption
  <2>3. [call[p] EXCEPT !.i = call[p].i + 1, !.at = "sendto"] \in S
    BY <1>1, <2>2, Zenon
  <2> QED BY <1>1, <2>1, <2>3
<1>3. CASE ~(call[p].i + 1 < N_ATTEMPT)
  BY <1>1, <1>3, CallsBuilt DEF Retry, Fail, Return
<1> QED BY <1>2, <1>3

LEMMA RecvAgainType ==
    ASSUME TypeOK, NEW p \in Peers, InRecv(p), NEW f \in BOOLEAN,
           RecvAgain(p, f)
    PROVE  call' \in [Peers -> CallState]
<1> DEFINE S == [op : {"recv"}, i : 0..(N_ATTEMPT - 1), fin : BOOLEAN]
<1>1. call \in [Peers -> CallState] /\ call[p] \in S /\ S \subseteq CallState
  BY CallTypes DEF TypeOK, CallState
<1>2. CASE call[p].i + 1 < N_ATTEMPT
  <2>1. call' = [call EXCEPT
                   ![p] = [call[p] EXCEPT !.i = call[p].i + 1, !.fin = f]]
    BY <1>2 DEF RecvAgain
  <2>2. call[p].i + 1 \in 0..(N_ATTEMPT - 1)
    <3>1. call[p].i \in 0..(N_ATTEMPT - 1)
      BY <1>1
    <3> QED BY <1>2, <3>1, RudpAssumption
  <2>3. [call[p] EXCEPT !.i = call[p].i + 1, !.fin = f] \in S
    BY <1>1, <2>2, Zenon
  <2> QED BY <1>1, <2>1, <2>3
<1>3. CASE ~(call[p].i + 1 < N_ATTEMPT)
  BY <1>1, <1>3, CallsBuilt DEF RecvAgain, Return
<1> QED BY <1>2, <1>3

-----------------------------------------------------------------------------
(* Type correctness.                                                        *)

LEMMA TypeInit == Init => TypeOK
<1> SUFFICES ASSUME Init PROVE TypeOK
  OBVIOUS
<1>1. Idle \in CallState /\ <<>> \in Seq(Datagram) /\ <<>> \in Seq(Nat)
      /\ <<>> \in Seq([seq : Nat, len : Nat])
  BY CallsBuilt, EmptySeq
<1> QED BY <1>1, RudpAssumption DEF Init, TypeOK, Header, Timeout, Result

LEMMA BeginType ==
    ASSUME TypeOK, NEW p \in Peers, NEW o \in {"send", "close"},
           NEW d \in Datagram, Begin(p, o, d)
    PROVE  /\ ctl' \in [Peers -> Header]
           /\ call' \in [Peers -> CallState]
           /\ timeo' \in [Peers -> Timeout]
           /\ ret' \in [Peers -> Result]
<1>1. ctl[p].seq + d.len + Hdr \in Nat
  BY RudpAssumption DEF TypeOK, Header, Datagram
<1>2. ctl' = [ctl EXCEPT ![p] = [ctl[p] EXCEPT !.seq = ctl[p].seq + d.len + Hdr]]
  BY DEF Begin
<1>3. [ctl[p] EXCEPT !.seq = ctl[p].seq + d.len + Hdr] \in Header
  BY <1>1 DEF TypeOK, Header
<1>4. Sending(o, d, timeo[p]) \in CallState
  BY CallsBuilt DEF TypeOK
<1> QED BY <1>2, <1>3, <1>4 DEF Begin, TypeOK, Timeout, Result

LEMMA ApplicationType ==
    ASSUME TypeOK, NEW p \in Peers, Application(p)
    PROVE  TypeOK'
<1>1. CASE SendCall(p)
  <2>1. PICK len \in Lengths :
          /\ Begin(p, "send", DataPacket(p, len))
          /\ sent' = [sent EXCEPT
                        ![p] = Append(@, [seq |-> ctl[p].seq, len |-> len])]
    BY <1>1 DEF SendCall
  <2>2. len \in Nat /\ DataPacket(p, len) \in Datagram
    BY PacketTypes, RudpAssumption
  <2>3. [seq |-> ctl[p].seq, len |-> len] \in [seq : Nat, len : Nat]
    BY <2>2 DEF TypeOK, Header
  <2>4. sent' \in [Peers -> Seq([seq : Nat, len : Nat])]
    BY <2>1, <2>3, AppendProperties DEF TypeOK
  <2> QED BY <1>1, <2>1, <2>2, <2>4, BeginType DEF SendCall, TypeOK
<1>2. CASE CloseCall(p)
  <2>1. FinPacket(p) \in Datagram
    BY PacketTypes
  <2> QED BY <1>2, <2>1, BeginType DEF CloseCall, TypeOK
<1>3. CASE RecvCall(p)
  BY <1>3, CallsBuilt DEF RecvCall, TypeOK, Result, history
<1>4. CASE CloseSocket(p)
  <2>1. net' \in [Peers -> Seq(Datagram)]
    BY <1>4, EmptySeq DEF CloseSocket, TypeOK
  <2> QED BY <1>4, <2>1, CallsBuilt DEF CloseSocket, TypeOK, history
<1> QED BY <1>1, <1>2, <1>3, <1>4 DEF Application

LEMMA ReturnType ==
    ASSUME TypeOK, NEW p \in Peers,
           NEW r \in Result
    PROVE  /\ Return(p, r) =>
                /\ call' \in [Peers -> CallState]
                /\ ret' \in [Peers -> Result]
           /\ Fail(p, r) =>
                /\ call' \in [Peers -> CallState]
                /\ ret' \in [Peers -> Result]
                /\ failed' \in [Peers -> BOOLEAN]
<1>1. ASSUME Return(p, r)
      PROVE  call' \in [Peers -> CallState] /\ ret' \in [Peers -> Result]
  BY <1>1, CallsBuilt DEF Return, TypeOK
<1>2. ASSUME Fail(p, r)
      PROVE  failed' \in [Peers -> BOOLEAN]
  BY <1>2 DEF Fail, TypeOK
<1> QED BY <1>1, <1>2 DEF Fail

LEMMA RetryTypes ==
    ASSUME TypeOK, NEW p \in Peers, InSend(p), Retry(p)
    PROVE  /\ call' \in [Peers -> CallState]
           /\ ret' \in [Peers -> Result]
           /\ failed' \in [Peers -> BOOLEAN]
<1>1. call' \in [Peers -> CallState]
  BY RetryType
<1>2. UNCHANGED <<ret, failed>> \/ Fail(p, "exceeded")
  BY DEF Retry
<1> QED BY <1>1, <1>2, ReturnType DEF TypeOK, Result

LEMMA RecvAgainTypes ==
    ASSUME TypeOK, NEW p \in Peers, InRecv(p), NEW f \in BOOLEAN,
           RecvAgain(p, f)
    PROVE  /\ call' \in [Peers -> CallState]
           /\ ret' \in [Peers -> Result]
<1>1. call' \in [Peers -> CallState]
  BY RecvAgainType
<1>2. UNCHANGED ret \/ Return(p, "exceeded")
  BY DEF RecvAgain
<1> QED BY <1>1, <1>2, ReturnType DEF TypeOK, Result

LEMMA StepType ==
    ASSUME TypeOK, NEW p \in Peers, Step(p)
    PROVE  TypeOK'
<1>0. Other(p) \in Peers
  BY OtherPeer
<1>1. CASE Transmit(p)
  <2>1. InSend(p) /\ call[p].pkt \in Datagram
    BY <1>1, CallTypes DEF Transmit, AtSendto
  <2>2. net' \in [Peers -> Seq(Datagram)]
    BY <1>0, <1>1, <2>1, PutEffect DEF Transmit, TypeOK
  <2>3. /\ call' \in [Peers -> CallState]
        /\ ret' \in [Peers -> Result]
        /\ failed' \in [Peers -> BOOLEAN]
    <3>1. CASE errno[p] = "EAGAIN"
      BY <1>1, <3>1, ReturnType DEF Transmit, Result
    <3>2. CASE errno[p] # "EAGAIN"
      <4>1. call' = [call EXCEPT ![p] = [call[p] EXCEPT !.at = "recvfrom"]]
        BY <1>1, <3>2 DEF Transmit
      <4>2. [call[p] EXCEPT !.at = "recvfrom"] \in CallState
        BY <2>1, CallTypes, Zenon DEF CallState
      <4> QED BY <1>1, <3>2, <4>1, <4>2 DEF Transmit, TypeOK
    <3> QED BY <3>1, <3>2
  <2> QED BY <1>1, <2>2, <2>3 DEF Transmit, TypeOK, history
<1>2. CASE Answer(p)
  <2>1. InSend(p) /\ call[p].pkt.msg \in Nat /\ call[p].saved \in Timeout
    BY <1>2, CallTypes DEF Answer, AtAnswer, Datagram
  <2>2. net' \in [Peers -> Seq(Datagram)]
    BY <1>2, ToSetOfTail DEF Answer, TypeOK
  <2>3. CASE Answers(p, Head(net[p]))
    <3>1. Succeed(p)
      BY <1>2, <2>3 DEF Answer
    <3>2. acked' \in [Peers -> SUBSET Nat]
      BY <2>1, <3>1 DEF Succeed, TypeOK
    <3>3. timeo' \in [Peers -> Timeout]
      BY <2>1, <3>1 DEF Succeed, TypeOK
    <3>4. call' \in [Peers -> CallState] /\ ret' \in [Peers -> Result]
      BY <3>1, ReturnType DEF Succeed, Result
    <3> QED BY <1>2, <2>2, <3>1, <3>2, <3>3, <3>4
            DEF Answer, Succeed, TypeOK
  <2>4. CASE ~Answers(p, Head(net[p]))
    BY <1>2, <2>1, <2>2, <2>4, RetryTypes DEF Answer, TypeOK
  <2> QED BY <2>3, <2>4
<1>3. CASE SendTimeout(p)
  BY <1>3, ReturnType DEF SendTimeout, TypeOK, Result, history
<1>4. CASE RecvDatagram(p)
  <2> DEFINE d == Head(net[p])
             c == [ctl[p] EXCEPT !.ack = Advance(@, d)]
             data == d.flag = "DATA" /\ ~SeenFin(p, d)
  <2>1. d \in Datagram /\ Tail(net[p]) \in Seq(Datagram)
    BY <1>4, ToSetOfTail DEF RecvDatagram, TypeOK
  <2>2. c \in Header
    <3>1. Advance(ctl[p].ack, d) \in Nat
      BY <2>1, AdvanceType DEF TypeOK, Header
    <3> QED BY <3>1 DEF TypeOK, Header
  <2>3. AckPacket(c) \in Datagram
    BY <2>2, PacketTypes
  <2> HIDE DEF c
  <2>4. /\ ctl' = [ctl EXCEPT ![p] = c]
        /\ net' = Put([net EXCEPT ![p] = Tail(@)], Other(p), AckPacket(c))
        /\ Return(p, IF data /\ d.len > 0 THEN "data" ELSE "zero")
        /\ delivered' = IF data
                        THEN [delivered EXCEPT ![p] = Append(@, d.msg)]
                        ELSE delivered
    BY <1>4 DEF RecvDatagram, c
  <2>5. net' \in [Peers -> Seq(Datagram)]
    <3>1. [net EXCEPT ![p] = Tail(@)] \in [Peers -> Seq(Datagram)]
      BY <2>1 DEF TypeOK
    <3> QED BY <1>0, <2>3, <2>4, <3>1, PutEffect
  <2>6. delivered' \in [Peers -> Seq(Nat)]
    <3>1. d.msg \in Nat /\ delivered[p] \in Seq(Nat)
      BY <2>1 DEF TypeOK, Datagram
    <3>2. Append(delivered[p], d.msg) \in Seq(Nat)
      BY <3>1, AppendProperties
    <3> QED BY <2>4, <3>2 DEF TypeOK
  <2>7. call' \in [Peers -> CallState] /\ ret' \in [Peers -> Result]
    BY <2>4, ReturnType DEF Result
  <2> QED BY <1>4, <2>2, <2>4, <2>5, <2>6, <2>7 DEF RecvDatagram, TypeOK
<1>5. CASE RecvTimeout(p)
  BY <1>5, ReturnType DEF RecvTimeout, TypeOK, Result, history
<1> QED BY <1>1, <1>2, <1>3, <1>4, <1>5 DEF Step

LEMMA EnvironmentType ==
    ASSUME TypeOK, NEW p \in Peers, Environment(p)
    PROVE  TypeOK'
<1>1. faults' \in Nat /\ errno' \in [Peers -> {"EAGAIN", "other"}]
  <2>1. /\ faults' = faults + 1
        /\ UNCHANGED errno \/ errno' = [errno EXCEPT ![p] = "other"]
    BY Zenon DEF Environment, Fault, SendtoFails, SendInterrupted, RecvAckFails,
           RecvInterrupted, PollInterrupted, Drop, Duplicate, Reorder
  <2>2. faults' \in Nat
    BY <2>1 DEF TypeOK
  <2>3. CASE UNCHANGED errno
    BY <2>2, <2>3 DEF TypeOK
  <2>4. CASE errno' = [errno EXCEPT ![p] = "other"]
    <3>1. errno \in [Peers -> {"EAGAIN", "other"}]
      BY DEF TypeOK
    <3>2. errno' \in [Peers -> {"EAGAIN", "other"}]
      BY <2>4, <3>1
    <3> QED BY <2>2, <3>2
  <2> QED BY <2>1, <2>3, <2>4
<1>2. CASE SendtoFails(p)
  BY <1>1, <1>2, ReturnType DEF SendtoFails, TypeOK, Result, history
<1>3. CASE SendInterrupted(p)
  <2>1. InSend(p)
    BY <1>3 DEF SendInterrupted, AtAnswer
  <2> QED BY <1>1, <1>3, <2>1, RetryTypes DEF SendInterrupted, TypeOK, history
<1>4. CASE RecvAckFails(p)
  <2>1. Head(net[p]) \in Datagram /\ Tail(net[p]) \in Seq(Datagram)
    BY <1>4, ToSetOfTail DEF RecvAckFails, TypeOK
  <2>2. SeenFin(p, Head(net[p])) \in BOOLEAN
    <3>1. call[p].fin \in BOOLEAN
      BY <1>4, CallTypes DEF RecvAckFails
    <3> QED BY <3>1 DEF SeenFin
  <2>3. ctl' \in [Peers -> Header]
    <3>1. Advance(ctl[p].ack, Head(net[p])) \in Nat
      BY <2>1, AdvanceType DEF TypeOK, Header
    <3>2. [ctl[p] EXCEPT !.ack = Advance(ctl[p].ack, Head(net[p]))] \in Header
      BY <3>1 DEF TypeOK, Header
    <3> QED BY <1>4, <3>2 DEF RecvAckFails, TypeOK
  <2>4. call' \in [Peers -> CallState] /\ ret' \in [Peers -> Result]
    BY <1>4, <2>2, RecvAgainTypes DEF RecvAckFails
  <2>5. net' \in [Peers -> Seq(Datagram)]
    BY <1>4, <2>1 DEF RecvAckFails, TypeOK
  <2> QED BY <1>1, <1>4, <2>3, <2>4, <2>5 DEF RecvAckFails, TypeOK, history
<1>5. CASE RecvInterrupted(p)
  <2>1. InRecv(p) /\ call[p].fin \in BOOLEAN
    BY <1>5, CallTypes DEF RecvInterrupted
  <2>2. call' \in [Peers -> CallState] /\ ret' \in [Peers -> Result]
    BY <1>5, <2>1, RecvAgainTypes DEF RecvInterrupted
  <2> QED BY <1>1, <1>5, <2>2 DEF RecvInterrupted, TypeOK, history
<1>6. CASE PollInterrupted(p)
  BY <1>1, <1>6 DEF PollInterrupted, TypeOK, history
<1>7. CASE Drop(p)
  <2>1. net' \in [Peers -> Seq(Datagram)]
    BY <1>7, ToSetOfRemoveAt DEF Drop, TypeOK
  <2> QED BY <1>1, <1>7, <2>1 DEF Drop, TypeOK, history
<1>8. CASE Duplicate(p)
  <2>1. PICK i \in DOMAIN net[p] :
          net' = [net EXCEPT ![p] = Append(net[p], net[p][i])]
    BY <1>8 DEF Duplicate
  <2>2. net[p][i] \in Datagram
    BY ElementsInToSet DEF TypeOK
  <2>3. net' \in [Peers -> Seq(Datagram)]
    BY <2>1, <2>2, ToSetOfAppend DEF TypeOK
  <2> QED BY <1>1, <1>8, <2>3 DEF Duplicate, TypeOK, history
<1>9. CASE Reorder(p)
  <2>1. net[p] \in Seq(Datagram) /\ net[p] # <<>>
    BY <1>9, EmptySeq DEF Reorder, TypeOK
  <2>2. net' \in [Peers -> Seq(Datagram)]
    BY <1>9, <2>1, ToSetOfTail, ToSetOfAppend DEF Reorder, TypeOK
  <2> QED BY <1>1, <1>9, <2>2 DEF Reorder, TypeOK, history
<1> QED BY <1>2, <1>3, <1>4, <1>5, <1>6, <1>7, <1>8, <1>9 DEF Environment

\* Every variable of rudp.c's model keeps its type.
THEOREM TypeCorrect == Spec => []TypeOK
<1>1. Init => TypeOK
  BY TypeInit
<1>2. TypeOK /\ [Next]_vars => TypeOK'
  <2> SUFFICES ASSUME TypeOK, [Next]_vars PROVE TypeOK'
    OBVIOUS
  <2>1. CASE Next
    BY <2>1, StepType, ApplicationType, EnvironmentType DEF Next
  <2>2. CASE UNCHANGED vars
    BY <2>2 DEF vars, TypeOK
  <2> QED BY <2>1, <2>2
<1> QED BY <1>1, <1>2, PTL DEF Spec

-----------------------------------------------------------------------------
(* Most steps are quiet: they change no number and no history, put nothing  *)
(* new on the wire and leave a pending packet what it was.                  *)

KeepsCalls ==
    \A q \in Peers :
        /\ InSend(q)' => /\ InSend(q)
                         /\ call'[q].pkt = call[q].pkt
                         /\ call'[q].op = call[q].op
        /\ InRecv(q)' => IF InRecv(q) THEN call'[q].fin = call[q].fin
                                      ELSE ~call'[q].fin

ShrinksNets == \A q \in Peers : ToSet(net'[q]) \subseteq ToSet(net[q])

Quiet ==
    /\ UNCHANGED <<ctl, sent, delivered, acked, finished>>
    /\ ShrinksNets
    /\ KeepsCalls

\* The six steps that are not.
Loud(p) ==
    \/ SendCall(p) \/ CloseCall(p) \/ Transmit(p) \/ RecvDatagram(p)
    \/ RecvAckFails(p)
    \/ (Answer(p) /\ Answers(p, Head(net[p])))

\* A finished call leaves the peer idle; other peers keep theirs.
LEMMA ReturnKeeps ==
    ASSUME TypeOK, NEW p \in Peers, NEW r, Return(p, r)
    PROVE  KeepsCalls
<1>1. call' = [call EXCEPT ![p] = Idle] /\ call \in [Peers -> CallState]
  BY DEF Return, TypeOK
<1>2. call'[p].op = "idle" /\ \A q \in Peers : q # p => call'[q] = call[q]
  BY <1>1 DEF Idle
<1> QED BY <1>2 DEF KeepsCalls, InSend, InRecv

LEMMA RetryKeeps ==
    ASSUME TypeOK, NEW p \in Peers, InSend(p), Retry(p)
    PROVE  KeepsCalls
<1>1. CASE Fail(p, "exceeded")
  BY <1>1, ReturnKeeps DEF Fail
<1>2. CASE call' = [call EXCEPT ![p].i = @ + 1, ![p].at = "sendto"]
  <2>1. call' = [call EXCEPT
                   ![p] = [call[p] EXCEPT !.i = call[p].i + 1, !.at = "sendto"]]
    BY <1>2
  <2>2. /\ \A q \in Peers : q # p => call'[q] = call[q]
        /\ call'[p] = [call[p] EXCEPT !.i = call[p].i + 1, !.at = "sendto"]
    BY <2>1 DEF TypeOK
  <2>3. call'[p].op = call[p].op /\ call'[p].pkt = call[p].pkt
    BY <2>2, CallTypes
  <2> QED BY <2>2, <2>3 DEF KeepsCalls, InSend, InRecv
<1> QED BY <1>1, <1>2 DEF Retry

LEMMA RecvAgainKeeps ==
    ASSUME TypeOK, NEW p \in Peers, InRecv(p), RecvAgain(p, call[p].fin)
    PROVE  KeepsCalls
<1>1. CASE Return(p, "exceeded")
  BY <1>1, ReturnKeeps
<1>2. CASE call' = [call EXCEPT ![p].i = @ + 1, ![p].fin = call[p].fin]
  <2>1. call' = [call EXCEPT ![p] =
                   [call[p] EXCEPT !.i = call[p].i + 1, !.fin = call[p].fin]]
    BY <1>2
  <2>2. /\ \A q \in Peers : q # p => call'[q] = call[q]
        /\ call'[p] = [call[p] EXCEPT !.i = call[p].i + 1, !.fin = call[p].fin]
    BY <2>1 DEF TypeOK
  <2>3. call'[p].op = call[p].op /\ call'[p].fin = call[p].fin
    BY <2>2, CallTypes
  <2> QED BY <2>2, <2>3 DEF KeepsCalls, InSend, InRecv
<1> QED BY <1>1, <1>2 DEF RecvAgain

LEMMA UnchangedIsQuiet == ASSUME UNCHANGED vars PROVE Quiet
  BY DEF vars, Quiet, ShrinksNets, KeepsCalls, InSend, InRecv

LEMMA NetShrinks ==
    ASSUME TypeOK, NEW p \in Peers, NEW s \in Seq(Datagram),
           ToSet(s) \subseteq ToSet(net[p]), net' = [net EXCEPT ![p] = s]
    PROVE  ShrinksNets
  BY DEF ShrinksNets, TypeOK

LEMMA StepKinds ==
    ASSUME TypeOK, NEW p \in Peers,
           Step(p) \/ Application(p) \/ Environment(p)
    PROVE  Quiet \/ Loud(p)
<1>1. CASE Answer(p) /\ ~Answers(p, Head(net[p]))
  <2>1. InSend(p) /\ Retry(p) /\ net[p] # <<>>
    BY <1>1 DEF Answer, AtAnswer
  <2>2. /\ Tail(net[p]) \in Seq(Datagram)
        /\ ToSet(Tail(net[p])) \subseteq ToSet(net[p])
    BY <2>1, ToSetOfTail DEF TypeOK
  <2> QED BY <1>1, <2>1, <2>2, NetShrinks, RetryKeeps DEF Answer, Quiet
<1>2. CASE SendTimeout(p)
  BY <1>2, ReturnKeeps DEF SendTimeout, Fail, Quiet, ShrinksNets, history
<1>3. CASE RecvTimeout(p)
  BY <1>3, ReturnKeeps DEF RecvTimeout, Quiet, ShrinksNets, history
<1>4. CASE RecvCall(p)
  <2>1. /\ \A q \in Peers : q # p => call'[q] = call[q]
        /\ call'[p].op = "recv" /\ ~call'[p].fin /\ ~InRecv(p)
    BY <1>4 DEF RecvCall, Receiving, TypeOK, InRecv, IsIdle
  <2>2. KeepsCalls
    BY <2>1 DEF KeepsCalls, InSend, InRecv
  <2> QED BY <1>4, <2>2 DEF RecvCall, Quiet, ShrinksNets, history
<1>5. CASE CloseSocket(p)
  <2>1. /\ \A q \in Peers : q # p => call'[q] = call[q]
        /\ call'[p].op = "closed"
    BY <1>5 DEF CloseSocket, TypeOK
  <2>2. KeepsCalls
    BY <2>1 DEF KeepsCalls, InSend, InRecv
  <2>3. <<>> \in Seq(Datagram) /\ ToSet(<<>>) \subseteq ToSet(net[p])
    BY EmptySeq DEF ToSet
  <2> QED BY <1>5, <2>2, <2>3, NetShrinks DEF CloseSocket, Quiet, history
<1>6. CASE SendtoFails(p)
  BY <1>6, ReturnKeeps DEF SendtoFails, Fail, Quiet, ShrinksNets, history
<1>7. CASE SendInterrupted(p)
  BY <1>7, RetryKeeps
     DEF SendInterrupted, AtAnswer, Quiet, ShrinksNets, history
<1>8. CASE RecvInterrupted(p)
  BY <1>8, RecvAgainKeeps DEF RecvInterrupted, Quiet, ShrinksNets, history
<1>9. CASE PollInterrupted(p)
  BY <1>9 DEF PollInterrupted, Quiet, ShrinksNets, KeepsCalls, InSend, InRecv,
              history
<1>10. ASSUME UNCHANGED call PROVE KeepsCalls
  BY <1>10 DEF KeepsCalls, InSend, InRecv
<1>11. CASE Drop(p)
  <2>1. PICK i \in DOMAIN net[p] : net' = [net EXCEPT ![p] = RemoveAt(net[p], i)]
    BY <1>11 DEF Drop
  <2>2. /\ RemoveAt(net[p], i) \in Seq(Datagram)
        /\ ToSet(RemoveAt(net[p], i)) \subseteq ToSet(net[p])
    BY ToSetOfRemoveAt DEF TypeOK
  <2> QED BY <1>10, <1>11, <2>1, <2>2, NetShrinks DEF Drop, Quiet, history
<1>12. CASE Duplicate(p)
  <2>1. PICK i \in DOMAIN net[p] :
          net' = [net EXCEPT ![p] = Append(net[p], net[p][i])]
    BY <1>12 DEF Duplicate
  <2>2. net[p][i] \in Datagram /\ net[p][i] \in ToSet(net[p])
    BY ElementsInToSet DEF TypeOK
  <2>3. /\ Append(net[p], net[p][i]) \in Seq(Datagram)
        /\ ToSet(Append(net[p], net[p][i])) \subseteq ToSet(net[p])
    BY <2>2, ToSetOfAppend DEF TypeOK
  <2> QED BY <1>10, <1>12, <2>1, <2>3, NetShrinks DEF Duplicate, Quiet, history
<1>13. CASE Reorder(p)
  <2>1. net[p] \in Seq(Datagram) /\ net[p] # <<>>
    BY <1>13, EmptySeq DEF Reorder, TypeOK
  <2>2. /\ Append(Tail(net[p]), Head(net[p])) \in Seq(Datagram)
        /\ ToSet(Append(Tail(net[p]), Head(net[p]))) \subseteq ToSet(net[p])
    <3> DEFINE h == Head(net[p])
               t == Tail(net[p])
    <3>1. /\ h \in Datagram /\ h \in ToSet(net[p])
          /\ t \in Seq(Datagram) /\ ToSet(t) \subseteq ToSet(net[p])
      BY <2>1, ToSetOfTail
    <3> HIDE DEF h, t
    <3>2. /\ Append(t, h) \in Seq(Datagram)
          /\ ToSet(Append(t, h)) = ToSet(t) \cup {h}
      BY <3>1, ToSetOfAppend
    <3>3. Append(t, h) \in Seq(Datagram) /\ ToSet(Append(t, h)) \subseteq ToSet(net[p])
      BY <3>1, <3>2
    <3> QED BY <3>3 DEF h, t
  <2> QED BY <1>10, <1>13, <2>2, NetShrinks DEF Reorder, Quiet, history
<1>14. Answer(p) => Loud(p) \/ (Answer(p) /\ ~Answers(p, Head(net[p])))
  BY DEF Loud
<1>15. \/ Loud(p) \/ Answer(p) \/ SendTimeout(p) \/ RecvTimeout(p) \/ RecvCall(p)
       \/ CloseSocket(p) \/ SendtoFails(p) \/ SendInterrupted(p)
       \/ RecvInterrupted(p) \/ PollInterrupted(p) \/ Drop(p) \/ Duplicate(p)
       \/ Reorder(p)
  BY Zenon DEF Step, Application, Environment, Loud
<1> QED BY <1>1, <1>2, <1>3, <1>4, <1>5, <1>6, <1>7, <1>8, <1>9, <1>11, <1>12,
           <1>13, <1>14, <1>15

-----------------------------------------------------------------------------
(* What each loud step does.                                                *)

KeepsSends ==
    \A q \in Peers :
        InSend(q)' => /\ InSend(q)
                      /\ call'[q].pkt = call[q].pkt
                      /\ call'[q].op = call[q].op

\* Only d is put on the wire, towards q.
OnlyAdds(q, d) ==
    \A r \in Peers : \A e \in ToSet(net'[r]) :
        e \in ToSet(net[r]) \/ (r = q /\ e = d)

LEMMA BeginEffect ==
    ASSUME TypeOK, NEW p \in Peers, NEW o \in {"send", "close"},
           NEW d \in Datagram, Begin(p, o, d)
    PROVE  /\ \A q \in Peers : q # p => call'[q] = call[q] /\ ctl'[q] = ctl[q]
           /\ InSend(p)' /\ ~InRecv(p)'
           /\ call'[p].pkt = d /\ call'[p].op = o
           /\ ctl'[p].seq = ctl[p].seq + d.len + Hdr
           /\ ctl'[p].ack = ctl[p].ack
<1>1. call' = [call EXCEPT ![p] = Sending(o, d, timeo[p])]
  BY DEF Begin
<1>2. call'[p] = Sending(o, d, timeo[p])
      /\ \A q \in Peers : q # p => call'[q] = call[q]
  BY <1>1 DEF TypeOK
<1>3. ctl' = [ctl EXCEPT ![p] = [ctl[p] EXCEPT !.seq = ctl[p].seq + d.len + Hdr]]
  BY DEF Begin
<1>4. /\ ctl'[p] = [ctl[p] EXCEPT !.seq = ctl[p].seq + d.len + Hdr]
      /\ \A q \in Peers : q # p => ctl'[q] = ctl[q]
  BY <1>3 DEF TypeOK
<1>5. /\ ctl'[p].seq = ctl[p].seq + d.len + Hdr
      /\ ctl'[p].ack = ctl[p].ack
  BY <1>4 DEF TypeOK, Header
<1> QED BY <1>2, <1>4, <1>5 DEF Sending, InSend, InRecv

LEMMA PutAdds ==
    ASSUME NEW n \in [Peers -> Seq(Datagram)], NEW q \in Peers,
           NEW d \in Datagram, net' = Put(n, q, d),
           \A r \in Peers : ToSet(n[r]) \subseteq ToSet(net[r])
    PROVE  OnlyAdds(q, d)
<1>1. /\ ToSet(Put(n, q, d)[q]) \subseteq ToSet(n[q]) \cup {d}
      /\ \A r \in Peers : r # q => Put(n, q, d)[r] = n[r]
  BY PutEffect
<1> HIDE DEF Put
<1>2. ASSUME NEW r \in Peers, NEW e \in ToSet(net'[r])
      PROVE  e \in ToSet(net[r]) \/ (r = q /\ e = d)
  <2>1. CASE r = q
    BY <1>1, <1>2, <2>1
  <2>2. CASE r # q
    BY <1>1, <1>2, <2>2
  <2> QED BY <2>1, <2>2
<1> QED BY <1>2 DEF OnlyAdds

LEMMA TransmitEffect ==
    ASSUME TypeOK, NEW p \in Peers, Transmit(p)
    PROVE  /\ InSend(p)
           /\ UNCHANGED <<ctl, sent, delivered, acked, finished>>
           /\ KeepsCalls
           /\ OnlyAdds(Other(p), call[p].pkt)
<1>1. InSend(p) /\ call[p].pkt \in Datagram
  BY CallTypes DEF Transmit, AtSendto
<1>2. OnlyAdds(Other(p), call[p].pkt)
  <2>1. /\ net \in [Peers -> Seq(Datagram)]
        /\ Other(p) \in Peers
        /\ net' = Put(net, Other(p), call[p].pkt)
    BY OtherPeer DEF Transmit, TypeOK
  <2> QED BY <1>1, <2>1, PutAdds, Zenon
<1>3. CASE errno[p] = "EAGAIN"
  BY <1>1, <1>2, <1>3, ReturnKeeps DEF Transmit, Fail, history
<1>4. CASE errno[p] # "EAGAIN"
  <2>1. call' = [call EXCEPT ![p] = [call[p] EXCEPT !.at = "recvfrom"]]
    BY <1>4 DEF Transmit
  <2>2. /\ \A q \in Peers : q # p => call'[q] = call[q]
        /\ call'[p] = [call[p] EXCEPT !.at = "recvfrom"]
    BY <2>1 DEF TypeOK
  <2>3. call'[p].op = call[p].op /\ call'[p].pkt = call[p].pkt
    BY <1>1, <2>2, CallTypes
  <2>4. KeepsCalls
    BY <1>1, <2>2, <2>3 DEF KeepsCalls, InSend, InRecv
  <2> QED BY <1>1, <1>2, <2>4 DEF Transmit, history
<1> QED BY <1>3, <1>4

LEMMA AnswerEffect ==
    ASSUME TypeOK, NEW p \in Peers, Answer(p), Answers(p, Head(net[p]))
    PROVE  /\ InSend(p)
           /\ UNCHANGED <<ctl, sent, delivered, finished>>
           /\ ShrinksNets
           /\ KeepsCalls
           /\ Head(net[p]) \in ToSet(net[p])
           /\ acked' = IF call[p].op = "send"
                       THEN [acked EXCEPT ![p] = @ \cup {call[p].pkt.msg}]
                       ELSE acked
<1>1. InSend(p) /\ net[p] # <<>> /\ Succeed(p)
  BY DEF Answer, AtAnswer
<1>2. /\ Tail(net[p]) \in Seq(Datagram)
      /\ ToSet(Tail(net[p])) \subseteq ToSet(net[p])
      /\ Head(net[p]) \in ToSet(net[p])
  BY <1>1, ToSetOfTail DEF TypeOK
<1> QED BY <1>1, <1>2, NetShrinks, ReturnKeeps DEF Answer, Succeed

LEMMA AdvanceEffect ==
    ASSUME NEW a \in Nat, NEW d \in Datagram
    PROVE  /\ Advance(a, d) \in Nat /\ Advance(a, d) >= a
           /\ Advance(a, d) # a => d.seq = a /\ Advance(a, d) = d.seq + d.len + Hdr
  BY RudpAssumption DEF Advance, Datagram

LEMMA RecvDatagramEffect ==
    ASSUME TypeOK, NEW p \in Peers, RecvDatagram(p)
    PROVE  LET d == Head(net[p])
           IN  /\ InRecv(p)
               /\ d \in Datagram /\ d \in ToSet(net[p])
               /\ \A q \in Peers : q # p => ctl'[q] = ctl[q]
               /\ ctl'[p].seq = ctl[p].seq
               /\ ctl'[p].ack = Advance(ctl[p].ack, d)
               /\ ctl'[p] \in Header
               /\ UNCHANGED <<sent, acked, finished>>
               /\ OnlyAdds(Other(p), AckPacket(ctl'[p]))
               /\ KeepsCalls
               /\ delivered' = IF d.flag = "DATA" /\ ~SeenFin(p, d)
                               THEN [delivered EXCEPT ![p] = Append(@, d.msg)]
                               ELSE delivered
<1> DEFINE d == Head(net[p])
           c == [ctl[p] EXCEPT !.ack = Advance(@, d)]
           data == d.flag = "DATA" /\ ~SeenFin(p, d)
<1>1. /\ d \in Datagram /\ d \in ToSet(net[p])
      /\ Tail(net[p]) \in Seq(Datagram)
      /\ ToSet(Tail(net[p])) \subseteq ToSet(net[p])
  BY ToSetOfTail DEF RecvDatagram, TypeOK
<1>2. c \in Header /\ c.seq = ctl[p].seq /\ c.ack = Advance(ctl[p].ack, d)
  <2>1. Advance(ctl[p].ack, d) \in Nat
    BY <1>1, AdvanceType DEF TypeOK, Header
  <2> QED BY <2>1 DEF TypeOK, Header
<1>3. AckPacket(c) \in Datagram
  BY <1>2, PacketTypes
<1> HIDE DEF c
<1>4. /\ InRecv(p)
      /\ ctl' = [ctl EXCEPT ![p] = c]
      /\ net' = Put([net EXCEPT ![p] = Tail(@)], Other(p), AckPacket(c))
      /\ Return(p, IF data /\ d.len > 0 THEN "data" ELSE "zero")
      /\ delivered' = IF data
                      THEN [delivered EXCEPT ![p] = Append(@, d.msg)]
                      ELSE delivered
      /\ UNCHANGED <<sent, acked, finished>>
  BY DEF RecvDatagram, c
<1>5. ctl'[p] = c /\ \A q \in Peers : q # p => ctl'[q] = ctl[q]
  BY <1>4 DEF TypeOK
<1>6. OnlyAdds(Other(p), AckPacket(c))
  <2> DEFINE n == [net EXCEPT ![p] = Tail(@)]
  <2>1. /\ n \in [Peers -> Seq(Datagram)]
        /\ \A r \in Peers : ToSet(n[r]) \subseteq ToSet(net[r])
    BY <1>1 DEF TypeOK
  <2> HIDE DEF n
  <2>2. net' = Put(n, Other(p), AckPacket(c)) /\ Other(p) \in Peers
    BY <1>4, OtherPeer DEF n
  <2> QED BY <1>3, <2>1, <2>2, PutAdds, Zenon
<1>7. KeepsCalls
  BY <1>4, ReturnKeeps
<1> QED BY <1>1, <1>2, <1>4, <1>5, <1>6, <1>7

LEMMA RecvAckFailsEffect ==
    ASSUME TypeOK, NEW p \in Peers, RecvAckFails(p)
    PROVE  /\ Head(net[p]) \in Datagram /\ Head(net[p]) \in ToSet(net[p])
           /\ \A q \in Peers : q # p => ctl'[q] = ctl[q]
           /\ ctl'[p].seq = ctl[p].seq
           /\ ctl'[p].ack = Advance(ctl[p].ack, Head(net[p]))
           /\ UNCHANGED <<sent, delivered, acked, finished>>
           /\ ShrinksNets
           /\ KeepsSends
<1>1. /\ Head(net[p]) \in Datagram /\ Head(net[p]) \in ToSet(net[p])
      /\ Tail(net[p]) \in Seq(Datagram)
      /\ ToSet(Tail(net[p])) \subseteq ToSet(net[p])
  BY ToSetOfTail DEF RecvAckFails, TypeOK
<1>2. ctl' = [ctl EXCEPT
                ![p] = [ctl[p] EXCEPT !.ack = Advance(ctl[p].ack, Head(net[p]))]]
  BY DEF RecvAckFails
<1>3. /\ \A q \in Peers : q # p => ctl'[q] = ctl[q]
      /\ ctl'[p].seq = ctl[p].seq
      /\ ctl'[p].ack = Advance(ctl[p].ack, Head(net[p]))
  BY <1>2 DEF TypeOK, Header
<1>4. ShrinksNets
  BY <1>1, NetShrinks DEF RecvAckFails
<1>5. InRecv(p) /\ RecvAgain(p, SeenFin(p, Head(net[p])))
  BY DEF RecvAckFails
<1>6. KeepsSends
  <2>1. /\ \A q \in Peers : q # p => call'[q] = call[q]
        /\ call'[p].op \in {"idle", "recv"}
    <3>1. CASE Return(p, "exceeded")
      BY <3>1 DEF Return, Idle, TypeOK
    <3>2. CASE call' = [call EXCEPT ![p].i = @ + 1,
                                    ![p].fin = SeenFin(p, Head(net[p]))]
      <4>1. call' = [call EXCEPT ![p] =
                       [call[p] EXCEPT !.i = call[p].i + 1,
                                       !.fin = SeenFin(p, Head(net[p]))]]
        BY <3>2
      <4>2. /\ \A q \in Peers : q # p => call'[q] = call[q]
            /\ call'[p] = [call[p] EXCEPT !.i = call[p].i + 1,
                                          !.fin = SeenFin(p, Head(net[p]))]
        BY <4>1 DEF TypeOK
      <4>3. call'[p].op = call[p].op
        BY <1>5, <4>2, CallTypes
      <4> QED BY <1>5, <4>2, <4>3 DEF InRecv
    <3> QED BY <1>5, <3>1, <3>2 DEF RecvAgain
  <2> QED BY <2>1 DEF KeepsSends, InSend
<1> QED BY <1>1, <1>3, <1>4, <1>6 DEF RecvAckFails, history

-----------------------------------------------------------------------------
(* A desynchronised association stays so.                                   *)

\* What that needs: acknowledgements in flight are no newer than the
\* receiver's, and no sender transmits an acknowledgement of its own making.
TrailInv ==
    /\ AcksTrail
    /\ \A p \in Peers : InSend(p) => call[p].pkt.flag # "ACK"

LEMMA InNet ==
    ASSUME TypeOK, NEW q \in Peers, NEW d \in ToSet(net[q])
    PROVE  d \in Datagram
<1>1. net[q] \in Seq(Datagram)
  BY DEF TypeOK
<1>2. PICK i \in DOMAIN net[q] : d = net[q][i]
  BY DEF ToSet
<1> QED BY <1>1, <1>2, ElementsInToSet

LEMMA AckGrows ==
    ASSUME TypeOK, NEW p \in Peers, NEW q \in Peers, Quiet \/ Loud(p)
    PROVE  ctl'[q].ack \in Nat /\ ctl[q].ack \in Nat /\ ctl'[q].ack >= ctl[q].ack
<1>1. ctl[q].ack \in Nat /\ ctl[p].ack \in Nat
  BY DEF TypeOK, Header
<1>2. CASE Quiet
  BY <1>1, <1>2 DEF Quiet
<1>3. CASE SendCall(p) \/ CloseCall(p)
  <2>1. PICK o \in {"send", "close"}, d \in Datagram : Begin(p, o, d)
    BY <1>3, PacketTypes, RudpAssumption DEF SendCall, CloseCall
  <2>2. ctl'[q].ack = ctl[q].ack
    BY <2>1, BeginEffect
  <2> QED BY <1>1, <2>2
<1>4. CASE Transmit(p)
  BY <1>1, <1>4, TransmitEffect
<1>5. CASE Answer(p) /\ Answers(p, Head(net[p]))
  BY <1>1, <1>5, AnswerEffect
<1>6. CASE RecvDatagram(p)
  BY <1>1, <1>6, RecvDatagramEffect, AdvanceEffect
<1>7. CASE RecvAckFails(p)
  BY <1>1, <1>7, RecvAckFailsEffect, AdvanceEffect
<1> QED BY <1>2, <1>3, <1>4, <1>5, <1>6, <1>7 DEF Loud

LEMMA TrailStep == TypeOK /\ TrailInv /\ [Next]_vars => TrailInv'
<1> SUFFICES ASSUME TypeOK, TrailInv, [Next]_vars PROVE TrailInv'
  OBVIOUS
<1>1. ASSUME NEW p \in Peers, Quiet \/ Loud(p) PROVE TrailInv'
  <2>1. ASSUME NEW q \in Peers, InSend(q)'
        PROVE  call'[q].pkt.flag # "ACK"
    <3>1. CASE KeepsSends
      BY <2>1, <3>1 DEF KeepsSends, TrailInv
    <3>2. CASE SendCall(p) \/ CloseCall(p)
      <4>1. PICK o \in {"send", "close"}, d \in Datagram :
              Begin(p, o, d) /\ d.flag # "ACK"
        BY <3>2, PacketTypes, RudpAssumption
           DEF SendCall, CloseCall, DataPacket, FinPacket
      <4>2. q = p \/ call'[q] = call[q]
        BY <4>1, BeginEffect
      <4> QED BY <2>1, <4>1, <4>2, BeginEffect DEF TrailInv, InSend
    <3>3. KeepsCalls => KeepsSends
      BY DEF KeepsCalls, KeepsSends
    <3> QED BY <1>1, <3>1, <3>2, <3>3, TransmitEffect, AnswerEffect,
               RecvDatagramEffect, RecvAckFailsEffect DEF Quiet, Loud
  <2>2. ASSUME NEW q \in Peers, NEW d \in ToSet(net'[q]), d.flag = "ACK"
        PROVE  d.ack <= ctl'[Other(q)].ack
    <3>1. CASE d \in ToSet(net[q])
      <4>1. d.ack <= ctl[Other(q)].ack /\ d \in Datagram
        BY <2>2, <3>1, InNet DEF TrailInv, AcksTrail
      <4>2. d.ack \in Nat
        BY <4>1 DEF Datagram
      <4> QED BY <1>1, <4>1, <4>2, OtherPeer, AckGrows
    <3>2. CASE d \notin ToSet(net[q])
      <4>1. CASE Transmit(p)
        BY <2>2, <3>2, <4>1, TransmitEffect DEF OnlyAdds, TrailInv
      <4>2. CASE RecvDatagram(p)
        <5>1. q = Other(p) /\ d = AckPacket(ctl'[p])
          BY <2>2, <3>2, <4>2, RecvDatagramEffect DEF OnlyAdds
        <5>2. d.ack = ctl'[Other(q)].ack
          BY <5>1, OtherPeer DEF AckPacket
        <5>3. ctl'[Other(q)].ack \in Nat
          BY <1>1, OtherPeer, AckGrows
        <5> QED BY <5>2, <5>3
      <4>3. CASE ShrinksNets \/ UNCHANGED net
        BY <2>2, <3>2, <4>3 DEF ShrinksNets
      <4> QED BY <1>1, <4>1, <4>2, <4>3, AnswerEffect, RecvAckFailsEffect
              DEF Quiet, Loud, SendCall, CloseCall
    <3> QED BY <3>1, <3>2
  <2> QED BY <2>1, <2>2 DEF TrailInv, AcksTrail
<1>2. CASE Next
  BY <1>1, <1>2, StepKinds DEF Next
<1>3. CASE UNCHANGED vars
  BY <1>1, <1>3, UnchangedIsQuiet DEF Peers
<1> QED BY <1>2, <1>3

LEMMA TrailAlways == Spec => []TrailInv
<1>1. Init => TrailInv
  BY EmptySeq DEF Init, TrailInv, AcksTrail, InSend, Idle, ToSet
<1> QED BY <1>1, TrailStep, TypeCorrect, PTL DEF Spec

LEMMA DesyncStep ==
    ASSUME TypeOK, TrailInv, NEW a \in Peers, Quiet \/ Loud(a),
           NEW p \in Peers, Desynced(p)
    PROVE  /\ Desynced(p)'
           /\ ctl'[Other(p)].ack = ctl[Other(p)].ack
           /\ acked'[p] = acked[p]
<1> DEFINE q == Other(p)
           want == ctl[q].ack
<1>1. /\ want < ctl[p].seq
      /\ \A d \in ToSet(net[q]) : d.seq # want
      /\ InSend(p) => call[p].pkt.seq # want
  BY DEF Desynced
<1>2. /\ q \in Peers /\ q # p /\ Other(q) = p
      /\ want \in Nat /\ ctl[p].seq \in Nat
  BY OtherPeer DEF TypeOK, Header
<1> HIDE DEF q
<1>3. ASSUME want' = want, ctl'[p].seq \in Nat, ctl'[p].seq >= ctl[p].seq,
             \A d \in ToSet(net'[q]) : d.seq # want,
             InSend(p)' => call'[p].pkt.seq # want
      PROVE  Desynced(p)'
  BY <1>1, <1>2, <1>3 DEF Desynced, q
<1>4. ASSUME UNCHANGED <<ctl, acked>>, ShrinksNets, KeepsSends
      PROVE  Desynced(p)' /\ want' = want /\ acked'[p] = acked[p]
  BY <1>1, <1>2, <1>3, <1>4 DEF ShrinksNets, KeepsSends
<1>5. KeepsCalls => KeepsSends
  BY DEF KeepsCalls, KeepsSends
<1>6. CASE Quiet
  BY <1>4, <1>5, <1>6 DEF Quiet, q
<1>7. CASE SendCall(a) \/ CloseCall(a)
  <2>1. PICK o \in {"send", "close"}, d \in Datagram :
          Begin(a, o, d) /\ d.seq = ctl[a].seq /\ d.len \in Nat
    BY <1>7, PacketTypes, RudpAssumption
       DEF SendCall, CloseCall, DataPacket, FinPacket, Datagram
  <2>2. want' = want /\ UNCHANGED <<net, acked>>
    BY <1>2, <1>7, <2>1, BeginEffect DEF SendCall, CloseCall
  <2>3. CASE a = p
    <3>1. /\ ctl'[p].seq = ctl[p].seq + d.len + Hdr
          /\ call'[p].pkt = d
      BY <2>1, <2>3, BeginEffect
    <3>2. ctl'[p].seq \in Nat /\ ctl'[p].seq >= ctl[p].seq
      BY <1>2, <2>1, <3>1, RudpAssumption
    <3>3. d.seq # want
      BY <1>1, <1>2, <2>1, <2>3
    <3> QED BY <1>1, <1>3, <2>2, <3>1, <3>2, <3>3 DEF q
  <2>4. CASE a # p
    <3>1. ctl'[p] = ctl[p] /\ call'[p] = call[p]
      BY <2>1, <2>4, BeginEffect
    <3> QED BY <1>1, <1>2, <1>3, <2>2, <3>1 DEF q, InSend
  <2> QED BY <2>3, <2>4
<1>8. CASE Transmit(a)
  <2>1. /\ InSend(a) /\ UNCHANGED <<ctl, acked>> /\ KeepsSends
        /\ OnlyAdds(Other(a), call[a].pkt)
    BY <1>5, <1>8, TransmitEffect
  <2>2. \A d \in ToSet(net'[q]) : d.seq # want
    BY <1>1, <1>2, <2>1, OtherPeer DEF OnlyAdds
  <2> QED BY <1>1, <1>2, <1>3, <2>1, <2>2 DEF KeepsSends, q
<1>9. CASE Answer(a) /\ Answers(a, Head(net[a]))
  <2>1. /\ InSend(a) /\ UNCHANGED ctl /\ ShrinksNets /\ KeepsSends
        /\ Head(net[a]) \in ToSet(net[a])
        /\ acked' = IF call[a].op = "send"
                    THEN [acked EXCEPT ![a] = @ \cup {call[a].pkt.msg}]
                    ELSE acked
    BY <1>5, <1>9, AnswerEffect
  <2>2. CASE a = p
    \* The answer would have to be newer than the receiver's own number.
    <3>1. Head(net[p]).ack <= want /\ Head(net[p]).ack = ctl[p].seq
      BY <1>9, <2>1, <2>2 DEF Answers, TrailInv, AcksTrail, q
    <3> QED BY <1>1, <1>2, <3>1
  <2>3. CASE a # p
    <3>1. acked'[p] = acked[p]
      BY <2>1, <2>3 DEF TypeOK
    <3>2. Desynced(p)'
      BY <1>1, <1>2, <1>3, <2>1 DEF ShrinksNets, KeepsSends
    <3> QED BY <2>1, <3>1, <3>2
  <2> QED BY <2>2, <2>3
<1>10. CASE RecvDatagram(a)
  <2> DEFINE d == Head(net[a])
  <2>1. /\ d \in Datagram /\ d \in ToSet(net[a])
        /\ \A r \in Peers : r # a => ctl'[r] = ctl[r]
        /\ ctl'[a].seq = ctl[a].seq
        /\ ctl'[a].ack = Advance(ctl[a].ack, d)
        /\ UNCHANGED acked
        /\ OnlyAdds(Other(a), AckPacket(ctl'[a]))
        /\ KeepsSends
    BY <1>5, <1>10, RecvDatagramEffect
  <2> HIDE DEF d
  <2>2. want' = want /\ ctl'[p].seq = ctl[p].seq
    <3>1. CASE a = q
      BY <1>1, <1>2, <2>1, <3>1, AdvanceEffect DEF q
    <3>2. CASE a # q
      BY <1>2, <2>1, <3>2 DEF q
    <3> QED BY <3>1, <3>2
  <2>3. \A e \in ToSet(net'[q]) : e.seq # want
    <3>1. a = p => AckPacket(ctl'[a]).seq = ctl[p].seq
      BY <2>1 DEF AckPacket
    <3>2. q = Other(a) => a = p
      BY <1>2, OtherPeer
    <3> QED BY <1>1, <1>2, <2>1, <3>1, <3>2 DEF OnlyAdds
  <2> QED BY <1>1, <1>2, <1>3, <2>1, <2>2, <2>3 DEF KeepsSends, q
<1>11. CASE RecvAckFails(a)
  <2> DEFINE d == Head(net[a])
  <2>1. /\ d \in Datagram /\ d \in ToSet(net[a])
        /\ \A r \in Peers : r # a => ctl'[r] = ctl[r]
        /\ ctl'[a].seq = ctl[a].seq
        /\ ctl'[a].ack = Advance(ctl[a].ack, d)
        /\ UNCHANGED acked
        /\ ShrinksNets
        /\ KeepsSends
    BY <1>11, RecvAckFailsEffect
  <2> HIDE DEF d
  <2>2. want' = want /\ ctl'[p].seq = ctl[p].seq
    <3>1. CASE a = q
      BY <1>1, <1>2, <2>1, <3>1, AdvanceEffect DEF q
    <3>2. CASE a # q
      BY <1>2, <2>1, <3>2 DEF q
    <3> QED BY <3>1, <3>2
  <2> QED BY <1>1, <1>2, <1>3, <2>1, <2>2 DEF KeepsSends, ShrinksNets, q
<1> QED BY <1>6, <1>7, <1>8, <1>9, <1>10, <1>11 DEF Loud

\* Whatever the faults, the lengths and the number of tries: once the number
\* a receiver waits for is neither in flight nor pending, the receiver never
\* moves again and no later rudp_send to it ever succeeds.
THEOREM DesyncPermanent == Spec => DesyncIsPermanent
<1>1. ASSUME TypeOK, TrailInv, [Next]_vars
      PROVE  [\A p \in Peers : Desynced(p) =>
                 /\ Desynced(p)'
                 /\ ctl'[Other(p)].ack = ctl[Other(p)].ack
                 /\ acked'[p] = acked[p]]_vars
  <2>1. CASE Next
    <3>1. PICK a \in Peers : Quiet \/ Loud(a)
      BY <1>1, <2>1, StepKinds DEF Next
    <3> QED BY <1>1, <3>1, DesyncStep
  <2>2. CASE UNCHANGED vars
    BY <2>2
  <2> QED BY <1>1, <2>1, <2>2
<1> QED BY <1>1, TypeCorrect, TrailAlways, PTL DEF Spec, DesyncIsPermanent

-----------------------------------------------------------------------------
(* The timeout a failed call leaves behind.                                 *)

\* Only p's call, timeout and failure change.
OnlyOf(p) ==
    \A q \in Peers : q # p =>
        call'[q] = call[q] /\ timeo'[q] = timeo[q] /\ failed'[q] = failed[q]

\* p fails, returns, tries again, or does something else in the same call.
LEMMA TimeoutFrom ==
    ASSUME TypeOK, TimeoutKept, NEW p \in Peers, OnlyOf(p),
           \/ /\ InSend(p)' = InSend(p)
              /\ UNCHANGED <<timeo, failed>>
              /\ InSend(p) => call'[p].saved = call[p].saved
           \/ Fail(p, "closed") /\ UNCHANGED timeo /\ InSend(p)
           \/ Fail(p, "exceeded") /\ UNCHANGED timeo /\ InSend(p)
           \/ Succeed(p) /\ InSend(p)
           \/ /\ ~InSend(p) /\ UNCHANGED failed
              /\ \E o \in {"send", "close"}, d \in Datagram : Begin(p, o, d)
    PROVE  TimeoutKept'
<1> SUFFICES ASSUME NEW q \in Peers
             PROVE  IF InSend(q)'
                    THEN timeo'[q] = "ack" /\ (failed'[q] <=> call'[q].saved = "ack")
                    ELSE failed'[q] <=> timeo'[q] = "ack"
  BY DEF TimeoutKept
<1>0. q # p => InSend(q)' = InSend(q)
  BY DEF OnlyOf, InSend
<1>1. CASE q # p
  BY <1>0, <1>1 DEF TimeoutKept, OnlyOf
<1>2. CASE q = p /\ InSend(p)' = InSend(p) /\ UNCHANGED <<timeo, failed>>
                 /\ (InSend(p) => call'[p].saved = call[p].saved)
  BY <1>2 DEF TimeoutKept
<1>3. ASSUME q = p, InSend(p), UNCHANGED timeo,
             Fail(p, "closed") \/ Fail(p, "exceeded")
      PROVE  ~InSend(q)' /\ failed'[q] /\ timeo'[q] = "ack"
  <2>1. call'[p] = Idle /\ failed'[p] = TRUE
    BY <1>3 DEF Fail, Return, TypeOK
  <2> QED BY <1>3, <2>1 DEF TimeoutKept, Idle, InSend
<1>4. CASE q = p /\ InSend(p) /\ Succeed(p)
  <2>1. call'[p] = Idle /\ failed'[p] = failed[p] /\ timeo'[p] = call[p].saved
    BY <1>4 DEF Succeed, Return, TypeOK
  <2> QED BY <1>4, <2>1 DEF TimeoutKept, Idle, InSend
<1>5. ASSUME q = p, ~InSend(p), UNCHANGED failed,
             NEW o \in {"send", "close"}, NEW d \in Datagram, Begin(p, o, d)
      PROVE  /\ InSend(q)' /\ timeo'[q] = "ack"
             /\ failed'[q] <=> call'[q].saved = "ack"
  <2>1. call'[p] = Sending(o, d, timeo[p]) /\ timeo'[p] = "ack"
    BY <1>5 DEF Begin, TypeOK
  <2> QED BY <1>5, <2>1 DEF TimeoutKept, Sending, InSend
<1> QED BY <1>1, <1>2, <1>3, <1>4, <1>5

\* Another try keeps the timeout to restore.
LEMMA RetryTimeout ==
    ASSUME TypeOK, NEW p \in Peers, InSend(p), Retry(p)
    PROVE  \/ /\ InSend(p)' /\ UNCHANGED failed
              /\ call'[p].saved = call[p].saved
           \/ Fail(p, "exceeded")
<1>1. CASE call[p].i + 1 < N_ATTEMPT
  <2>1. /\ UNCHANGED failed
        /\ call'[p] = [call[p] EXCEPT !.i = @ + 1, !.at = "sendto"]
    BY <1>1 DEF Retry, TypeOK
  <2> QED BY <2>1, CallTypes DEF InSend
<1>2. CASE ~(call[p].i + 1 < N_ATTEMPT)
  BY <1>2 DEF Retry
<1> QED BY <1>1, <1>2

LEMMA OnlyCaller ==
    ASSUME TypeOK, NEW p \in Peers, Step(p) \/ Application(p) \/ Environment(p)
    PROVE  OnlyOf(p)
<1> USE DEF OnlyOf, TypeOK
<1>1. CASE Application(p)
  <2>1. CASE SendCall(p)
    BY <2>1 DEF SendCall, Begin
  <2>2. CASE ~SendCall(p)
    BY <1>1, <2>2 DEF Application, CloseCall, RecvCall, CloseSocket, Begin, history
  <2> QED BY <2>1, <2>2
<1>2. CASE Transmit(p)
  BY <1>2 DEF Transmit, Fail, Return, history
<1>3. CASE Answer(p)
  BY <1>3 DEF Answer, Succeed, Retry, Fail, Return
<1>4. CASE SendTimeout(p) \/ RecvDatagram(p) \/ RecvTimeout(p)
  BY <1>4 DEF SendTimeout, RecvDatagram, RecvTimeout, Fail, Return, history
<1>5. CASE Environment(p)
  BY <1>5 DEF Environment, SendtoFails, SendInterrupted, RecvAckFails,
       RecvInterrupted, PollInterrupted, Drop, Duplicate, Reorder, RecvAgain,
       Retry, Fail, Return, history
<1> QED BY <1>1, <1>2, <1>3, <1>4, <1>5 DEF Step

LEMMA TimeoutStep ==
    ASSUME TypeOK, TimeoutKept, NEW p \in Peers,
           Step(p) \/ Application(p) \/ Environment(p)
    PROVE  TimeoutKept'
<1>0. OnlyOf(p)
  BY OnlyCaller
<1>1. CASE SendCall(p) \/ CloseCall(p)
  <2>1. \A len \in Lengths : DataPacket(p, len) \in Datagram
    BY PacketTypes, RudpAssumption
  <2>2. FinPacket(p) \in Datagram
    BY PacketTypes
  <2>3. /\ ~InSend(p) /\ UNCHANGED failed
        /\ \E o \in {"send", "close"}, d \in Datagram : Begin(p, o, d)
    BY <1>1, <2>1, <2>2 DEF SendCall, CloseCall, IsIdle, InSend
  <2> QED BY <1>0, <2>3, TimeoutFrom
<1>2. CASE RecvCall(p) \/ CloseSocket(p) \/ PollInterrupted(p)
             \/ Drop(p) \/ Duplicate(p) \/ Reorder(p)
  <2>1. /\ InSend(p)' = InSend(p)
        /\ UNCHANGED <<timeo, failed>>
        /\ InSend(p) => call'[p].saved = call[p].saved
    BY <1>2 DEF RecvCall, CloseSocket, PollInterrupted, Drop, Duplicate, Reorder,
         IsIdle, InSend, Receiving, TypeOK, history
  <2> QED BY <1>0, <2>1, TimeoutFrom
<1>3. CASE Transmit(p)
  <2>1. CASE errno[p] = "EAGAIN"
    BY <1>0, <1>3, <2>1, TimeoutFrom DEF Transmit, AtSendto
  <2>2. CASE errno[p] # "EAGAIN"
    <3>1. /\ InSend(p) /\ UNCHANGED <<timeo, failed>>
          /\ call'[p] = [call[p] EXCEPT !.at = "recvfrom"]
      BY <1>3, <2>2 DEF Transmit, AtSendto, TypeOK
    <3>2. call'[p].op = call[p].op /\ call'[p].saved = call[p].saved
      BY <3>1, CallTypes
    <3>3. InSend(p)' = InSend(p)
      BY <3>2 DEF InSend
    <3> QED BY <1>0, <3>1, <3>2, <3>3, TimeoutFrom
  <2> QED BY <2>1, <2>2
<1>4. CASE Answer(p) \/ SendInterrupted(p)
  <2>1. InSend(p)
    BY <1>4 DEF Answer, SendInterrupted, AtAnswer
  <2>2. Succeed(p) \/ (Retry(p) /\ UNCHANGED timeo)
    BY <1>4 DEF Answer, SendInterrupted
  <2> QED BY <1>0, <2>1, <2>2, RetryTimeout, TimeoutFrom
<1>5. CASE SendTimeout(p) \/ SendtoFails(p)
  BY <1>0, <1>5, TimeoutFrom DEF SendTimeout, SendtoFails, AtAnswer, AtSendto, history
<1>6. CASE RecvDatagram(p) \/ RecvTimeout(p) \/ RecvAckFails(p) \/ RecvInterrupted(p)
  <2>1. /\ ~InSend(p)
        /\ UNCHANGED <<timeo, failed>>
    BY <1>6 DEF RecvDatagram, RecvTimeout, RecvAckFails, RecvInterrupted, InRecv,
         InSend, history
  <2>2. InRecv(p)
    BY <1>6 DEF RecvDatagram, RecvTimeout, RecvAckFails, RecvInterrupted
  <2>3. ASSUME NEW r, Return(p, r) PROVE ~InSend(p)'
    BY <2>3 DEF Return, InSend, Idle, TypeOK
  <2>4. ASSUME NEW f, RecvAgain(p, f) PROVE ~InSend(p)'
    <3>1. CASE call[p].i + 1 < N_ATTEMPT
      <4>1. call'[p] = [call[p] EXCEPT !.i = @ + 1, !.fin = f]
        BY <2>4, <3>1 DEF RecvAgain, TypeOK
      <4>2. call'[p].op = "recv"
        BY <2>2, <4>1, CallTypes
      <4> QED BY <4>2 DEF InSend
    <3>2. CASE ~(call[p].i + 1 < N_ATTEMPT)
      BY <2>3, <2>4, <3>2 DEF RecvAgain
    <3> QED BY <3>1, <3>2
  <2>5. ~InSend(p)'
    BY <1>6, <2>3, <2>4 DEF RecvDatagram, RecvTimeout, RecvAckFails, RecvInterrupted
  <2>6. InSend(p)' = InSend(p)
    BY <2>1, <2>5 DEF InSend
  <2> QED BY <1>0, <2>1, <2>6, TimeoutFrom
<1> QED BY <1>1, <1>2, <1>3, <1>4, <1>5, <1>6 DEF Step, Application, Environment

\* A failed rudp_send or rudp_close, and nothing else, leaves its timeout to
\* the receives that follow, for any number of tries and under every fault.
THEOREM TimeoutLeaks == Spec => []TimeoutLeaksFromFailures
<1>1. Init => TimeoutKept
  BY DEF Init, TimeoutKept, InSend, Idle
<1>2. TypeOK /\ TimeoutKept /\ [Next]_vars => TimeoutKept'
  <2>1. ASSUME TypeOK, TimeoutKept, Next PROVE TimeoutKept'
    BY <2>1, TimeoutStep DEF Next
  <2>2. ASSUME TimeoutKept, UNCHANGED vars PROVE TimeoutKept'
    BY <2>2 DEF vars, TimeoutKept, InSend
  <2> QED BY <2>1, <2>2
<1>3. TimeoutKept => TimeoutLeaksFromFailures
  BY DEF TimeoutKept, TimeoutLeaksFromFailures, IsIdle, InSend
<1> QED BY <1>1, <1>2, <1>3, TypeCorrect, PTL DEF Spec

-----------------------------------------------------------------------------
(* Counting the places of a sequence.                                       *)

Carries(d, k) == d.flag = "DATA" /\ d.msg = k

LEMMA PlacesFinite ==
    ASSUME NEW T, NEW s \in Seq(T), NEW S \in SUBSET DOMAIN s
    PROVE  IsFiniteSet(S) /\ Cardinality(S) \in Nat
<1>1. DOMAIN s = 1..Len(s) /\ Len(s) \in Nat
  BY LenProperties
<1>2. IsFiniteSet(1..Len(s))
  BY <1>1, FS_Interval
<1> QED BY <1>1, <1>2, FS_Subset, FS_CardinalityType

LEMMA CountTypes ==
    ASSUME NEW k \in Nat
    PROVE  /\ \A s \in Seq(Datagram) :
                /\ IsFiniteSet(Carrying(s, k))
                /\ Cardinality(Carrying(s, k)) \in Nat
           /\ \A s \in Seq(Nat) :
                /\ IsFiniteSet(Handed(s, k))
                /\ Cardinality(Handed(s, k)) \in Nat
<1>1. ASSUME NEW s \in Seq(Datagram)
      PROVE  IsFiniteSet(Carrying(s, k)) /\ Cardinality(Carrying(s, k)) \in Nat
  <2>1. Carrying(s, k) \in SUBSET DOMAIN s
    BY DEF Carrying
  <2> QED BY <2>1, PlacesFinite
<1>2. ASSUME NEW s \in Seq(Nat)
      PROVE  IsFiniteSet(Handed(s, k)) /\ Cardinality(Handed(s, k)) \in Nat
  <2>1. Handed(s, k) \in SUBSET DOMAIN s
    BY DEF Handed
  <2> QED BY <2>1, PlacesFinite
<1> QED BY <1>1, <1>2

\* A place added at the end.
LEMMA CarryingAppend ==
    ASSUME NEW k \in Nat, NEW s \in Seq(Datagram), NEW d \in Datagram
    PROVE  Cardinality(Carrying(Append(s, d), k))
             = Cardinality(Carrying(s, k)) + (IF Carries(d, k) THEN 1 ELSE 0)
<1> DEFINE n == Len(s) + 1
<1>1. /\ Len(s) \in Nat /\ DOMAIN s = 1..Len(s)
      /\ DOMAIN Append(s, d) = 1..n
      /\ \A i \in 1..Len(s) : Append(s, d)[i] = s[i]
      /\ Append(s, d)[n] = d
  BY AppendProperties, LenProperties
<1>2. n \notin Carrying(s, k)
  BY <1>1 DEF Carrying
<1>3. Carrying(Append(s, d), k)
        = IF Carries(d, k) THEN Carrying(s, k) \cup {n} ELSE Carrying(s, k)
  BY <1>1 DEF Carrying, Carries
<1>4. IsFiniteSet(Carrying(s, k)) /\ Cardinality(Carrying(s, k)) \in Nat
  BY CountTypes
<1>5. Cardinality(Carrying(s, k) \cup {n}) = Cardinality(Carrying(s, k)) + 1
  BY <1>2, <1>4, FS_AddElement
<1> QED BY <1>3, <1>4, <1>5

LEMMA HandedAppend ==
    ASSUME NEW k \in Nat, NEW s \in Seq(Nat), NEW m \in Nat
    PROVE  Cardinality(Handed(Append(s, m), k))
             = Cardinality(Handed(s, k)) + (IF m = k THEN 1 ELSE 0)
<1> DEFINE n == Len(s) + 1
<1>1. /\ Len(s) \in Nat /\ DOMAIN s = 1..Len(s)
      /\ DOMAIN Append(s, m) = 1..n
      /\ \A i \in 1..Len(s) : Append(s, m)[i] = s[i]
      /\ Append(s, m)[n] = m
  BY AppendProperties, LenProperties
<1>2. n \notin Handed(s, k)
  BY <1>1 DEF Handed
<1>3. Handed(Append(s, m), k)
        = IF m = k THEN Handed(s, k) \cup {n} ELSE Handed(s, k)
  BY <1>1 DEF Handed
<1>4. IsFiniteSet(Handed(s, k)) /\ Cardinality(Handed(s, k)) \in Nat
  BY CountTypes
<1>5. Cardinality(Handed(s, k) \cup {n}) = Cardinality(Handed(s, k)) + 1
  BY <1>2, <1>4, FS_AddElement
<1> QED BY <1>3, <1>4, <1>5

\* The places of Tail(s) are those of s but the first, moved by one.
LEMMA CarryingTail ==
    ASSUME NEW k \in Nat, NEW s \in Seq(Datagram), s # <<>>
    PROVE  Cardinality(Carrying(Tail(s), k))
             + (IF Carries(Head(s), k) THEN 1 ELSE 0)
             <= Cardinality(Carrying(s, k))
<1> DEFINE S == Carrying(s, k)
           T == Carrying(Tail(s), k)
           f == [i \in T |-> i + 1]
<1>1. Len(s) \in Nat /\ Len(s) > 0 /\ DOMAIN s = 1..Len(s) /\ Head(s) = s[1]
  BY EmptySeq, LenProperties
<1>2. /\ Tail(s) \in Seq(Datagram) /\ Len(Tail(s)) = Len(s) - 1
      /\ \A i \in 1..Len(Tail(s)) : Tail(s)[i] = s[i + 1]
  BY <1>1
<1>3. DOMAIN Tail(s) = 1..(Len(s) - 1)
  BY <1>2, LenProperties
<1>4. \A i \in T : i \in 1..(Len(s) - 1) /\ i + 1 \in S \ {1}
  BY <1>1, <1>2, <1>3 DEF Carrying
<1>5. IsFiniteSet(S) /\ Cardinality(S) \in Nat
  BY CountTypes
<1>6. /\ IsFiniteSet(S \ {1})
      /\ Cardinality(S \ {1}) = IF 1 \in S THEN Cardinality(S) - 1 ELSE Cardinality(S)
  BY <1>5, FS_RemoveElement
<1> HIDE DEF S, T
<1>7. f \in Injection(T, S \ {1})
  <2>1. f \in [T -> S \ {1}]
    BY <1>4
  <2>2. \A a, b \in T : f[a] = f[b] => a = b
    BY <1>4
  <2> QED BY <2>1, <2>2, Fun_IsInj
<1>8. Cardinality(T) <= Cardinality(S \ {1})
  BY <1>6, <1>7, FS_Injection
<1>9. Carries(Head(s), k) <=> 1 \in S
  BY <1>1 DEF Carrying, Carries, S
<1>10. Cardinality(T) \in Nat
  BY <1>2, CountTypes DEF T
<1> QED BY <1>5, <1>6, <1>8, <1>9, <1>10 DEF S, T

LEMMA CarryingRemoved ==
    ASSUME NEW k \in Nat, NEW s \in Seq(Datagram), NEW i \in DOMAIN s
    PROVE  Cardinality(Carrying(RemoveAt(s, i), k)) <= Cardinality(Carrying(s, k))
<1> DEFINE r == RemoveAt(s, i)
           S == Carrying(s, k)
           T == Carrying(r, k)
           f == [j \in T |-> IF j < i THEN j ELSE j + 1]
<1>1. Len(s) \in Nat /\ DOMAIN s = 1..Len(s) /\ i \in 1..Len(s)
  BY LenProperties
<1>2. /\ DOMAIN r = 1..(Len(s) - 1)
      /\ \A j \in DOMAIN r : r[j] = IF j < i THEN s[j] ELSE s[j + 1]
  <2> DEFINE a == SubSeq(s, 1, i - 1)
             b == SubSeq(s, i + 1, Len(s))
  <2>1. /\ a \in Seq(Datagram) /\ Len(a) = i - 1
        /\ \A j \in 1..(i - 1) : a[j] = s[j]
    BY <1>1, SubSeqProperties
  <2>2. /\ b \in Seq(Datagram) /\ Len(b) = Len(s) - i
        /\ \A j \in 1..(Len(s) - i) : b[j] = s[i + j]
    BY <1>1, SubSeqProperties
  <2>3. r = a \o b
    BY DEF RemoveAt
  <2> HIDE DEF a, b
  <2>4. /\ a \o b \in Seq(Datagram)
        /\ Len(a \o b) = Len(a) + Len(b)
        /\ \A j \in 1..(Len(a) + Len(b)) :
              (a \o b)[j] = IF j <= Len(a) THEN a[j] ELSE b[j - Len(a)]
    BY <2>1, <2>2, ConcatProperties, Zenon
  <2>5. Len(a) + Len(b) = Len(s) - 1
    BY <1>1, <2>1, <2>2
  <2>6. DOMAIN r = 1..(Len(s) - 1)
    BY <2>3, <2>4, <2>5, LenProperties
  <2>7. ASSUME NEW j \in 1..(Len(s) - 1)
        PROVE  r[j] = IF j < i THEN s[j] ELSE s[j + 1]
    <3>1. CASE j < i
      <4>1. j \in 1..(i - 1) /\ j \in 1..(Len(a) + Len(b)) /\ j <= Len(a)
        BY <1>1, <2>1, <2>5, <3>1
      <4> QED BY <2>1, <2>3, <2>4, <3>1, <4>1
    <3>2. CASE ~(j < i)
      <4>1. /\ j \in 1..(Len(a) + Len(b)) /\ ~(j <= Len(a))
            /\ j - (i - 1) \in 1..(Len(s) - i) /\ i + (j - (i - 1)) = j + 1
        BY <1>1, <2>1, <2>5, <3>2
      <4>2. r[j] = b[j - (i - 1)]
        BY <2>1, <2>3, <2>4, <4>1
      <4> QED BY <2>2, <3>2, <4>1, <4>2
    <3> QED BY <3>1, <3>2
  <2> QED BY <2>6, <2>7
<1> HIDE DEF r
<1>3. \A j \in T : j \in 1..(Len(s) - 1) /\ (IF j < i THEN j ELSE j + 1) \in S
  BY <1>1, <1>2 DEF Carrying
<1>4. IsFiniteSet(S)
  BY CountTypes
<1> HIDE DEF S, T
<1>5. f \in Injection(T, S)
  <2>1. f \in [T -> S]
    BY <1>3
  <2>2. \A x, y \in T : f[x] = f[y] => x = y
    BY <1>1, <1>3
  <2> QED BY <2>1, <2>2, Fun_IsInj
<1>6. Cardinality(T) <= Cardinality(S)
  BY <1>4, <1>5, FS_Injection
<1> QED BY <1>6 DEF S, T, r

LEMMA NothingCarried ==
    ASSUME NEW k
    PROVE  Cardinality(Carrying(<<>>, k)) = 0 /\ Cardinality(Handed(<<>>, k)) = 0
<1>1. Carrying(<<>>, k) = {} /\ Handed(<<>>, k) = {}
  BY DEF Carrying, Handed
<1> QED BY <1>1, FS_EmptySet

-----------------------------------------------------------------------------
(* What a step does to the copies of a message and to the tries of its call.*)

LEMMA SendsLastStep ==
    ASSUME TypeOK, CallSendsLast, NEW p \in Peers,
           Step(p) \/ Application(p) \/ Environment(p)
    PROVE  CallSendsLast'
<1>1. ASSUME KeepsSends, UNCHANGED sent PROVE CallSendsLast'
  BY <1>1 DEF KeepsSends, CallSendsLast
<1>2. KeepsCalls => KeepsSends
  BY DEF KeepsCalls, KeepsSends
<1>3. CASE Quiet
  BY <1>1, <1>2, <1>3 DEF Quiet
<1>4. CASE Transmit(p)
  BY <1>1, <1>2, <1>4, TransmitEffect
<1>5. CASE Answer(p) /\ Answers(p, Head(net[p]))
  BY <1>1, <1>2, <1>5, AnswerEffect
<1>6. CASE RecvDatagram(p)
  BY <1>1, <1>2, <1>6, RecvDatagramEffect DEF RecvDatagram
<1>7. CASE RecvAckFails(p)
  BY <1>1, <1>7, RecvAckFailsEffect
<1>8. CASE SendCall(p)
  <2>1. PICK len \in Lengths :
          /\ Begin(p, "send", DataPacket(p, len))
          /\ sent' = [sent EXCEPT
                        ![p] = Append(@, [seq |-> ctl[p].seq, len |-> len])]
    BY <1>8 DEF SendCall
  <2>2. DataPacket(p, len) \in Datagram /\ len \in Nat
    BY PacketTypes, RudpAssumption
  <2>3. /\ \A q \in Peers : q # p => call'[q] = call[q] /\ sent'[q] = sent[q]
        /\ call'[p].pkt = DataPacket(p, len) /\ call'[p].op = "send"
    BY <2>1, <2>2, BeginEffect DEF TypeOK
  <2>4. Len(sent'[p]) = Len(sent[p]) + 1 /\ Len(sent[p]) \in Nat
    <3>1. [seq |-> ctl[p].seq, len |-> len] \in [seq : Nat, len : Nat]
      BY <2>2 DEF TypeOK, Header
    <3>2. sent[p] \in Seq([seq : Nat, len : Nat])
      BY DEF TypeOK
    <3>3. sent'[p] = Append(sent[p], [seq |-> ctl[p].seq, len |-> len])
      BY <2>1 DEF TypeOK
    <3> QED BY <3>1, <3>2, <3>3, AppendProperties, LenProperties
  <2> QED BY <2>3, <2>4 DEF CallSendsLast, InSend, DataPacket
<1>9. CASE CloseCall(p)
  <2>1. FinPacket(p) \in Datagram /\ Begin(p, "close", FinPacket(p))
    BY <1>9, PacketTypes DEF CloseCall
  <2>2. /\ \A q \in Peers : q # p => call'[q] = call[q]
        /\ call'[p].pkt = FinPacket(p) /\ call'[p].op = "close"
    BY <2>1, BeginEffect
  <2> QED BY <1>9, <2>2 DEF CallSendsLast, InSend, FinPacket, CloseCall
<1> QED BY <1>3, <1>4, <1>5, <1>6, <1>7, <1>8, <1>9, StepKinds DEF Loud

LEMMA CopiesTypes ==
    ASSUME TypeOK, NEW p \in Peers, NEW k \in Nat
    PROVE  /\ Cardinality(Handed(delivered[Other(p)], k)) \in Nat
           /\ Cardinality(Carrying(net[Other(p)], k)) \in Nat
           /\ Copies(p, k) \in Nat
<1>1. delivered[Other(p)] \in Seq(Nat) /\ net[Other(p)] \in Seq(Datagram)
  BY OtherPeer DEF TypeOK
<1>2. /\ Cardinality(Handed(delivered[Other(p)], k)) \in Nat
      /\ Cardinality(Carrying(net[Other(p)], k)) \in Nat
  BY <1>1, CountTypes, Zenon
<1> QED BY <1>2 DEF Copies

\* Put adds at most one copy, and none of what it does not carry.
LEMMA PutCopies ==
    ASSUME NEW n \in [Peers -> Seq(Datagram)], NEW x \in Peers, NEW q \in Peers,
           NEW d \in Datagram, NEW k \in Nat
    PROVE  Cardinality(Carrying(Put(n, x, d)[q], k))
             <= Cardinality(Carrying(n[q], k))
                  + (IF x = q /\ Carries(d, k) THEN 1 ELSE 0)
<1>1. Cardinality(Carrying(n[q], k)) \in Nat
  BY CountTypes
<1>2. CASE Put(n, x, d)[q] = n[q]
  BY <1>1, <1>2
<1>3. CASE x = q /\ Put(n, x, d)[q] = Append(n[q], d)
  BY <1>1, <1>3, CarryingAppend
<1> QED BY <1>2, <1>3 DEF Put

\* The datagrams on their way to q lose some copies of k at most.
LEMMA FewerCarried ==
    ASSUME TypeOK, NEW q \in Peers, NEW r \in Peers, NEW k \in Nat,
           \/ UNCHANGED net
           \/ net' = [net EXCEPT ![r] = <<>>]
           \/ net[r] # <<>> /\ net' = [net EXCEPT ![r] = Tail(@)]
           \/ \E i \in DOMAIN net[r] : net' = [net EXCEPT ![r] = RemoveAt(@, i)]
           \/ Len(net[r]) > 1 /\ net' = [net EXCEPT ![r] = Append(Tail(@), Head(@))]
    PROVE  Cardinality(Carrying(net'[q], k)) <= Cardinality(Carrying(net[q], k))
<1>1. net[q] \in Seq(Datagram) /\ Cardinality(Carrying(net[q], k)) \in Nat
  BY CountTypes DEF TypeOK
<1>2. CASE net'[q] = net[q]
  BY <1>1, <1>2
<1>3. CASE net'[q] = <<>>
  BY <1>1, <1>3, NothingCarried
<1>4. CASE net[q] # <<>> /\ net'[q] = Tail(net[q])
  <2>1. Cardinality(Carrying(Tail(net[q]), k)) \in Nat
    BY <1>1, <1>4, ToSetOfTail, CountTypes
  <2> QED BY <1>1, <1>4, <2>1, CarryingTail
<1>5. CASE \E i \in DOMAIN net[q] : net'[q] = RemoveAt(net[q], i)
  BY <1>1, <1>5, CarryingRemoved
<1>6. CASE Len(net[q]) > 1 /\ net'[q] = Append(Tail(net[q]), Head(net[q]))
  <2>1. net[q] # <<>>
    BY <1>1, <1>6, EmptySeq
  <2>2. Head(net[q]) \in Datagram /\ Tail(net[q]) \in Seq(Datagram)
    BY <1>1, <2>1, ToSetOfTail
  <2>3. Cardinality(Carrying(Tail(net[q]), k)) \in Nat
    BY <2>2, CountTypes
  <2>4. Cardinality(Carrying(net'[q], k))
          = Cardinality(Carrying(Tail(net[q]), k))
              + (IF Carries(Head(net[q]), k) THEN 1 ELSE 0)
    BY <1>6, <2>2, CarryingAppend
  <2>5. Cardinality(Carrying(Tail(net[q]), k))
          + (IF Carries(Head(net[q]), k) THEN 1 ELSE 0)
          <= Cardinality(Carrying(net[q], k))
    BY <1>1, <2>1, CarryingTail
  <2> QED BY <2>4, <2>5
<1>7. net \in [Peers -> Seq(Datagram)]
  BY DEF TypeOK
<1> QED BY <1>2, <1>3, <1>4, <1>5, <1>6, <1>7

LEMMA FewerCopies ==
    ASSUME TypeOK, TypeOK', NEW p \in Peers, NEW r \in Peers, NEW k \in Nat,
           UNCHANGED delivered,
           \/ UNCHANGED net
           \/ net' = [net EXCEPT ![r] = <<>>]
           \/ net[r] # <<>> /\ net' = [net EXCEPT ![r] = Tail(@)]
           \/ \E i \in DOMAIN net[r] : net' = [net EXCEPT ![r] = RemoveAt(@, i)]
           \/ Len(net[r]) > 1 /\ net' = [net EXCEPT ![r] = Append(Tail(@), Head(@))]
    PROVE  Copies(p, k)' <= Copies(p, k)
<1> DEFINE q == Other(p)
           held == Cardinality(Handed(delivered[q], k))
           carried == Cardinality(Carrying(net[q], k))
<1>1. q \in Peers
  BY OtherPeer
<1>2. carried' <= carried
  BY <1>1, FewerCarried
<1>3. Copies(p, k)' = held + carried'
  BY DEF Copies
<1>4. Copies(p, k) = held + carried
  BY DEF Copies
<1>5. held \in Nat /\ carried \in Nat
  BY CopiesTypes
<1>6. carried' \in Nat
  <2>1. net'[q] \in Seq(Datagram)
    BY <1>1 DEF TypeOK
  <2> QED BY <2>1, CountTypes
<1>7. held + carried' <= held + carried
  BY <1>2, <1>5, <1>6
<1> QED BY <1>3, <1>4, <1>7

\* A step hands over and loses copies on their way; only a transmission and a
\* duplication add one.
LEMMA CopiesStep ==
    ASSUME TypeOK, TypeOK', NEW r \in Peers,
           Step(r) \/ Application(r) \/ Environment(r),
           NEW p \in Peers, NEW k \in Nat
    PROVE  \/ Copies(p, k)' <= Copies(p, k)
           \/ /\ Transmit(r) /\ r = p /\ Carries(call[p].pkt, k)
              /\ Copies(p, k)' <= Copies(p, k) + 1
           \/ /\ Duplicate(r)
              /\ Copies(p, k) > 0 /\ Copies(p, k)' <= Copies(p, k) + 1
<1> DEFINE q == Other(p)
           held == Cardinality(Handed(delivered[q], k))
           carried == Cardinality(Carrying(net[q], k))
<1>0. /\ q \in Peers /\ Other(r) \in Peers /\ Other(r) # r
      /\ net[q] \in Seq(Datagram) /\ net[r] \in Seq(Datagram)
      /\ delivered[q] \in Seq(Nat) /\ net \in [Peers -> Seq(Datagram)]
  BY OtherPeer DEF TypeOK
<1>a. held \in Nat /\ carried \in Nat /\ held' \in Nat /\ carried' \in Nat
  <2>1. net'[q] \in Seq(Datagram) /\ delivered'[q] \in Seq(Nat)
    BY <1>0 DEF TypeOK
  <2> QED BY <1>0, <2>1, CountTypes
<1>b. Copies(p, k) = held + carried /\ Copies(p, k)' = held' + carried'
  BY DEF Copies
<1>1. CASE /\ UNCHANGED delivered
           /\ \/ UNCHANGED net
              \/ net' = [net EXCEPT ![r] = <<>>]
              \/ net[r] # <<>> /\ net' = [net EXCEPT ![r] = Tail(@)]
              \/ \E i \in DOMAIN net[r] : net' = [net EXCEPT ![r] = RemoveAt(@, i)]
              \/ Len(net[r]) > 1 /\ net' = [net EXCEPT ![r] = Append(Tail(@), Head(@))]
  BY <1>1, FewerCopies
<1>2. CASE \/ Application(r) \/ Answer(r) \/ SendTimeout(r) \/ RecvTimeout(r)
           \/ SendtoFails(r) \/ SendInterrupted(r) \/ RecvInterrupted(r)
           \/ PollInterrupted(r)
  <2>1. UNCHANGED delivered
    BY <1>2 DEF Application, SendCall, CloseCall, RecvCall, CloseSocket, Answer,
         SendTimeout, RecvTimeout, SendtoFails, SendInterrupted, RecvInterrupted,
         PollInterrupted, history
  <2>2. \/ UNCHANGED net
        \/ net' = [net EXCEPT ![r] = <<>>]
        \/ net[r] # <<>> /\ net' = [net EXCEPT ![r] = Tail(@)]
    BY <1>2 DEF Application, SendCall, CloseCall, RecvCall, CloseSocket, Answer,
         SendTimeout, RecvTimeout, SendtoFails, SendInterrupted, RecvInterrupted,
         PollInterrupted, history
  <2> QED BY <1>1, <2>1, <2>2
<1>3. CASE RecvAckFails(r) \/ Drop(r) \/ Reorder(r)
  BY <1>1, <1>3 DEF RecvAckFails, Drop, Reorder, history
<1>4. CASE Transmit(r)
  <2>1. /\ InSend(r) /\ call[r].pkt \in Datagram
        /\ net' = Put(net, Other(r), call[r].pkt) /\ UNCHANGED delivered
    BY <1>4, CallTypes DEF Transmit, AtSendto, history
  <2>2. carried' <= carried + (IF Other(r) = q /\ Carries(call[r].pkt, k) THEN 1 ELSE 0)
    BY <1>0, <2>1, PutCopies
  <2>3. held' = held
    BY <2>1
  <2>4. Other(r) = q => r = p
    BY OtherPeer
  <2>5. CASE Other(r) = q /\ Carries(call[r].pkt, k)
    <3>1. held' + carried' <= held + carried + 1
      BY <1>a, <2>2, <2>3, <2>5
    <3>2. Copies(p, k)' <= Copies(p, k) + 1
      BY <1>b, <3>1
    <3> QED BY <1>4, <2>4, <2>5, <3>2
  <2>6. CASE ~(Other(r) = q /\ Carries(call[r].pkt, k))
    <3>1. held' + carried' <= held + carried
      BY <1>a, <2>2, <2>3, <2>6
    <3> QED BY <1>b, <3>1
  <2> QED BY <2>5, <2>6
<1>5. CASE RecvDatagram(r)
  <2> DEFINE d == Head(net[r])
             n == [net EXCEPT ![r] = Tail(@)]
             a == [ctl[r] EXCEPT !.ack = Advance(@, d)]
  <2>1. /\ net[r] # <<>> /\ d \in Datagram /\ Tail(net[r]) \in Seq(Datagram)
        /\ n \in [Peers -> Seq(Datagram)]
    BY <1>0, <1>5, ToSetOfTail DEF RecvDatagram
  <2>2. AckPacket(a) \in Datagram /\ ~Carries(AckPacket(a), k)
    <3>1. Advance(ctl[r].ack, d) \in Nat
      BY <2>1, AdvanceType DEF TypeOK, Header
    <3>2. ctl[r] \in Header
      BY DEF TypeOK
    <3>3. a \in Header
      BY <3>1, <3>2 DEF Header
    <3> QED BY <3>3, PacketTypes DEF AckPacket, Carries
  <2>3. net' = Put(n, Other(r), AckPacket(a))
    BY <1>5 DEF RecvDatagram
  <2>4. carried' <= Cardinality(Carrying(n[q], k))
    <3>1. Cardinality(Carrying(n[q], k)) \in Nat
      BY <1>0, <2>1, CountTypes
    <3> HIDE DEF n, a
    <3>2. Cardinality(Carrying(Put(n, Other(r), AckPacket(a))[q], k))
            <= Cardinality(Carrying(n[q], k))
                 + (IF Other(r) = q /\ Carries(AckPacket(a), k) THEN 1 ELSE 0)
      BY <1>0, <2>1, <2>2, PutCopies
    <3> QED BY <2>2, <2>3, <3>1, <3>2
  <2>5. CASE r # q
    <3>1. delivered'[q] = delivered[q] /\ n[q] = net[q]
      BY <1>0, <1>5, <2>5 DEF RecvDatagram, TypeOK
    <3>2. held' + carried' <= held + carried
      <4>1. held' = held /\ carried' <= carried
        BY <2>4, <3>1
      <4> QED BY <1>a, <4>1
    <3> QED BY <1>b, <3>2
  <2>6. CASE r = q
    <3>1. n[q] = Tail(net[q])
      BY <1>0, <2>6
    <3>2. carried' + (IF Carries(d, k) THEN 1 ELSE 0) <= carried
      <4>1. Cardinality(Carrying(Tail(net[q]), k)) \in Nat
        BY <2>1, <2>6, CountTypes
      <4>2. Cardinality(Carrying(Tail(net[q]), k))
              + (IF Carries(d, k) THEN 1 ELSE 0) <= carried
        BY <1>0, <2>1, <2>6, CarryingTail
      <4>3. carried' <= Cardinality(Carrying(Tail(net[q]), k))
        BY <2>4, <3>1
      <4> QED BY <1>a, <4>1, <4>2, <4>3
    <3>3. held' <= held + (IF Carries(d, k) THEN 1 ELSE 0)
      <4>1. d.msg \in Nat
        BY <2>1 DEF Datagram
      <4>2. \/ delivered'[q] = delivered[q]
            \/ d.flag = "DATA" /\ delivered'[q] = Append(delivered[q], d.msg)
        BY <1>0, <1>5, <2>6 DEF RecvDatagram, TypeOK
      <4>3. CASE delivered'[q] = delivered[q]
        BY <1>a, <4>3
      <4>4. CASE d.flag = "DATA" /\ delivered'[q] = Append(delivered[q], d.msg)
        <5>1. held' = held + (IF d.msg = k THEN 1 ELSE 0)
          BY <1>0, <4>1, <4>4, HandedAppend
        <5> QED BY <1>a, <4>4, <5>1 DEF Carries
      <4> QED BY <4>2, <4>3, <4>4
    <3>4. held' + carried' <= held + carried
      BY <1>a, <3>2, <3>3
    <3> QED BY <1>b, <3>4
  <2> QED BY <2>5, <2>6
<1>6. CASE Duplicate(r)
  <2>1. PICK i \in DOMAIN net[r] : net' = [net EXCEPT ![r] = Append(net[r], net[r][i])]
    BY <1>6 DEF Duplicate
  <2>2. UNCHANGED delivered /\ net[r][i] \in Datagram
    BY <1>0, <1>6, ElementsInToSet DEF Duplicate, history
  <2>3. CASE r = q /\ Carries(net[r][i], k)
    <3>1. carried' = carried + 1
      <4>1. net'[q] = Append(net[q], net[q][i])
        BY <1>0, <2>1, <2>3
      <4>2. carried' = carried + (IF Carries(net[q][i], k) THEN 1 ELSE 0)
        BY <1>0, <2>2, <2>3, <4>1, CarryingAppend
      <4> QED BY <2>3, <4>2
    <3>2. carried # 0
      <4>1. i \in Carrying(net[q], k)
        BY <2>1, <2>3 DEF Carrying, Carries
      <4>2. IsFiniteSet(Carrying(net[q], k))
        BY <1>0, CountTypes
      <4> QED BY <4>1, <4>2, FS_EmptySet
    <3>3. held' = held
      BY <2>2
    <3>4. held + carried > 0 /\ held' + carried' <= held + carried + 1
      BY <1>a, <3>1, <3>2, <3>3
    <3> QED BY <1>6, <1>b, <3>4
  <2>4. CASE ~(r = q /\ Carries(net[r][i], k))
    <3>1. carried' = carried
      <4>1. CASE r # q
        <5>1. net'[q] = net[q]
          BY <1>0, <2>1, <4>1
        <5> QED BY <5>1
      <4>2. CASE r = q
        <5>1. net'[q] = Append(net[q], net[q][i])
          BY <1>0, <2>1, <4>2
        <5>2. carried' = carried + (IF Carries(net[q][i], k) THEN 1 ELSE 0)
          BY <1>0, <2>2, <4>2, <5>1, CarryingAppend
        <5> QED BY <1>a, <2>4, <4>2, <5>2
      <4> QED BY <4>1, <4>2
    <3>2. held' = held
      BY <2>2
    <3>3. held' + carried' <= held + carried
      BY <1>a, <3>1, <3>2
    <3> QED BY <1>b, <3>3
  <2> QED BY <2>3, <2>4
<1> QED BY <1>2, <1>3, <1>4, <1>5, <1>6 DEF Step, Environment

-----------------------------------------------------------------------------
(* The tries of a call, and the faults that pay for more.                   *)

LEMMA TriesType ==
    ASSUME TypeOK, NEW p \in Peers, NEW k
    PROVE  Tries(p, k) \in 0..N_ATTEMPT
<1>1. Pending(p, k) => call[p].i \in 0..(N_ATTEMPT - 1)
  BY CallTypes DEF Pending
<1> QED BY <1>1, RudpAssumption DEF Tries

\* A call that is over counts as all its tries.
LEMMA TriesOver ==
    ASSUME TypeOK, NEW p \in Peers, NEW k, ~Pending(p, k)'
    PROVE  Tries(p, k)' >= Tries(p, k)
<1>1. Tries(p, k)' = N_ATTEMPT
  BY DEF Tries
<1> QED BY <1>1, TriesType, RudpAssumption

LEMMA OverInCall ==
    ASSUME NEW p \in Peers, NEW k, TypeOK, NEW r, Return(p, r)
    PROVE  ~Pending(p, k)'
  BY DEF Return, Pending, InSend, Idle, TypeOK

\* Trying again is no transmission.
LEMMA RetryTries ==
    ASSUME TypeOK, NEW p \in Peers, NEW k, AtAnswer(p), Retry(p), UNCHANGED sent
    PROVE  Tries(p, k)' >= Tries(p, k)
<1>1. CASE call[p].i + 1 < N_ATTEMPT
  <2>1. call'[p] = [call[p] EXCEPT !.i = @ + 1, !.at = "sendto"]
    BY <1>1 DEF Retry, TypeOK
  <2>2. /\ call[p].i \in 0..(N_ATTEMPT - 1) /\ call[p].at = "recvfrom"
        /\ call'[p].op = call[p].op
        /\ call'[p].i = call[p].i + 1 /\ call'[p].at = "sendto"
    BY <2>1, CallTypes DEF AtAnswer
  <2>3. Pending(p, k)' <=> Pending(p, k)
    BY <2>2 DEF Pending, InSend
  <2>4. CASE Pending(p, k)
    <3>1. Tries(p, k)' = call[p].i + 1 /\ Tries(p, k) = call[p].i + 1
      BY <2>2, <2>3, <2>4 DEF Tries
    <3> QED BY <2>2, <3>1
  <2>5. CASE ~Pending(p, k)
    BY <2>3, <2>5, TriesOver
  <2> QED BY <2>4, <2>5
<1>2. CASE Return(p, "exceeded")
  BY <1>2, OverInCall, TriesOver
<1> QED BY <1>1, <1>2 DEF Retry, Fail

\* The other peer's steps leave p's tries alone.
LEMMA SameTries ==
    ASSUME NEW p \in Peers, NEW k, call'[p] = call[p], sent'[p] = sent[p]
    PROVE  Tries(p, k)' = Tries(p, k)
  BY DEF Tries, Pending, InSend

LEMMA SentKept ==
    ASSUME TypeOK, NEW p \in Peers, Step(p) \/ Application(p) \/ Environment(p)
    PROVE  \/ UNCHANGED sent
           \/ SendCall(p) /\ \A q \in Peers : q # p => sent'[q] = sent[q]
<1>1. SendCall(p) => \A q \in Peers : q # p => sent'[q] = sent[q]
  BY DEF SendCall, TypeOK
<1>2. SendCall(p) \/ UNCHANGED sent
  BY Zenon DEF Step, Application, Environment, Transmit, Answer, SendTimeout, RecvDatagram,
       RecvTimeout, CloseCall, RecvCall, CloseSocket, SendtoFails,
       SendInterrupted, RecvAckFails, RecvInterrupted, PollInterrupted, Drop,
       Duplicate, Reorder, history
<1> QED BY <1>1, <1>2

LEMMA FaultsGrow ==
    ASSUME TypeOK, NEW p \in Peers, Step(p) \/ Application(p) \/ Environment(p)
    PROVE  /\ faults' \in Nat
           /\ faults' >= faults
           /\ Duplicate(p) => faults' = faults + 1
<1>1. UNCHANGED faults \/ faults' = faults + 1
  BY Zenon DEF Step, Application, Environment, Transmit, Answer, SendTimeout, RecvDatagram,
       RecvTimeout, SendCall, CloseCall, RecvCall, CloseSocket, SendtoFails,
       SendInterrupted, RecvAckFails, RecvInterrupted, PollInterrupted, Drop,
       Duplicate, Reorder, Fault, history
<1> QED BY <1>1 DEF TypeOK, Duplicate, Fault

\* The count of tries of a message never falls, and rises with a transmission.
LEMMA TriesStep ==
    ASSUME TypeOK, CallSendsLast, NEW r \in Peers,
           Step(r) \/ Application(r) \/ Environment(r),
           NEW p \in Peers, NEW k \in 1..Len(sent[p])
    PROVE  /\ Tries(p, k)' >= Tries(p, k)
           /\ Transmit(r) /\ r = p /\ Carries(call[p].pkt, k) =>
                 Tries(p, k)' >= Tries(p, k) + 1
<1>1. CASE r # p
  <2>1. call'[p] = call[p] /\ sent'[p] = sent[p]
    BY <1>1, OnlyCaller, SentKept DEF OnlyOf
  <2> QED BY <1>1, <2>1, SameTries, TriesType, RudpAssumption
<1>2. CASE r = p /\ Transmit(p)
  <2>1. /\ InSend(p) /\ call[p].at = "sendto" /\ call[p].i \in 0..(N_ATTEMPT - 1)
        /\ UNCHANGED sent
    BY <1>2, CallTypes DEF Transmit, AtSendto, history
  <2>2. Carries(call[p].pkt, k) => Pending(p, k)
    BY <2>1 DEF CallSendsLast, Carries, Pending
  <2>3. Pending(p, k) => Tries(p, k) = call[p].i
    BY <2>1 DEF Tries
  <2>4. CASE errno[p] = "EAGAIN"
    <3>1. ~Pending(p, k)'
      BY <1>2, <2>4, OverInCall DEF Transmit, Fail
    <3>2. Tries(p, k)' = N_ATTEMPT
      BY <3>1 DEF Tries
    <3>3. Tries(p, k)' >= Tries(p, k)
      BY <3>1, TriesOver
    <3> QED BY <1>2, <2>1, <2>2, <2>3, <3>2, <3>3, RudpAssumption
  <2>5. CASE errno[p] # "EAGAIN"
    <3>1. call'[p] = [call[p] EXCEPT !.at = "recvfrom"]
      BY <1>2, <2>5 DEF Transmit, TypeOK
    <3>2. /\ call'[p].op = call[p].op /\ call'[p].i = call[p].i
          /\ call'[p].at = "recvfrom"
      BY <2>1, <3>1, CallTypes
    <3>3. Pending(p, k)' <=> Pending(p, k)
      BY <2>1, <3>2 DEF Pending, InSend
    <3>4. CASE Pending(p, k)
      <4>1. Tries(p, k)' = call[p].i + 1
        BY <3>2, <3>3, <3>4 DEF Tries
      <4> QED BY <2>1, <2>3, <3>4, <4>1
    <3>5. CASE ~Pending(p, k)
      BY <2>2, <3>3, <3>5, TriesOver
    <3> QED BY <3>4, <3>5
  <2> QED BY <2>4, <2>5
<1>3. CASE r = p /\ (Answer(p) \/ SendInterrupted(p))
  <2>1. AtAnswer(p) /\ UNCHANGED sent /\ ((\E x : Return(p, x)) \/ Retry(p)) /\ ~Transmit(p)
    BY <1>3, CallTypes
       DEF Answer, SendInterrupted, Succeed, history, Transmit, AtSendto, AtAnswer
  <2> QED BY <1>3, <2>1, OverInCall, TriesOver, RetryTries
<1>4. CASE r = p /\ ~Transmit(p) /\ ~Answer(p) /\ ~SendInterrupted(p)
  <2>1. CASE ~Pending(p, k)'
    BY <1>4, <2>1, TriesOver
  <2>2. CASE Pending(p, k)'
    <3>1. CASE SendCall(p) \/ CloseCall(p)
      <4>1. CASE SendCall(p)
        <5>1. Len(sent'[p]) = Len(sent[p]) + 1 /\ Len(sent[p]) \in Nat
          <6>1. PICK len \in Lengths :
                  sent' = [sent EXCEPT
                             ![p] = Append(@, [seq |-> ctl[p].seq, len |-> len])]
            BY <4>1 DEF SendCall
          <6>2. [seq |-> ctl[p].seq, len |-> len] \in [seq : Nat, len : Nat]
            BY RudpAssumption DEF TypeOK, Header
          <6>3. sent[p] \in Seq([seq : Nat, len : Nat])
            BY DEF TypeOK
          <6>4. sent'[p] = Append(sent[p], [seq |-> ctl[p].seq, len |-> len])
            BY <6>1 DEF TypeOK
          <6> QED BY <6>2, <6>3, <6>4, AppendProperties, LenProperties
        <5>2. k # Len(sent'[p])
          BY <5>1
        <5> QED BY <2>2, <5>2 DEF Pending
      <4>2. CASE CloseCall(p)
        <5>1. FinPacket(p) \in Datagram /\ Begin(p, "close", FinPacket(p))
          BY <4>2, PacketTypes DEF CloseCall
        <5>2. call'[p].op = "close"
          BY <5>1, BeginEffect
        <5> QED BY <2>2, <5>2 DEF Pending
      <4> QED BY <3>1, <4>1, <4>2
    <3>2. CASE SendTimeout(p) \/ SendtoFails(p) \/ RecvDatagram(p) \/ RecvTimeout(p)
      <4>1. \E x : Return(p, x)
        BY <3>2 DEF SendTimeout, SendtoFails, RecvDatagram, RecvTimeout, Fail
      <4> QED BY <2>2, <4>1, OverInCall
    <3>3. CASE RecvCall(p) \/ CloseSocket(p)
      BY <2>2, <3>3 DEF RecvCall, CloseSocket, Pending, InSend, Receiving, TypeOK
    <3>4. CASE RecvAckFails(p) \/ RecvInterrupted(p)
      <4>1. InRecv(p) /\ \E f \in BOOLEAN : RecvAgain(p, f)
        <5>1. InRecv(p)
          BY <3>4 DEF RecvAckFails, RecvInterrupted
        <5>2. call[p].fin \in BOOLEAN
          BY <5>1, CallTypes
        <5> QED BY <3>4, <5>1, <5>2 DEF RecvAckFails, RecvInterrupted, SeenFin
      <4>2. ~InSend(p)'
        <5>1. PICK f \in BOOLEAN : RecvAgain(p, f)
          BY <4>1
        <5>2. CASE call[p].i + 1 < N_ATTEMPT
          <6>1. call'[p] = [call[p] EXCEPT !.i = @ + 1, !.fin = f]
            BY <5>1, <5>2 DEF RecvAgain, TypeOK
          <6>2. call'[p].op = "recv"
            BY <4>1, <6>1, CallTypes
          <6> QED BY <6>2 DEF InSend
        <5>3. CASE ~(call[p].i + 1 < N_ATTEMPT)
          BY <5>1, <5>3 DEF RecvAgain, Return, TypeOK, Idle, InSend
        <5> QED BY <5>2, <5>3
      <4> QED BY <2>2, <4>2 DEF Pending
    <3>5. CASE PollInterrupted(p) \/ Drop(p) \/ Duplicate(p) \/ Reorder(p)
      <4>1. UNCHANGED <<call, sent>>
        BY <3>5 DEF PollInterrupted, Drop, Duplicate, Reorder, history
      <4> QED BY <1>4, <4>1, SameTries, TriesType, RudpAssumption
    <3> QED BY <1>4, <3>1, <3>2, <3>3, <3>4, <3>5 DEF Step, Application, Environment
  <2> QED BY <2>1, <2>2
<1> QED BY <1>1, <1>2, <1>3, <1>4

-----------------------------------------------------------------------------
(* Copies are paid for by tries and faults.                                 *)

LEMMA CopiesPaidStep ==
    ASSUME TypeOK, TypeOK', CallSendsLast, CopiesPaid, NEW r \in Peers,
           Step(r) \/ Application(r) \/ Environment(r)
    PROVE  CopiesPaid'
<1> SUFFICES ASSUME NEW p \in Peers, NEW k \in Nat
             PROVE  Copies(p, k)' <= (IF k \in 1..Len(sent'[p])
                                      THEN Tries(p, k)' + faults' ELSE 0)
  BY DEF CopiesPaid
<1>1. /\ Copies(p, k) <= (IF k \in 1..Len(sent[p]) THEN Tries(p, k) + faults ELSE 0)
      /\ Copies(p, k) \in Nat /\ Copies(p, k)' \in Nat
  <2>1. Copies(p, k)' \in Nat
    <3>1. delivered'[Other(p)] \in Seq(Nat) /\ net'[Other(p)] \in Seq(Datagram)
      BY OtherPeer DEF TypeOK
    <3>2. /\ Cardinality(Handed(delivered'[Other(p)], k)) \in Nat
          /\ Cardinality(Carrying(net'[Other(p)], k)) \in Nat
      BY <3>1, CountTypes, Zenon
    <3> QED BY <3>2 DEF Copies
  <2> QED BY <2>1, CopiesTypes DEF CopiesPaid
<1>2. /\ faults \in Nat /\ faults' \in Nat /\ faults' >= faults
      /\ Duplicate(r) => faults' = faults + 1
  BY FaultsGrow DEF TypeOK
<1>3. Tries(p, k) \in Nat /\ Tries(p, k)' \in Nat
  <2>1. Tries(p, k) \in 0..N_ATTEMPT
    BY TriesType
  <2>2. Tries(p, k)' \in 0..N_ATTEMPT
    <3>1. Pending(p, k)' => call'[p].i \in 0..(N_ATTEMPT - 1)
      <4>1. call'[p] \in CallState
        BY DEF TypeOK
      <4> QED BY <4>1 DEF CallState, Pending, InSend
    <3> QED BY <3>1, RudpAssumption DEF Tries
  <2> QED BY <2>1, <2>2, RudpAssumption
<1>4. Len(sent[p]) \in Nat /\ Len(sent'[p]) \in Nat
  BY LenProperties DEF TypeOK
<1>5. CASE k \in 1..Len(sent[p])
  <2>1. k \in 1..Len(sent'[p])
    <3>1. CASE sent'[p] = sent[p]
      BY <1>5, <3>1
    <3>2. CASE sent'[p] # sent[p]
      <4>1. r = p /\ SendCall(p)
        BY <3>2, SentKept
      <4>2. PICK len \in Lengths :
              sent' = [sent EXCEPT
                         ![p] = Append(@, [seq |-> ctl[p].seq, len |-> len])]
        BY <4>1 DEF SendCall
      <4>3. [seq |-> ctl[p].seq, len |-> len] \in [seq : Nat, len : Nat]
        BY RudpAssumption DEF TypeOK, Header
      <4>4. sent[p] \in Seq([seq : Nat, len : Nat])
        BY DEF TypeOK
      <4>5. sent'[p] = Append(sent[p], [seq |-> ctl[p].seq, len |-> len])
        BY <4>2 DEF TypeOK
      <4>6. Len(sent'[p]) = Len(sent[p]) + 1
        BY <4>3, <4>4, <4>5, AppendProperties, LenProperties
      <4> QED BY <1>4, <1>5, <4>6
    <3> QED BY <3>1, <3>2
  <2>2. /\ Tries(p, k)' >= Tries(p, k)
        /\ Transmit(r) /\ r = p /\ Carries(call[p].pkt, k) =>
              Tries(p, k)' >= Tries(p, k) + 1
    BY <1>5, TriesStep
  <2>3. Copies(p, k)' <= Tries(p, k)' + faults'
    <3>1. CASE Copies(p, k)' <= Copies(p, k)
      BY <1>1, <1>2, <1>3, <1>5, <2>2, <3>1
    <3>2. CASE /\ Transmit(r) /\ r = p /\ Carries(call[p].pkt, k)
               /\ Copies(p, k)' <= Copies(p, k) + 1
      BY <1>1, <1>2, <1>3, <1>5, <2>2, <3>2
    <3>3. CASE Duplicate(r) /\ Copies(p, k)' <= Copies(p, k) + 1
      BY <1>1, <1>2, <1>3, <1>5, <2>2, <3>3
    <3> QED BY <3>1, <3>2, <3>3, CopiesStep
  <2> QED BY <2>1, <2>3
<1>6. CASE k \notin 1..Len(sent[p])
  <2>1. Copies(p, k) = 0
    BY <1>1, <1>6
  <2>2. CASE Copies(p, k)' <= Copies(p, k)
    BY <1>1, <1>2, <1>3, <2>1, <2>2
  <2>3. CASE Transmit(r) /\ r = p /\ Carries(call[p].pkt, k)
    <3>1. k = Len(sent[p]) /\ Len(sent[p]) > 0
      BY <2>3 DEF Transmit, AtSendto, CallSendsLast, Carries
    <3> QED BY <1>4, <1>6, <3>1
  <2> QED BY <2>1, <2>2, <2>3, CopiesStep
<1> QED BY <1>5, <1>6

LEMMA CopiesPaidInit == Init => CopiesPaid /\ CallSendsLast
<1> SUFFICES ASSUME Init PROVE CopiesPaid /\ CallSendsLast
  OBVIOUS
<1>1. ASSUME NEW p \in Peers, NEW k \in Nat
      PROVE  Copies(p, k) = 0 /\ k \notin 1..Len(sent[p])
  <2>1. delivered[Other(p)] = <<>> /\ net[Other(p)] = <<>> /\ sent[p] = <<>>
    BY OtherPeer DEF Init
  <2> QED BY <2>1, NothingCarried DEF Copies
<1>2. CallSendsLast
  BY DEF Init, CallSendsLast, InSend, Idle
<1> QED BY <1>1, <1>2 DEF CopiesPaid

\* rudp_recv hands the same message over at most N_ATTEMPT times, and once
\* more for every fault: for any lengths, tries and faults.
THEOREM CopiesAreBounded == Spec => []CopiesBounded
<1>1. TypeOK /\ TypeOK' /\ CallSendsLast /\ CopiesPaid /\ [Next]_vars
        => CallSendsLast' /\ CopiesPaid'
  <2>1. ASSUME TypeOK, TypeOK', CallSendsLast, CopiesPaid, Next
        PROVE  CallSendsLast' /\ CopiesPaid'
    BY <2>1, SendsLastStep, CopiesPaidStep DEF Next
  <2>2. ASSUME CallSendsLast, CopiesPaid, UNCHANGED vars
        PROVE  CallSendsLast' /\ CopiesPaid'
    BY <2>2 DEF vars, CallSendsLast, CopiesPaid, InSend, Copies, Tries, Pending
  <2> QED BY <2>1, <2>2
<1>2. TypeOK /\ CopiesPaid => CopiesBounded
  <2> SUFFICES ASSUME TypeOK, CopiesPaid,
                      NEW p \in Peers, NEW k \in ToSet(delivered[p])
               PROVE  Cardinality(Handed(delivered[p], k)) <= N_ATTEMPT + faults
    BY DEF CopiesBounded, Handed
  <2> DEFINE q == Other(p)
  <2>1. q \in Peers /\ Other(q) = p
    BY OtherPeer
  <2>2. k \in Nat
    BY LenProperties, ElementOfSeq DEF TypeOK, ToSet
  <2>3. Copies(q, k) <= N_ATTEMPT + faults
    <3>1. Copies(q, k) <= (IF k \in 1..Len(sent[q]) THEN Tries(q, k) + faults ELSE 0)
      BY <2>1, <2>2 DEF CopiesPaid
    <3>2. /\ Tries(q, k) \in 0..N_ATTEMPT /\ Copies(q, k) \in Nat /\ faults \in Nat
          /\ N_ATTEMPT \in Nat
      BY <2>1, <2>2, TriesType, CopiesTypes, RudpAssumption DEF TypeOK
    <3> QED BY <3>1, <3>2
  <2>4. /\ Copies(q, k) = Cardinality(Handed(delivered[p], k))
                            + Cardinality(Carrying(net[p], k))
        /\ Cardinality(Handed(delivered[p], k)) \in Nat
        /\ Cardinality(Carrying(net[p], k)) \in Nat
    BY <2>1, <2>2, CopiesTypes DEF Copies
  <2>5. N_ATTEMPT + faults \in Nat
    BY RudpAssumption DEF TypeOK
  <2> QED BY <2>3, <2>4, <2>5
<1> QED BY <1>1, <1>2, CopiesPaidInit, TypeCorrect, PTL DEF Spec

-----------------------------------------------------------------------------
(* One direction without faults.                                            *)

\* Without faults the sender sends and waits, the other peer receives.
LEMMA OneWaySteps ==
    ASSUME NEW p \in Peers, OneWayFrom(p), TypeOK, Alternating(p), Next
    PROVE  LET q == Other(p)
           IN  \/ SendCall(p) \/ Transmit(p) \/ Answer(p)
               \/ RecvCall(q) \/ RecvDatagram(q) \/ RecvTimeout(q)
<1> DEFINE q == Other(p)
<1>1. PICK r \in Peers : Step(r) \/ Application(r) \/ Environment(r)
  BY DEF Next
<1>2. r = p \/ r = q
  BY DEF Peers, Other
<1>3. ~Environment(r)
  BY DEF OneWayFrom, Environment, Fault, SendtoFails, SendInterrupted, RecvAckFails,
       RecvInterrupted, PollInterrupted, Drop, Duplicate, Reorder
<1>4. ~CloseCall(r) /\ ~CloseSocket(r)
  BY DEF OneWayFrom, CloseCall, CloseSocket
<1>5. CASE r = p
  <2>1. ~InRecv(p) /\ ~RecvCall(p)
    BY DEF Alternating, InRecv, OneWayFrom, RecvCall
  <2>2. ~SendTimeout(p)
    <3>1. ASSUME SendTimeout(p) PROVE FALSE
      <4>1. AtAnswer(p) /\ net[p] = <<>> /\ net[q] = <<>>
        BY <3>1 DEF SendTimeout, MayTimeout, OneWayFrom
      <4>2. Len(net[p]) = 0 /\ net[q] # <<call[p].pkt>>
        BY <4>1
      <4> QED BY <4>1, <4>2 DEF Alternating
    <3> QED BY <3>1
  <2> QED BY <1>1, <1>3, <1>4, <1>5, <2>1, <2>2
          DEF Step, Application, RecvDatagram, RecvTimeout
<1>6. CASE r = q
  <2>1. ~InSend(q)
    BY DEF Alternating, InSend
  <2>2. ~SendCall(q)
    BY LenProperties, OtherPeer DEF OneWayFrom, SendCall, TypeOK
  <2> QED BY <1>1, <1>3, <1>4, <1>6, <2>1, <2>2
          DEF Step, Application, Transmit, Answer, SendTimeout, AtSendto, AtAnswer
<1> QED BY <1>2, <1>5, <1>6

LEMMA SendCallAlternates ==
    ASSUME NEW p \in Peers, TypeOK, Alternating(p), SendCall(p)
    PROVE  Alternating(p)'
<1> DEFINE q == Other(p)
<1>1. PICK len \in Lengths :
        /\ Begin(p, "send", DataPacket(p, len))
        /\ sent' = [sent EXCEPT
                      ![p] = Append(@, [seq |-> ctl[p].seq, len |-> len])]
  BY DEF SendCall
<1>2. q \in Peers /\ q # p /\ Other(q) = p
  BY OtherPeer
<1>3. /\ DataPacket(p, len) \in Datagram /\ len \in Nat
      /\ DataPacket(p, len).len = len /\ DataPacket(p, len).seq = ctl[p].seq
      /\ DataPacket(p, len).flag = "DATA"
      /\ DataPacket(p, len).msg = Len(sent[p]) + 1
  BY PacketTypes, RudpAssumption DEF DataPacket
<1>4. /\ call'[q] = call[q] /\ ctl'[q] = ctl[q]
      /\ call'[p].pkt = DataPacket(p, len) /\ call'[p].op = "send"
      /\ ctl'[p].seq = ctl[p].seq + len + Hdr
  BY <1>1, <1>2, <1>3, BeginEffect
<1>5. call'[p].at = "sendto"
  BY <1>1 DEF Begin, Sending, TypeOK
<1>6. Len(sent'[p]) = Len(sent[p]) + 1 /\ Len(sent[p]) \in Nat
  <2>1. [seq |-> ctl[p].seq, len |-> len] \in [seq : Nat, len : Nat]
    BY <1>3 DEF TypeOK, Header
  <2>2. sent[p] \in Seq([seq : Nat, len : Nat])
    BY DEF TypeOK
  <2>3. sent'[p] = Append(sent[p], [seq |-> ctl[p].seq, len |-> len])
    BY <1>1 DEF TypeOK
  <2> QED BY <2>1, <2>2, <2>3, AppendProperties, LenProperties
<1>7. UNCHANGED <<net, errno, delivered, failed>>
  BY DEF SendCall
<1>8. NothingOnItsWay /\ InStep(p)
  BY DEF SendCall, Alternating
<1>9. OneBehind(p)'
  BY <1>3, <1>4, <1>6, <1>7, <1>8 DEF OneBehind, InStep
<1>10. /\ ~IsIdle(p)' /\ AtSendto(p)' /\ ~AtAnswer(p)'
       /\ InRecv(q)' <=> InRecv(q)
  BY <1>4, <1>5 DEF IsIdle, AtSendto, AtAnswer, InSend, InRecv
<1>11. NothingOnItsWay'
  BY <1>7, <1>8 DEF NothingOnItsWay
<1>12. NoFailure' /\ ExactlyOnceInOrder'
  BY <1>7 DEF Alternating, NoFailure, ExactlyOnceInOrder
<1> QED BY <1>4, <1>7, <1>9, <1>10, <1>11, <1>12 DEF Alternating

LEMMA TransmitAlternates ==
    ASSUME NEW p \in Peers, TypeOK, Alternating(p), Transmit(p)
    PROVE  Alternating(p)'
<1> DEFINE q == Other(p)
<1>1. q \in Peers /\ q # p /\ Other(q) = p
  BY OtherPeer
<1>2. NothingOnItsWay /\ OneBehind(p) /\ errno[p] # "EAGAIN" /\ InSend(p)
  BY DEF Transmit, Alternating, AtSendto
<1>3. /\ call'[p] = [call[p] EXCEPT !.at = "recvfrom"] /\ call'[q] = call[q]
      /\ UNCHANGED <<failed, ctl, errno, sent, delivered>>
  BY <1>1, <1>2 DEF Transmit, TypeOK, history
<1>4. /\ call'[p].op = call[p].op /\ call'[p].pkt = call[p].pkt
      /\ call'[p].at = "recvfrom"
  BY <1>2, <1>3, CallTypes
<1>5. net'[p] = <<>> /\ net'[q] = <<call[p].pkt>>
  <2>1. call[q].op # "closed"
    BY DEF Alternating
  <2>2. net' = [net EXCEPT ![q] = Append(@, call[p].pkt)]
    BY <2>1 DEF Transmit, Put
  <2>3. net'[p] = net[p] /\ net'[q] = Append(net[q], call[p].pkt)
    BY <1>1, <2>2 DEF TypeOK
  <2>4. net[p] = <<>> /\ net[q] = <<>>
    BY <1>1, <1>2 DEF NothingOnItsWay
  <2>5. Append(<<>>, call[p].pkt) = <<call[p].pkt>>
    OBVIOUS
  <2> QED BY <2>3, <2>4, <2>5
<1>6. OneBehind(p)'
  BY <1>2, <1>3, <1>4 DEF OneBehind
<1>7. /\ ~IsIdle(p)' /\ ~AtSendto(p)'
      /\ InRecv(q)' <=> InRecv(q)
  BY <1>2, <1>3, <1>4 DEF IsIdle, AtSendto, InSend, InRecv
<1>8. NoFailure' /\ ExactlyOnceInOrder'
  BY <1>3 DEF Alternating, NoFailure, ExactlyOnceInOrder
<1> QED BY <1>3, <1>4, <1>5, <1>6, <1>7, <1>8 DEF Alternating

LEMMA AnswerAlternates ==
    ASSUME NEW p \in Peers, TypeOK, Alternating(p), Answer(p)
    PROVE  Alternating(p)'
<1> DEFINE q == Other(p)
<1>1. q \in Peers /\ q # p /\ Other(q) = p
  BY OtherPeer
<1>2. /\ net[q] = <<>> /\ Len(net[p]) = 1
      /\ Answers(p, Head(net[p])) /\ InStep(p)
  BY DEF Answer, Alternating
<1>3. /\ call'[p] = Idle /\ call'[q] = call[q]
      /\ net'[p] = Tail(net[p]) /\ net'[q] = net[q]
      /\ UNCHANGED <<failed, ctl, errno, sent, delivered>>
  BY <1>1, <1>2 DEF Answer, Succeed, Return, TypeOK
<1>4. net'[p] = <<>>
  <2>1. net[p] \in Seq(Datagram)
    BY DEF TypeOK
  <2>2. Tail(net[p]) \in Seq(Datagram) /\ Len(Tail(net[p])) = 0
    BY <1>2, <2>1
  <2> QED BY <1>3, <2>2, EmptySeq
<1>5. NothingOnItsWay' /\ InStep(p)'
  <2>1. \A r \in Peers : r = p \/ r = q
    BY DEF Peers, Other
  <2> QED BY <1>2, <1>3, <1>4, <2>1 DEF NothingOnItsWay, InStep
<1>6. /\ ~AtSendto(p)' /\ ~AtAnswer(p)' /\ call'[p].op = "idle"
      /\ InRecv(q)' <=> InRecv(q)
  BY <1>3 DEF Idle, AtSendto, AtAnswer, InSend, InRecv
<1>7. NoFailure' /\ ExactlyOnceInOrder'
  BY <1>3 DEF Alternating, NoFailure, ExactlyOnceInOrder
<1> QED BY <1>3, <1>5, <1>6, <1>7 DEF Alternating

\* The receiver begins to wait, or gives up, while p does what it did.
LEMMA ReceiverAlternates ==
    ASSUME NEW p \in Peers, TypeOK, Alternating(p),
           RecvCall(Other(p)) \/ RecvTimeout(Other(p))
    PROVE  Alternating(p)'
<1> DEFINE q == Other(p)
<1>1. q \in Peers /\ q # p /\ Other(q) = p
  BY OtherPeer
<1>2. /\ call'[p] = call[p] /\ call'[q] \in {Receiving, Idle}
      /\ errno'[p] = errno[p]
      /\ UNCHANGED <<failed, ctl, sent, net, delivered>>
  BY <1>1 DEF RecvCall, RecvTimeout, Return, TypeOK, history
<1>3. /\ call'[q].op \in {"idle", "recv"}
      /\ InRecv(q)' => ~call'[q].fin
  BY <1>2 DEF Receiving, Idle, InRecv
<1>4. /\ IsIdle(p)' <=> IsIdle(p)
      /\ AtSendto(p)' <=> AtSendto(p)
      /\ AtAnswer(p)' <=> AtAnswer(p)
      /\ NothingOnItsWay' <=> NothingOnItsWay
      /\ InStep(p)' <=> InStep(p)
      /\ OneBehind(p)' <=> OneBehind(p)
      /\ Answers(p, Head(net[p]))' <=> Answers(p, Head(net[p]))
  BY <1>2 DEF IsIdle, AtSendto, AtAnswer, InSend, NothingOnItsWay, InStep,
       OneBehind, Answers
<1>5. NoFailure' /\ ExactlyOnceInOrder'
  BY <1>2 DEF Alternating, NoFailure, ExactlyOnceInOrder
<1> QED BY <1>2, <1>3, <1>4, <1>5 DEF Alternating

LEMMA RecvDatagramAlternates ==
    ASSUME NEW p \in Peers, TypeOK, Alternating(p), RecvDatagram(Other(p))
    PROVE  Alternating(p)'
<1> DEFINE q == Other(p)
           d == Head(net[q])
           c == [ctl[q] EXCEPT !.ack = Advance(@, d)]
           n == Len(sent[p])
<1>1. q \in Peers /\ q # p /\ Other(q) = p
  BY OtherPeer
<1>2. /\ InSend(p) /\ call[p].at = "recvfrom" /\ call[p].pkt \in Datagram
      /\ net[p] = <<>> /\ net[q] = <<call[p].pkt>> /\ OneBehind(p)
  <2>1. net[q] # <<>> /\ InRecv(q)
    BY DEF RecvDatagram
  <2>2. ~IsIdle(p) /\ ~AtSendto(p)
    BY <1>1, <2>1 DEF Alternating, NothingOnItsWay
  <2>3. InSend(p)
    BY <2>2 DEF Alternating, IsIdle, InSend
  <2>4. AtAnswer(p)
    BY <2>2, <2>3, CallTypes DEF AtSendto, AtAnswer
  <2> QED BY <1>1, <2>1, <2>3, <2>4, CallTypes DEF AtAnswer, Alternating
<1>3. /\ d = call[p].pkt /\ d.flag = "DATA" /\ d.msg = n /\ d.seq = ctl[q].ack
      /\ ctl[p].seq = d.seq + d.len + Hdr
      /\ Len(delivered[q]) = n - 1
      /\ ~SeenFin(q, d)
  BY <1>2 DEF OneBehind, RecvDatagram, SeenFin, Alternating
<1>4. /\ call'[q] = Idle /\ call'[p] = call[p]
      /\ UNCHANGED <<errno, sent, failed>>
      /\ ctl'[p] = ctl[p] /\ ctl'[q] = c
      /\ delivered'[q] = Append(delivered[q], n) /\ delivered'[p] = delivered[p]
  BY <1>1, <1>3 DEF RecvDatagram, Return, TypeOK
<1>5. ctl'[q].ack = ctl[p].seq /\ c.ack = ctl[p].seq
  <2>1. Advance(ctl[q].ack, d) = ctl[p].seq
    BY <1>3 DEF Advance
  <2>2. ctl[q] \in Header
    BY <1>1 DEF TypeOK
  <2> QED BY <1>4, <2>1, <2>2 DEF Header
<1>6. net'[q] = <<>> /\ net'[p] = <<AckPacket(c)>>
  <2>1. call[p].op # "closed"
    BY DEF Alternating
  <2>2. net' = [[net EXCEPT ![q] = Tail(@)] EXCEPT ![p] = Append(@, AckPacket(c))]
    BY <1>1, <2>1 DEF RecvDatagram, Put
  <2> HIDE DEF c
  <2> QED BY <1>1, <1>2, <2>2 DEF TypeOK
<1>7. n \in Nat /\ Len(delivered[q]) \in Nat /\ delivered[q] \in Seq(Nat)
  BY <1>1, LenProperties DEF TypeOK
<1>8. /\ Len(delivered'[q]) = n
      /\ DOMAIN delivered'[q] = 1..n
      /\ \A i \in 1..n : delivered'[q][i] = i
  <2>1. /\ Append(delivered[q], n) \in Seq(Nat)
        /\ Len(Append(delivered[q], n)) = n
        /\ \A i \in 1..(n - 1) : Append(delivered[q], n)[i] = delivered[q][i]
        /\ Append(delivered[q], n)[n] = n
        /\ DOMAIN delivered[q] = 1..(n - 1)
    BY <1>3, <1>7, AppendProperties, LenProperties
  <2>2. \A i \in 1..(n - 1) : delivered[q][i] = i
    BY <1>1, <2>1 DEF Alternating, ExactlyOnceInOrder
  <2>3. DOMAIN Append(delivered[q], n) = 1..n
    BY <2>1, LenProperties
  <2> QED BY <1>4, <1>7, <2>1, <2>2, <2>3
<1>9. NoFailure' /\ ExactlyOnceInOrder'
  <2>1. \A r \in Peers : r = p \/ r = q
    BY DEF Peers, Other
  <2> QED BY <1>4, <1>8, <2>1 DEF Alternating, NoFailure, ExactlyOnceInOrder
<1>10. InStep(p)'
  BY <1>4, <1>5, <1>8 DEF InStep
<1>11. Answers(p, Head(net[p]))' /\ Len(net'[p]) = 1
  <2>1. AckPacket(c).flag = "ACK" /\ AckPacket(c).ack = ctl[p].seq
    BY <1>5 DEF AckPacket
  <2> HIDE DEF c
  <2>2. Head(net'[p]) = AckPacket(c) /\ Len(net'[p]) = 1
    BY <1>6
  <2> QED BY <1>4, <2>1, <2>2 DEF Answers
<1>12. /\ ~IsIdle(p)' /\ ~AtSendto(p)' /\ ~InRecv(q)' /\ call'[q].op = "idle"
  BY <1>2, <1>4 DEF IsIdle, AtSendto, InSend, InRecv, Idle
<1> QED BY <1>4, <1>6, <1>9, <1>10, <1>11, <1>12 DEF Alternating

LEMMA AlternatingAlways ==
    ASSUME NEW p \in Peers, OneWayFrom(p)
    PROVE  Spec => []Alternating(p)
<1>1. Init => Alternating(p)
  BY OtherPeer, LenProperties
     DEF Init, Alternating, NoFailure, ExactlyOnceInOrder, Idle, IsIdle, InRecv,
         AtSendto, AtAnswer, InSend, NothingOnItsWay, InStep
<1>2. TypeOK /\ Alternating(p) /\ [Next]_vars => Alternating(p)'
  <2>1. ASSUME TypeOK, Alternating(p), Next PROVE Alternating(p)'
    BY <2>1, OneWaySteps, SendCallAlternates, TransmitAlternates, AnswerAlternates,
       ReceiverAlternates, RecvDatagramAlternates
  <2>2. ASSUME Alternating(p), UNCHANGED vars PROVE Alternating(p)'
    BY <2>2 DEF vars, Alternating, NoFailure, ExactlyOnceInOrder, IsIdle, InRecv,
         AtSendto, AtAnswer, InSend, NothingOnItsWay, InStep, OneBehind, Answers
  <2> QED BY <2>1, <2>2
<1> QED BY <1>1, <1>2, TypeCorrect, PTL DEF Spec

\* In one direction and without faults no rudp_send fails: no number of
\* messages and no lengths bring the two peers out of step.
THEOREM OneWayNeverFails == OneWay => (Spec => []NoFailure)
<1> SUFFICES ASSUME NEW p \in Peers, OneWayFrom(p) PROVE Spec => []NoFailure
  BY DEF OneWay
<1>1. Alternating(p) => NoFailure
  BY DEF Alternating
<1> QED BY <1>1, AlternatingAlways, PTL

\* And the other peer's caller gets every message once and in order.
THEOREM OneWayInOrder == OneWay => (Spec => []ExactlyOnceInOrder)
<1> SUFFICES ASSUME NEW p \in Peers, OneWayFrom(p)
             PROVE  Spec => []ExactlyOnceInOrder
  BY DEF OneWay
<1>1. Alternating(p) => ExactlyOnceInOrder
  BY DEF Alternating
<1> QED BY <1>1, AlternatingAlways, PTL
=============================================================================
