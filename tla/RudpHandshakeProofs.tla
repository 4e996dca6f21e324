------------------------- MODULE RudpHandshakeProofs -------------------------
(* What the handshake guarantees for any number of clients, tries and       *)
(* faults.                                                                   *)
EXTENDS RudpHandshake, FiniteSetTheorems, TLAPS

-----------------------------------------------------------------------------
(* The shape of the state.                                                 *)

ClientT == [at : {"idle", "sendto", "wait", "connected", "failed"},
            i : 0..(N_ATTEMPT - 1), pkt : {"SYN", "ACK"}]

ListenT == [at : {"listen"}, i : 0..(N_ATTEMPT - 1)]
WaitT == [at : {"wait"}, i : 0..(N_ATTEMPT - 1), from : Clients, port : Ports]
ListenerT == {Dead} \cup ListenT \cup WaitT

PacketT == [flag : {"SYN", "ACK"}, from : Clients]

LEMMA Constants ==
    /\ N_ATTEMPT \in Nat /\ N_ATTEMPT > 0 /\ Hdr \in Nat /\ MaxFaults \in Nat
    /\ Cardinality(Clients) \in Nat /\ N_ATTEMPT * Cardinality(Clients) \in Nat
    /\ 0 \in 0..(N_ATTEMPT - 1)
  <1>1. N_ATTEMPT \in Nat /\ N_ATTEMPT > 0 /\ Hdr \in Nat /\ MaxFaults \in Nat
    BY HandshakeAssumption
  <1>2. Cardinality(Clients) \in Nat
    BY HandshakeAssumption, FS_CardinalityType
  <1>3. N_ATTEMPT * Cardinality(Clients) \in Nat
    BY <1>1, <1>2
  <1> QED
    BY <1>1, <1>2, <1>3

LEMMA ClientShape ==
    ASSUME TypeOK, NEW c \in Clients
    PROVE  /\ client[c] \in ClientT
           /\ client[c].at \in {"idle", "sendto", "wait", "connected", "failed"}
           /\ client[c].i \in 0..(N_ATTEMPT - 1) /\ client[c].i \in Nat
           /\ client[c].pkt \in {"SYN", "ACK"}
           /\ clientq[c] \in Seq(Ports) /\ Len(clientq[c]) \in Nat
  <1>1. client[c] \in ClientT /\ clientq[c] \in Seq(Ports)
    BY DEF TypeOK, ClientT
  <1> QED
    BY <1>1, Constants DEF ClientT

LEMMA ListenerShape ==
    ASSUME TypeOK
    PROVE  /\ listener \in ListenerT
           /\ Waits => listener \in WaitT
           /\ Waits => /\ listener.from \in Clients /\ listener.port \in Ports
                       /\ listener.i \in 0..(N_ATTEMPT - 1)
           /\ listener.at = "listen" =>
                 listener \in ListenT /\ listener.i \in 0..(N_ATTEMPT - 1)
           /\ listener # Dead => listener.at \in {"listen", "wait"}
           /\ ~(Waits /\ listener.at = "listen")
           /\ listener = Dead => ~Waits
  <1>1. listener \in ListenerT
    BY DEF TypeOK, ListenerT, ListenT, WaitT
  <1>2. Dead.at = "dead"
    BY DEF Dead
  <1>3. CASE listener = Dead
    BY <1>1, <1>2, <1>3 DEF Waits
  <1>4. CASE listener \in ListenT
    BY <1>1, <1>4 DEF Waits, ListenT
  <1>5. CASE listener \in WaitT
    <2>1. /\ listener.at = "wait" /\ listener.from \in Clients
          /\ listener.port \in Ports /\ listener.i \in 0..(N_ATTEMPT - 1)
      BY <1>5 DEF WaitT
    <2>2. listener # Dead
      BY <1>2, <2>1
    <2> QED
      BY <1>1, <1>5, <2>1, <2>2 DEF Waits
  <1> QED
    BY <1>1, <1>3, <1>4, <1>5 DEF ListenerT

LEMMA QueueShape ==
    ASSUME TypeOK
    PROVE  /\ listenq \in Seq(PacketT) /\ Len(listenq) \in Nat
           /\ \A k \in Ports : portq[k] \in Seq(Clients) /\ Len(portq[k]) \in Nat
           /\ used \in Nat /\ faults \in Nat
  <1>1. listenq \in Seq(PacketT) /\ portq \in [Ports -> Seq(Clients)]
    BY DEF TypeOK, PacketT
  <1>2. used \in {0} \cup Ports /\ faults \in 0..MaxFaults
    BY DEF TypeOK
  <1>3. used \in Nat
    BY <1>2 DEF Ports
  <1>4. faults \in Nat
    BY <1>2, Constants
  <1> QED
    BY <1>1, <1>3, <1>4

\* What the head of the listening socket's queue is.
LEMMA HearsShape ==
    ASSUME TypeOK, Hears
    PROVE  /\ Caller \in Clients /\ Head(listenq) \in PacketT
           /\ Head(listenq).flag \in {"SYN", "ACK"}
           /\ Tail(listenq) \in Seq(PacketT)
           /\ Len(Tail(listenq)) = Len(listenq) - 1
           /\ listener \in ListenT /\ listener.i \in 0..(N_ATTEMPT - 1) /\ ~Waits
  <1>1. Head(listenq) \in PacketT /\ Tail(listenq) \in Seq(PacketT)
        /\ Len(Tail(listenq)) = Len(listenq) - 1
    BY QueueShape DEF Hears
  <1>2. listener \in ListenT /\ listener.i \in 0..(N_ATTEMPT - 1) /\ ~Waits
    BY ListenerShape DEF Hears
  <1> QED
    BY <1>1, <1>2 DEF PacketT, Caller

-----------------------------------------------------------------------------
(* How many sockets there are.                                             *)

LEMMA SentFinite ==
    /\ IsFiniteSet(Sent)
    /\ Cardinality(Sent) \in Nat
    /\ Cardinality(Sent) <= N_ATTEMPT * Cardinality(Clients)
  <1>1. /\ IsFiniteSet(0..(N_ATTEMPT - 1))
        /\ Cardinality(0..(N_ATTEMPT - 1)) = N_ATTEMPT
    <2>1. 0 \in Int /\ N_ATTEMPT - 1 \in Int /\ ~(0 > N_ATTEMPT - 1)
          /\ (N_ATTEMPT - 1) - 0 + 1 = N_ATTEMPT
      BY Constants
    <2>2. /\ IsFiniteSet(0..(N_ATTEMPT - 1))
          /\ Cardinality(0..(N_ATTEMPT - 1)) =
                IF 0 > N_ATTEMPT - 1 THEN 0 ELSE (N_ATTEMPT - 1) - 0 + 1
      BY <2>1, FS_Interval
    <2> QED
      BY <2>1, <2>2
  <1>2. /\ IsFiniteSet(Clients \X (0..(N_ATTEMPT - 1)))
        /\ Cardinality(Clients \X (0..(N_ATTEMPT - 1)))
              = Cardinality(Clients) * N_ATTEMPT
    BY <1>1, HandshakeAssumption, FS_Product
  <1>3. Sent \in SUBSET (Clients \X (0..(N_ATTEMPT - 1)))
    BY DEF Sent
  <1>4. /\ IsFiniteSet(Sent)
        /\ Cardinality(Sent) <= Cardinality(Clients \X (0..(N_ATTEMPT - 1)))
    BY <1>2, <1>3, FS_Subset
  <1>5. Cardinality(Sent) \in Nat
    BY <1>4, FS_CardinalityType
  <1>6. Cardinality(Clients) * N_ATTEMPT = N_ATTEMPT * Cardinality(Clients)
    BY Constants
  <1> QED
    BY <1>2, <1>4, <1>5, <1>6

LEMMA SentFiniteNext ==
    /\ IsFiniteSet(Sent')
    /\ Cardinality(Sent') \in Nat
  <1>1. /\ IsFiniteSet(0..(N_ATTEMPT - 1))
    BY Constants, FS_Interval
  <1>2. IsFiniteSet(Clients \X (0..(N_ATTEMPT - 1)))
    BY <1>1, HandshakeAssumption, FS_Product
  <1>3. Sent' \in SUBSET (Clients \X (0..(N_ATTEMPT - 1)))
    BY DEF Sent
  <1>4. IsFiniteSet(Sent')
    BY <1>2, <1>3, FS_Subset
  <1> QED
    BY <1>4, FS_CardinalityType

\* Another try is one more datagram, and nobody takes one back.
LEMMA SentGrows ==
    ASSUME \A c \in Clients : SentBy(c) \in Int /\ SentBy(c)' \in Int
                              /\ SentBy(c) <= SentBy(c)'
    PROVE  Cardinality(Sent) <= Cardinality(Sent')
  <1>1. Sent \in SUBSET Sent'
    <2> SUFFICES ASSUME NEW t \in Sent PROVE t \in Sent'
      OBVIOUS
    <2>1. t \in Clients \X (0..(N_ATTEMPT - 1)) /\ t[2] < SentBy(t[1])
      BY DEF Sent
    <2>2. t[1] \in Clients /\ t[2] \in Int
      BY <2>1, Constants
    <2>3. t[2] < SentBy(t[1])'
      BY <2>1, <2>2
    <2> QED
      BY <2>1, <2>3 DEF Sent
  <1> QED
    BY <1>1, SentFiniteNext, FS_Subset

LEMMA SentGrowsByOne ==
    ASSUME \A c \in Clients : SentBy(c) \in Int /\ SentBy(c)' \in Int
                              /\ SentBy(c) <= SentBy(c)',
           NEW d \in Clients, SentBy(d) \in 0..(N_ATTEMPT - 1),
           SentBy(d)' = SentBy(d) + 1
    PROVE  Cardinality(Sent) + 1 <= Cardinality(Sent')
  <1> DEFINE t == <<d, SentBy(d)>>
  <1>1. Sent \cup {t} \in SUBSET Sent'
    <2>1. Sent \subseteq Sent'
      <3> SUFFICES ASSUME NEW u \in Sent PROVE u \in Sent'
        OBVIOUS
      <3>1. u \in Clients \X (0..(N_ATTEMPT - 1)) /\ u[2] < SentBy(u[1])
        BY DEF Sent
      <3>2. u[1] \in Clients /\ u[2] \in Int
        BY <3>1, Constants
      <3>3. u[2] < SentBy(u[1])'
        BY <3>1, <3>2
      <3> QED
        BY <3>1, <3>3 DEF Sent
    <2>2. t \in Clients \X (0..(N_ATTEMPT - 1)) /\ t[2] < SentBy(t[1])'
      OBVIOUS
    <2>3. t \in Sent'
      BY <2>2 DEF Sent
    <2> QED
      BY <2>1, <2>3
  <1>2. t \notin Sent
    BY DEF Sent
  <1>3. Cardinality(Sent \cup {t}) = Cardinality(Sent) + 1
    BY <1>2, SentFinite, FS_AddElement
  <1>4. Cardinality(Sent \cup {t}) <= Cardinality(Sent')
    BY <1>1, SentFiniteNext, FS_Subset
  <1> QED
    BY <1>3, <1>4

\* So many sockets there may be: the next one has a number in Ports.
LEMMA NextPort ==
    ASSUME TypeOK, FewSockets, listenq # <<>>
    PROVE  used + 1 \in Ports
  <1>1. Len(listenq) >= 1 /\ Len(listenq) \in Nat /\ used \in Nat
    BY QueueShape
  <1>2. faults \in 0..MaxFaults
    BY DEF TypeOK
  <1>3. used + Len(listenq) <= N_ATTEMPT * Cardinality(Clients) + MaxFaults
    BY <1>1, <1>2, SentFinite, Constants DEF FewSockets
  <1> QED
    BY <1>1, <1>3, Constants DEF Ports

-----------------------------------------------------------------------------
(* Types.                                                                  *)

LEMMA FaultTypes ==
    ASSUME TypeOK
    PROVE  /\ NoFault => /\ faults' = faults /\ harmed' = harmed
                         /\ faults' \in 0..MaxFaults /\ harmed' \subseteq Clients
           /\ \A kind, c : Fault(kind, c) /\ c \in Clients =>
                 /\ faults' \in 0..MaxFaults /\ harmed' \subseteq Clients
                 /\ faults' = faults + 1 /\ harmed' = harmed \cup {c}
           /\ \A kind : FaultOf(kind, {}) =>
                 /\ faults' \in 0..MaxFaults /\ harmed' \subseteq Clients
                 /\ faults' = faults + 1 /\ harmed' = harmed
  <1>1. faults \in 0..MaxFaults /\ harmed \subseteq Clients /\ MaxFaults \in Nat
    BY Constants DEF TypeOK
  <1>2. NoFault => /\ faults' = faults /\ harmed' = harmed
                   /\ faults' \in 0..MaxFaults /\ harmed' \subseteq Clients
    BY <1>1 DEF NoFault
  <1>3. ASSUME NEW kind, NEW cs \in SUBSET Clients, FaultOf(kind, cs)
        PROVE  /\ faults' \in 0..MaxFaults /\ harmed' \subseteq Clients
               /\ faults' = faults + 1 /\ harmed' = harmed \cup cs
    BY <1>1, <1>3 DEF FaultOf
  <1>4. ASSUME NEW kind, NEW c, Fault(kind, c), c \in Clients
        PROVE  /\ faults' \in 0..MaxFaults /\ harmed' \subseteq Clients
               /\ faults' = faults + 1 /\ harmed' = harmed \cup {c}
    BY <1>3, <1>4 DEF Fault
  <1>5. ASSUME NEW kind, FaultOf(kind, {})
        PROVE  /\ faults' \in 0..MaxFaults /\ harmed' \subseteq Clients
               /\ faults' = faults + 1 /\ harmed' = harmed
    BY <1>3, <1>5
  <1> QED
    BY <1>2, <1>4, <1>5

\* A client's try goes to another place, or it begins the next.
LEMMA ClientTypes ==
    ASSUME TypeOK, NEW c \in Clients
    PROVE  /\ \A p \in {"idle", "sendto", "wait", "connected", "failed"} :
                 [client EXCEPT ![c].at = p] \in [Clients -> ClientT]
           /\ \A j \in 0..(N_ATTEMPT - 1), k \in {"SYN", "ACK"} :
                 [client EXCEPT ![c] = [at |-> "sendto", i |-> j, pkt |-> k]]
                    \in [Clients -> ClientT]
  <1>1. client \in [Clients -> ClientT]
    BY DEF TypeOK, ClientT
  <1>2. ASSUME NEW p \in {"idle", "sendto", "wait", "connected", "failed"}
        PROVE  [client EXCEPT ![c].at = p] \in [Clients -> ClientT]
    <2>1. [client[c] EXCEPT !.at = p] \in ClientT
      BY <1>1, <1>2 DEF ClientT
    <2> QED
      BY <1>1, <2>1
  <1>3. ASSUME NEW j \in 0..(N_ATTEMPT - 1), NEW k \in {"SYN", "ACK"}
        PROVE  [client EXCEPT ![c] = [at |-> "sendto", i |-> j, pkt |-> k]]
                  \in [Clients -> ClientT]
    <2>1. [at |-> "sendto", i |-> j, pkt |-> k] \in ClientT
      BY <1>3 DEF ClientT
    <2> QED
      BY <1>1, <2>1
  <1> QED
    BY <1>2, <1>3

LEMMA ConnectAgainTypes ==
    ASSUME TypeOK, NEW c \in Clients, NEW k \in {"SYN", "ACK"}, ConnectAgain(c, k)
    PROVE  client' \in [Clients -> ClientT]
  <1>1. CASE MoreTries(client[c].i)
    <2>1. client[c].i + 1 \in 0..(N_ATTEMPT - 1)
      BY <1>1, ClientShape, Constants DEF MoreTries
    <2>2. client' = [client EXCEPT ![c] =
                       [at |-> "sendto", i |-> client[c].i + 1, pkt |-> k]]
      BY <1>1 DEF ConnectAgain, TypeOK
    <2> QED
      BY <2>1, <2>2, ClientTypes
  <1>2. CASE ~MoreTries(client[c].i)
    BY <1>2, ClientTypes DEF ConnectAgain, ConnectFails
  <1> QED
    BY <1>1, <1>2

LEMMA AnswerTypes ==
    ASSUME TypeOK, NEW c \in Clients, TakesAnswer(c)
    PROVE  /\ clientq' \in [Clients -> Seq(Ports)]
           /\ peer' \in [Clients -> {0} \cup Ports]
           /\ control' \in [Clients -> Header]
           /\ Head(clientq[c]) \in Ports
  <1>1. clientq[c] \in Seq(Ports) /\ clientq[c] # <<>>
    BY DEF TakesAnswer, TypeOK
  <1>2. Head(clientq[c]) \in Ports /\ Tail(clientq[c]) \in Seq(Ports)
    BY <1>1
  <1>3. control[c] \in Header
    BY DEF TypeOK
  <1>4. ConnectedControl(control[c]) \in Header
    BY <1>3, Constants DEF ConnectedControl, Header
  <1>5. clientq' \in [Clients -> Seq(Ports)]
    BY <1>2 DEF TakesAnswer, TypeOK
  <1>6. peer' \in [Clients -> {0} \cup Ports]
    BY <1>2 DEF TakesAnswer, TypeOK
  <1>7. control' \in [Clients -> Header]
    BY <1>4 DEF TakesAnswer, TypeOK
  <1> QED
    BY <1>2, <1>5, <1>6, <1>7

LEMMA ExitTypes ==
    ASSUME TypeOK, Exit
    PROVE  /\ listener' \in ListenerT /\ open' \subseteq Ports
           /\ portq' \in [Ports -> Seq(Clients)] /\ listenq' \in Seq(PacketT)
  <1>1. open' \subseteq Ports
    BY DEF Exit, TypeOK
  <1>2. portq' \in [Ports -> Seq(Clients)]
    <2>1. <<>> \in Seq(Clients)
      OBVIOUS
    <2> QED
      BY <2>1 DEF Exit, TypeOK
  <1>3. listenq' \in Seq(PacketT)
    BY DEF Exit
  <1> QED
    BY <1>1, <1>2, <1>3 DEF Exit, ListenerT

\* rudp_accept takes its next try, or the service exits.
LEMMA AgainTypes ==
    ASSUME TypeOK, listener # Dead,
           NEW o \in SUBSET Ports, NEW pq \in [Ports -> Seq(Clients)],
           NEW lq \in Seq(PacketT), AcceptAgain(o, pq, lq)
    PROVE  /\ listener' \in ListenerT /\ open' \subseteq Ports
           /\ portq' \in [Ports -> Seq(Clients)] /\ listenq' \in Seq(PacketT)
  <1>1. CASE MoreTries(listener.i)
    <2>1. listener.i \in 0..(N_ATTEMPT - 1)
      BY ListenerShape DEF Waits
    <2>2. listener.i + 1 \in 0..(N_ATTEMPT - 1)
      BY <1>1, <2>1, Constants DEF MoreTries
    <2>3. Listening(listener.i + 1) \in ListenT
      BY <2>2 DEF Listening, ListenT
    <2> QED
      BY <1>1, <2>3 DEF AcceptAgain, ListenerT
  <1>2. CASE ~MoreTries(listener.i)
    BY <1>2, ExitTypes DEF AcceptAgain
  <1> QED
    BY <1>1, <1>2

\* TypeOK in the names of this module.
LEMMA TypeOKIs ==
    TypeOK <=> /\ client \in [Clients -> ClientT]
               /\ peer \in [Clients -> {0} \cup Ports]
               /\ control \in [Clients -> Header]
               /\ listener \in ListenerT
               /\ lcontrol \in Header
               /\ listenq \in Seq(PacketT)
               /\ portq \in [Ports -> Seq(Clients)]
               /\ clientq \in [Clients -> Seq(Ports)]
               /\ open \subseteq Ports
               /\ used \in {0} \cup Ports
               /\ sessions \subseteq [port : Ports, from : Clients, ctl : Header]
               /\ faults \in 0..MaxFaults
               /\ harmed \subseteq Clients
  BY DEF TypeOK, ClientT, ListenerT, ListenT, WaitT, PacketT

LEMMA TypeOKNext ==
    ASSUME /\ client' \in [Clients -> ClientT]
           /\ peer' \in [Clients -> {0} \cup Ports]
           /\ control' \in [Clients -> Header]
           /\ listener' \in ListenerT
           /\ lcontrol' \in Header
           /\ listenq' \in Seq(PacketT)
           /\ portq' \in [Ports -> Seq(Clients)]
           /\ clientq' \in [Clients -> Seq(Ports)]
           /\ open' \subseteq Ports
           /\ used' \in {0} \cup Ports
           /\ sessions' \subseteq [port : Ports, from : Clients, ctl : Header]
           /\ faults' \in 0..MaxFaults
           /\ harmed' \subseteq Clients
    PROVE  TypeOK'
  BY DEF TypeOK, ClientT, ListenerT, ListenT, WaitT, PacketT

LEMMA InitTypes == Init => TypeOK
  <1> SUFFICES ASSUME Init PROVE TypeOK
    OBVIOUS
  <1>1. [at |-> "idle", i |-> 0, pkt |-> "SYN"] \in ClientT
    BY Constants DEF ClientT
  <1>2. client \in [Clients -> ClientT]
    BY <1>1 DEF Init
  <1>3. Listening(0) \in ListenerT
    BY Constants DEF Listening, ListenerT, ListenT
  <1>4. Zero \in Header
    BY DEF Zero, Header
  <1>5. <<>> \in Seq(PacketT) /\ <<>> \in Seq(Clients) /\ <<>> \in Seq(Ports)
    OBVIOUS
  <1>6. 0 \in 0..MaxFaults
    BY Constants
  <1> QED
    BY <1>2, <1>3, <1>4, <1>5, <1>6, TypeOKIs DEF Init

LEMMA ConnectTypes ==
    ASSUME TypeOK, NEW c \in Clients, Connect(c)
    PROVE  TypeOK'
  <1>1. client' \in [Clients -> ClientT]
    BY ClientTypes, Constants DEF Connect
  <1>2. control' \in [Clients -> Header]
    <2>1. [seq |-> Hdr, ack |-> 0] \in Header
      BY Constants DEF Header
    <2> QED
      BY <2>1 DEF Connect, TypeOK
  <1>3. UNCHANGED <<peer, serverVars, listenq, portq, clientq>>
    BY DEF Connect
  <1> QED
    BY <1>1, <1>2, <1>3, FaultTypes, TypeOKIs, TypeOKNext DEF Connect, serverVars

LEMMA SendSynTypes ==
    ASSUME TypeOK, NEW c \in Clients, SendSyn(c)
    PROVE  TypeOK'
  <1>1. client' \in [Clients -> ClientT]
    BY ClientTypes DEF SendSyn
  <1>2. listenq' \in Seq(PacketT)
    <2>1. [flag |-> client[c].pkt, from |-> c] \in PacketT
      BY ClientShape DEF PacketT
    <2> QED
      BY <2>1, QueueShape DEF SendSyn
  <1>3. UNCHANGED <<peer, control, serverVars, portq, clientq>>
    BY DEF SendSyn
  <1> QED
    BY <1>1, <1>2, <1>3, FaultTypes, TypeOKIs, TypeOKNext DEF SendSyn, serverVars

LEMMA SendAckTypes ==
    ASSUME TypeOK, NEW c \in Clients, SendAck(c)
    PROVE  TypeOK'
  <1>1. client' \in [Clients -> ClientT]
    BY ClientTypes DEF SendAck
  <1>2. portq' \in [Ports -> Seq(Clients)]
    BY QueueShape, TypeOKIs DEF SendAck
  <1>3. UNCHANGED <<serverVars, listenq>>
    BY DEF SendAck
  <1> QED
    BY <1>1, <1>2, <1>3, AnswerTypes, FaultTypes, TypeOKIs, TypeOKNext
       DEF SendAck, serverVars

LEMMA SendAckFailsTypes ==
    ASSUME TypeOK, NEW c \in Clients, SendAckFails(c)
    PROVE  TypeOK'
  <1>1. client' \in [Clients -> ClientT]
    BY ConnectAgainTypes DEF SendAckFails
  <1>2. UNCHANGED <<serverVars, listenq, portq>>
    BY DEF SendAckFails
  <1> QED
    BY <1>1, <1>2, AnswerTypes, FaultTypes, TypeOKIs, TypeOKNext
       DEF SendAckFails, serverVars

\* The other failures of rudp_connect change its place and nothing else.
LEMMA ConnectFailsTypes ==
    ASSUME TypeOK, NEW c \in Clients,
           SendSynFails(c) \/ ConnectTimeout(c) \/ ConnectInterrupted(c)
    PROVE  TypeOK'
  <1>1. client' \in [Clients -> ClientT]
    <2>1. ASSUME ConnectFails(c) PROVE client' \in [Clients -> ClientT]
      BY <2>1, ClientTypes DEF ConnectFails
    <2>2. ASSUME ConnectAgain(c, client[c].pkt) PROVE client' \in [Clients -> ClientT]
      BY <2>2, ClientShape, ConnectAgainTypes
    <2> QED
      BY <2>1, <2>2 DEF SendSynFails, ConnectTimeout, ConnectInterrupted
  <1>2. UNCHANGED <<peer, control, serverVars, listenq, portq, clientq>>
    BY DEF SendSynFails, ConnectTimeout, ConnectInterrupted
  <1>3. faults' \in 0..MaxFaults /\ harmed' \subseteq Clients
    BY FaultTypes DEF SendSynFails, ConnectTimeout, ConnectInterrupted
  <1> QED
    BY <1>1, <1>2, <1>3, TypeOKIs, TypeOKNext DEF serverVars

LEMMA AcceptSynTypes ==
    ASSUME TypeOK, FewSockets, AcceptSyn
    PROVE  TypeOK'
  <1>1. Caller \in Clients /\ Tail(listenq) \in Seq(PacketT)
        /\ listener.i \in 0..(N_ATTEMPT - 1)
    BY HearsShape DEF AcceptSyn, HearsSyn
  <1>2. used' \in Ports
    BY NextPort DEF AcceptSyn, HearsSyn, Hears
  <1>3. listener' \in ListenerT
    BY <1>1, <1>2 DEF AcceptSyn, ListenerT, WaitT
  <1>4. lcontrol' \in Header
    BY Constants DEF AcceptSyn, Header
  <1>5. clientq' \in [Clients -> Seq(Ports)]
    <2>1. Append(clientq[Caller], used') \in Seq(Ports)
      BY <1>1, <1>2, ClientShape
    <2> QED
      BY <1>1, <2>1, TypeOKIs DEF AcceptSyn, AnswersFrom
  <1>6. open' \subseteq Ports /\ listenq' \in Seq(PacketT)
    BY <1>1, <1>2, TypeOKIs DEF AcceptSyn
  <1>7. UNCHANGED <<clientVars, portq, sessions>>
    BY DEF AcceptSyn
  <1> QED
    BY <1>2, <1>3, <1>4, <1>5, <1>6, <1>7, FaultTypes, TypeOKIs, TypeOKNext
       DEF AcceptSyn, clientVars

\* The steps of the service that open no socket for a client and serve none.
LEMMA AcceptTypes ==
    ASSUME TypeOK, FewSockets,
           \/ AcceptOther \/ AcceptSynFails \/ AcceptSocketFails
           \/ AcceptIdle \/ AcceptInterrupted \/ ForkFails \/ AckTimeout
           \/ AckInterrupted
    PROVE  TypeOK'
  <1>1. UNCHANGED <<clientVars, clientq, sessions>>
    BY DEF AcceptOther, AcceptSynFails, AcceptSocketFails, AcceptIdle,
           AcceptInterrupted, ForkFails, AckTimeout, AckInterrupted
  <1>2. lcontrol' \in Header
    <2>1. [seq |-> Hdr, ack |-> Hdr] \in Header
      BY Constants DEF Header
    <2> QED
      BY <2>1, TypeOKIs
         DEF AcceptOther, AcceptSynFails, AcceptSocketFails, AcceptIdle,
             AcceptInterrupted, ForkFails, AckTimeout, AckInterrupted
  <1>3. used' \in {0} \cup Ports
    BY NextPort, TypeOKIs
       DEF AcceptOther, AcceptSynFails, AcceptSocketFails, AcceptIdle,
           AcceptInterrupted, ForkFails, AckTimeout, AckInterrupted, HearsSyn,
           Hears
  <1>4. faults' \in 0..MaxFaults /\ harmed' \subseteq Clients
    BY FaultTypes, HearsShape, ListenerShape
       DEF AcceptOther, AcceptSynFails, AcceptSocketFails, AcceptIdle,
           AcceptInterrupted, ForkFails, AckTimeout, AckInterrupted, HearsSyn
  <1>5. /\ listener' \in ListenerT /\ open' \subseteq Ports
        /\ portq' \in [Ports -> Seq(Clients)] /\ listenq' \in Seq(PacketT)
    <2>0. /\ open \in SUBSET Ports /\ portq \in [Ports -> Seq(Clients)]
          /\ listenq \in Seq(PacketT) /\ Dead.at = "dead"
      BY TypeOKIs DEF Dead
    <2>1. CASE AcceptOther \/ AcceptSynFails
      <3>1. AcceptAgain(open, portq, Tail(listenq)) /\ Hears
        BY <2>1 DEF AcceptOther, AcceptSynFails, HearsSyn
      <3>2. listener # Dead
        BY <2>0, <3>1 DEF Hears
      <3>3. Tail(listenq) \in Seq(PacketT)
        BY <3>1, HearsShape
      <3> QED
        BY <2>0, <3>1, <3>2, <3>3, AgainTypes
    <2>2. CASE AcceptSocketFails \/ AcceptIdle \/ ForkFails \/ AckTimeout
      BY <2>2, ExitTypes DEF AcceptSocketFails, AcceptIdle, ForkFails, AckTimeout
    <2>3. CASE AcceptInterrupted
      <3>1. AcceptAgain(open, portq, listenq) /\ listener # Dead
        BY <2>0, <2>3 DEF AcceptInterrupted
      <3> QED
        BY <2>0, <3>1, AgainTypes
    <2>4. CASE AckInterrupted
      <3>1. AcceptAgain(Closed(listener.port),
                        [portq EXCEPT ![listener.port] = <<>>], listenq)
        BY <2>4 DEF AckInterrupted
      <3>2. listener # Dead
        BY <2>4, ListenerShape DEF AckInterrupted
      <3>3. Closed(listener.port) \in SUBSET Ports
        BY <2>0 DEF Closed
      <3>4. [portq EXCEPT ![listener.port] = <<>>] \in [Ports -> Seq(Clients)]
        <4>1. <<>> \in Seq(Clients)
          OBVIOUS
        <4> QED
          BY <2>0, <4>1
      <3> QED
        BY <2>0, <3>1, <3>2, <3>3, <3>4, AgainTypes
    <2> QED
      BY <2>1, <2>2, <2>3, <2>4
  <1> QED
    BY <1>1, <1>2, <1>3, <1>4, <1>5, TypeOKIs, TypeOKNext DEF clientVars

LEMMA ServeTypes ==
    ASSUME TypeOK, Serve
    PROVE  TypeOK'
  <1>1. listener.from \in Clients /\ listener.port \in Ports
    BY ListenerShape DEF Serve
  <1>2. listener' \in ListenerT
    BY Constants DEF Serve, Listening, ListenerT, ListenT
  <1>3. portq' \in [Ports -> Seq(Clients)]
    <2>1. portq[listener.port] \in Seq(Clients) /\ Len(portq[listener.port]) \in Nat
          /\ portq[listener.port] # <<>>
      BY <1>1, QueueShape DEF Serve, ServesWhen
    <2>2. SubSeq(portq[listener.port], 2, Len(portq[listener.port])) \in Seq(Clients)
      BY <2>1
    <2> QED
      BY <2>2, TypeOKIs DEF Serve
  <1>4. sessions' \subseteq [port : Ports, from : Clients, ctl : Header]
    BY <1>1, TypeOKIs DEF Serve
  <1>5. UNCHANGED <<clientVars, lcontrol, listenq, clientq, open, used>>
    BY DEF Serve
  <1> QED
    BY <1>2, <1>3, <1>4, <1>5, FaultTypes, TypeOKIs, TypeOKNext
       DEF Serve, clientVars

LEMMA NetworkTypes ==
    ASSUME TypeOK,
           \/ LoseSyn \/ DuplicateSyn
           \/ \E c \in Clients : LoseAnswer(c)
           \/ \E k \in Ports : LoseAck(k)
    PROVE  TypeOK'
  <1>1. CASE LoseSyn
    <2>1. Head(listenq) \in PacketT /\ Tail(listenq) \in Seq(PacketT)
      BY <1>1, QueueShape DEF LoseSyn
    <2>2. Head(listenq).from \in Clients
      BY <2>1 DEF PacketT
    <2>3. UNCHANGED <<clientVars, serverVars, portq, clientq>>
      BY <1>1 DEF LoseSyn
    <2> QED
      BY <1>1, <2>1, <2>2, <2>3, FaultTypes, TypeOKIs, TypeOKNext
         DEF LoseSyn, clientVars, serverVars
  <1>2. CASE DuplicateSyn
    <2>1. Head(listenq) \in PacketT
      BY <1>2, QueueShape DEF DuplicateSyn
    <2>2. Head(listenq).from \in Clients /\ listenq' \in Seq(PacketT)
      BY <1>2, <2>1, QueueShape DEF PacketT, DuplicateSyn
    <2>3. UNCHANGED <<clientVars, serverVars, portq, clientq>>
      BY <1>2 DEF DuplicateSyn
    <2> QED
      BY <1>2, <2>2, <2>3, FaultTypes, TypeOKIs, TypeOKNext
         DEF DuplicateSyn, clientVars, serverVars
  <1>3. ASSUME NEW c \in Clients, LoseAnswer(c)
        PROVE  TypeOK'
    <2>1. clientq' \in [Clients -> Seq(Ports)]
      <3>1. Tail(clientq[c]) \in Seq(Ports)
        BY <1>3, ClientShape DEF LoseAnswer
      <3> QED
        BY <1>3, <3>1, TypeOKIs DEF LoseAnswer
    <2>2. UNCHANGED <<clientVars, serverVars, listenq, portq>>
      BY <1>3 DEF LoseAnswer
    <2> QED
      BY <1>3, <2>1, <2>2, FaultTypes, TypeOKIs, TypeOKNext
         DEF LoseAnswer, clientVars, serverVars
  <1>4. ASSUME NEW k \in Ports, LoseAck(k)
        PROVE  TypeOK'
    <2>1. Head(portq[k]) \in Clients /\ Tail(portq[k]) \in Seq(Clients)
      BY <1>4, QueueShape DEF LoseAck
    <2>2. portq' \in [Ports -> Seq(Clients)]
      BY <1>4, <2>1, TypeOKIs DEF LoseAck
    <2>3. UNCHANGED <<clientVars, serverVars, listenq, clientq>>
      BY <1>4 DEF LoseAck
    <2> QED
      BY <1>4, <2>1, <2>2, <2>3, FaultTypes, TypeOKIs, TypeOKNext
         DEF LoseAck, clientVars, serverVars
  <1> QED
    BY <1>1, <1>2, <1>3, <1>4

\* A step keeps the types, because there are never more sockets than Ports.
LEMMA NextTypes ==
    ASSUME TypeOK, FewSockets, [Next]_vars
    PROVE  TypeOK'
  <1>1. CASE UNCHANGED vars
    BY <1>1, TypeOKIs, TypeOKNext DEF vars
  <1> QED
    BY <1>1, ConnectTypes, SendSynTypes, SendAckTypes, SendAckFailsTypes,
       ConnectFailsTypes, AcceptSynTypes, AcceptTypes, ServeTypes, NetworkTypes
       DEF Next, ClientStep, ListenerStep, Disturbance

-----------------------------------------------------------------------------
(* The bound on sockets.                                                   *)

LEMMA SentByInt ==
    ASSUME TypeOK
    PROVE  \A c \in Clients : SentBy(c) \in Int
  BY ClientShape DEF SentBy

LEMMA SentByIntNext ==
    ASSUME TypeOK'
    PROVE  \A c \in Clients : SentBy(c)' \in Int
  <1> SUFFICES ASSUME NEW c \in Clients PROVE SentBy(c)' \in Int
    OBVIOUS
  <1>1. client'[c].i \in 0..(N_ATTEMPT - 1)
    BY DEF TypeOK
  <1> QED
    BY <1>1 DEF SentBy

LEMMA FewKept ==
    ASSUME TypeOK, TypeOK', FewSockets,
           \A c \in Clients : SentBy(c) <= SentBy(c)',
           used' + Len(listenq') + faults <= used + Len(listenq) + faults'
    PROVE  FewSockets'
  <1>1. Cardinality(Sent) <= Cardinality(Sent')
    BY SentByInt, SentByIntNext, SentGrows
  <1>2. /\ used \in Nat /\ faults \in Nat /\ Len(listenq) \in Nat
        /\ Cardinality(Sent) \in Nat /\ Cardinality(Sent') \in Nat
    BY QueueShape, SentFinite, SentFiniteNext
  <1>3. listenq' \in Seq(PacketT) /\ used' \in {0} \cup Ports
        /\ faults' \in 0..MaxFaults
    BY DEF TypeOK, PacketT
  <1>4. used' \in Nat /\ faults' \in Nat /\ Len(listenq') \in Nat
    BY <1>3, Constants DEF Ports
  <1>5. used' + Len(listenq') <= Cardinality(Sent') + faults'
    BY <1>1, <1>2, <1>4 DEF FewSockets
  <1> QED
    BY <1>5 DEF FewSockets

\* What a client has sent it does not take back.
LEMMA SentMonotone ==
    ASSUME TypeOK, NEW c \in Clients
    PROVE  /\ client' = client => SentBy(c) <= SentBy(c)'
           /\ \A d \in Clients : Connect(d) => SentBy(c) <= SentBy(c)'
           /\ \A d \in Clients : SendAck(d) => SentBy(c) <= SentBy(c)'
           /\ \A d \in Clients : ConnectFails(d) => SentBy(c) <= SentBy(c)'
           /\ \A d \in Clients, k \in {"SYN", "ACK"} :
                 client[d].at = "wait" /\ ConnectAgain(d, k) =>
                     SentBy(c) <= SentBy(c)'
  <1>0. /\ client[c].i \in Nat /\ SentBy(c) \in Int
        /\ client \in [Clients -> ClientT]
    BY ClientShape, SentByInt, TypeOKIs
  <1>1. ASSUME client'[c] = client[c] PROVE SentBy(c) <= SentBy(c)'
    BY <1>0, <1>1 DEF SentBy
  <1>2. ASSUME NEW d \in Clients, Connect(d) PROVE SentBy(c) <= SentBy(c)'
    <2>1. CASE d = c
      BY <1>0, <1>2, <2>1 DEF Connect, SentBy
    <2>2. CASE d # c
      BY <1>0, <1>1, <1>2, <2>2 DEF Connect
    <2> QED
      BY <2>1, <2>2
  <1>3. ASSUME NEW d \in Clients, SendAck(d) PROVE SentBy(c) <= SentBy(c)'
    <2>1. CASE d = c
      <3>1. client[c].at = "wait" /\ client'[c] = [client[c] EXCEPT !.at = "connected"]
        BY <1>0, <1>3, <2>1 DEF SendAck, TakesAnswer
      <3>2. client'[c].at = "connected" /\ client'[c].i = client[c].i
        BY <1>0, <3>1 DEF ClientT
      <3> QED
        BY <1>0, <3>1, <3>2 DEF SentBy
    <2>2. CASE d # c
      BY <1>0, <1>1, <1>3, <2>2 DEF SendAck
    <2> QED
      BY <2>1, <2>2
  <1>4. ASSUME NEW d \in Clients, ConnectFails(d) PROVE SentBy(c) <= SentBy(c)'
    <2>1. CASE d = c
      <3>1. client'[c] = [client[c] EXCEPT !.at = "failed"]
        BY <1>0, <1>4, <2>1 DEF ConnectFails
      <3>2. client'[c].at = "failed" /\ client'[c].i = client[c].i
        BY <1>0, <3>1 DEF ClientT
      <3> QED
        BY <1>0, <3>2 DEF SentBy
    <2>2. CASE d # c
      BY <1>0, <1>1, <1>4, <2>2 DEF ConnectFails
    <2> QED
      BY <2>1, <2>2
  <1>5. ASSUME NEW d \in Clients, NEW k \in {"SYN", "ACK"},
               client[d].at = "wait", ConnectAgain(d, k)
        PROVE  SentBy(c) <= SentBy(c)'
    <2>1. CASE ~MoreTries(client[d].i)
      BY <1>4, <1>5, <2>1 DEF ConnectAgain
    <2>2. CASE MoreTries(client[d].i) /\ d = c
      BY <1>0, <1>5, <2>2 DEF ConnectAgain, SentBy
    <2>3. CASE MoreTries(client[d].i) /\ d # c
      BY <1>0, <1>1, <1>5, <2>3 DEF ConnectAgain
    <2> QED
      BY <2>1, <2>2, <2>3
  <1> QED
    BY <1>1, <1>2, <1>3, <1>4, <1>5

LEMMA AgainShrinks ==
    ASSUME NEW o, NEW pq, NEW lq \in Seq(PacketT), AcceptAgain(o, pq, lq)
    PROVE  listenq' \in Seq(PacketT) /\ Len(listenq') <= Len(lq)
  <1>1. Len(lq) \in Nat /\ Len(<<>>) = 0 /\ <<>> \in Seq(PacketT)
    OBVIOUS
  <1>2. listenq' = lq \/ listenq' = <<>>
    BY DEF AcceptAgain, Exit
  <1>3. CASE listenq' = lq
    BY <1>1, <1>3
  <1>4. CASE listenq' = <<>>
    BY <1>1, <1>4
  <1> QED
    BY <1>2, <1>3, <1>4

LEMMA FewSendSyn ==
    ASSUME TypeOK, TypeOK', FewSockets, NEW c \in Clients, SendSyn(c)
    PROVE  FewSockets'
  <1>1. /\ client \in [Clients -> ClientT] /\ client[c].i \in 0..(N_ATTEMPT - 1)
        /\ client[c].i \in Nat /\ client[c].at = "sendto"
        /\ client' = [client EXCEPT ![c].at = "wait"]
    BY ClientShape, TypeOKIs DEF SendSyn
  <1>2. client'[c].at = "wait" /\ client'[c].i = client[c].i
    BY <1>1 DEF ClientT
  <1>3. SentBy(c) = client[c].i /\ SentBy(c)' = client[c].i + 1
    BY <1>1, <1>2 DEF SentBy
  <1>4. \A d \in Clients : SentBy(d) <= SentBy(d)'
    <2> SUFFICES ASSUME NEW d \in Clients PROVE SentBy(d) <= SentBy(d)'
      OBVIOUS
    <2>1. CASE d = c
      BY <1>1, <1>3, <2>1
    <2>2. CASE d # c
      <3>1. client'[d] = client[d]
        BY <1>1, <2>2
      <3> QED
        BY <3>1, SentByInt DEF SentBy
    <2> QED
      BY <2>1, <2>2
  <1>5. Cardinality(Sent) + 1 <= Cardinality(Sent')
    BY <1>1, <1>3, <1>4, SentByInt, SentByIntNext, SentGrowsByOne
  <1>6. Len(listenq') <= Len(listenq) + 1 /\ Len(listenq') \in Nat
    BY QueueShape DEF SendSyn
  <1>7. used' = used /\ faults' = faults
    BY DEF SendSyn, serverVars, NoFault
  <1>8. /\ used \in Nat /\ faults \in Nat /\ Len(listenq) \in Nat
        /\ Cardinality(Sent) \in Nat /\ Cardinality(Sent') \in Nat
    BY QueueShape, SentFinite, SentFiniteNext
  <1>9. used' + Len(listenq') <= Cardinality(Sent') + faults'
    BY <1>5, <1>6, <1>7, <1>8 DEF FewSockets
  <1> QED
    BY <1>9 DEF FewSockets

LEMMA FewClient ==
    ASSUME TypeOK, TypeOK', FewSockets, NEW c \in Clients,
           \/ Connect(c) \/ SendSynFails(c) \/ SendAck(c) \/ SendAckFails(c)
           \/ ConnectTimeout(c) \/ ConnectInterrupted(c)
    PROVE  FewSockets'
  <1>1. \A d \in Clients : SentBy(d) <= SentBy(d)'
    BY SentMonotone, ClientShape
       DEF SendSynFails, SendAckFails, ConnectTimeout, ConnectInterrupted,
           TakesAnswer
  <1>2. used' = used /\ listenq' = listenq /\ faults <= faults'
    <2>1. faults' = faults \/ faults' = faults + 1
      BY DEF Connect, SendSynFails, SendAck, SendAckFails, ConnectTimeout,
             ConnectInterrupted, NoFault, Fault, FaultOf
    <2>2. faults \in Nat
      BY QueueShape
    <2> QED
      BY <2>1, <2>2
         DEF Connect, SendSynFails, SendAck, SendAckFails, ConnectTimeout,
             ConnectInterrupted, serverVars
  <1>3. /\ used \in Nat /\ faults \in Nat /\ Len(listenq) \in Nat
    BY QueueShape
  <1>4. faults' \in Nat
    BY Constants DEF TypeOK
  <1>5. used' + Len(listenq') + faults <= used + Len(listenq) + faults'
    BY <1>2, <1>3, <1>4
  <1> QED
    BY <1>1, <1>5, FewKept

\* The service takes datagrams out of the queue and opens at most one socket
\* for each.
LEMMA FewServer ==
    ASSUME TypeOK, TypeOK', FewSockets,
           \/ AcceptOther \/ AcceptSyn \/ AcceptSynFails \/ AcceptSocketFails
           \/ AcceptIdle \/ AcceptInterrupted \/ ForkFails \/ AckTimeout
           \/ AckInterrupted \/ Serve
    PROVE  FewSockets'
  <1>0. /\ used \in Nat /\ faults \in Nat /\ Len(listenq) \in Nat
        /\ listenq \in Seq(PacketT)
    BY QueueShape
  <1>1. client' = client /\ \A d \in Clients : SentBy(d) <= SentBy(d)'
    <2>1. client' = client
      BY DEF AcceptOther, AcceptSyn, AcceptSynFails, AcceptSocketFails,
             AcceptIdle, AcceptInterrupted, ForkFails, AckTimeout,
             AckInterrupted, Serve, clientVars
    <2> QED
      BY <2>1, SentMonotone
  <1>2. faults' \in Nat /\ faults <= faults'
    <2>1. faults' = faults \/ faults' = faults + 1
      BY DEF AcceptOther, AcceptSyn, AcceptSynFails, AcceptSocketFails,
             AcceptIdle, AcceptInterrupted, ForkFails, AckTimeout,
             AckInterrupted, Serve, NoFault, Fault, FaultOf
    <2> QED
      BY <1>0, <2>1
  <1>3. used' \in Nat /\ Len(listenq') \in Nat
        /\ used' + Len(listenq') <= used + Len(listenq)
    <2>1. CASE AcceptOther \/ AcceptSynFails
      <3>1. Hears /\ AcceptAgain(open, portq, Tail(listenq))
        BY <2>1 DEF AcceptOther, AcceptSynFails, HearsSyn
      <3>4. Tail(listenq) \in Seq(PacketT) /\ Len(Tail(listenq)) = Len(listenq) - 1
        BY <1>0, <3>1 DEF Hears
      <3>5. listenq' \in Seq(PacketT) /\ Len(listenq') <= Len(Tail(listenq))
        BY <3>1, <3>4, AgainShrinks
      <3>2. Len(listenq') \in Nat /\ Len(listenq') <= Len(listenq) - 1
        BY <3>4, <3>5
      <3>3. used' = used \/ used' = used + 1
        BY <2>1 DEF AcceptOther, AcceptSynFails
      <3> QED
        BY <1>0, <3>2, <3>3
    <2>2. CASE AcceptSyn
      <3>1. used' = used + 1 /\ Len(listenq') = Len(listenq) - 1
        BY <2>2, HearsShape DEF AcceptSyn, HearsSyn
      <3>2. Len(listenq') \in Nat
        BY <2>2, HearsShape DEF AcceptSyn, HearsSyn
      <3> QED
        BY <1>0, <3>1, <3>2
    <2>3. CASE AcceptSocketFails \/ AcceptIdle \/ ForkFails \/ AckTimeout
      <3>1. used' = used /\ listenq' = <<>>
        BY <2>3 DEF AcceptSocketFails, AcceptIdle, ForkFails, AckTimeout, Exit
      <3> QED
        BY <1>0, <3>1
    <2>4. CASE AcceptInterrupted \/ AckInterrupted
      <3>1. used' = used
        BY <2>4 DEF AcceptInterrupted, AckInterrupted
      <3>3. listenq' \in Seq(PacketT) /\ Len(listenq') <= Len(listenq)
        BY <1>0, <2>4, AgainShrinks DEF AcceptInterrupted, AckInterrupted
      <3>2. Len(listenq') \in Nat /\ Len(listenq') <= Len(listenq)
        BY <3>3
      <3> QED
        BY <1>0, <3>1, <3>2
    <2>5. CASE Serve
      BY <1>0, <2>5 DEF Serve
    <2> QED
      BY <2>1, <2>2, <2>3, <2>4, <2>5
  <1>4. used' + Len(listenq') + faults <= used + Len(listenq) + faults'
    BY <1>0, <1>2, <1>3
  <1> QED
    BY <1>1, <1>4, FewKept

LEMMA FewNetwork ==
    ASSUME TypeOK, TypeOK', FewSockets,
           \/ LoseSyn \/ DuplicateSyn
           \/ \E c \in Clients : LoseAnswer(c)
           \/ \E k \in Ports : LoseAck(k)
    PROVE  FewSockets'
  <1>0. /\ used \in Nat /\ faults \in Nat /\ Len(listenq) \in Nat
        /\ listenq \in Seq(PacketT)
    BY QueueShape
  <1>1. client' = client /\ \A d \in Clients : SentBy(d) <= SentBy(d)'
    <2>1. client' = client
      BY DEF LoseSyn, DuplicateSyn, LoseAnswer, LoseAck, clientVars
    <2> QED
      BY <2>1, SentMonotone
  <1>2. faults' = faults + 1 /\ used' = used
    BY DEF LoseSyn, DuplicateSyn, LoseAnswer, LoseAck, serverVars, Fault, FaultOf
  <1>3. Len(listenq') \in Nat /\ Len(listenq') <= Len(listenq) + 1
    <2>1. CASE LoseSyn
      BY <1>0, <2>1 DEF LoseSyn
    <2>2. CASE DuplicateSyn
      BY <1>0, <2>2 DEF DuplicateSyn
    <2>3. CASE listenq' = listenq
      BY <1>0, <2>3
    <2> QED
      BY <2>1, <2>2, <2>3 DEF LoseAnswer, LoseAck
  <1>4. used' + Len(listenq') + faults <= used + Len(listenq) + faults'
    BY <1>0, <1>2, <1>3
  <1> QED
    BY <1>1, <1>4, FewKept

LEMMA NextFew ==
    ASSUME TypeOK, TypeOK', FewSockets, [Next]_vars
    PROVE  FewSockets'
  <1>1. CASE UNCHANGED vars
    BY <1>1 DEF vars, FewSockets, Sent, SentBy
  <1> QED
    BY <1>1, FewSendSyn, FewClient, FewServer, FewNetwork
       DEF Next, ClientStep, ListenerStep, Disturbance

LEMMA InitFew == Init => FewSockets
  <1> SUFFICES ASSUME Init PROVE FewSockets
    OBVIOUS
  <1>1. used = 0 /\ Len(listenq) = 0 /\ faults = 0
    BY DEF Init
  <1> QED
    BY <1>1, SentFinite DEF FewSockets

\* Every variable has its type: above all, N_ATTEMPT sockets a client and one
\* for each fault are all that rudp_accept ever opens.
THEOREM TypeCorrect == Spec => []TypeOK
  <1>1. Init => TypeOK /\ FewSockets
    BY InitTypes, InitFew
  <1>2. TypeOK /\ FewSockets /\ [Next]_vars => (TypeOK /\ FewSockets)'
    BY NextTypes, NextFew
  <1> QED
    BY <1>1, <1>2, PTL DEF Spec

-----------------------------------------------------------------------------
(* What a step of the service leaves.                                      *)

LEMMA ToSetIs ==
    ASSUME NEW S, NEW s \in Seq(S)
    PROVE  ToSet(s) = {s[i] : i \in 1..Len(s)}
  BY DEF ToSet

LEMMA InSeq ==
    ASSUME NEW S, NEW s \in Seq(S)
    PROVE  /\ ToSet(s) \subseteq S
           /\ \A e \in S : ToSet(Append(s, e)) = ToSet(s) \cup {e}
           /\ s # <<>> => /\ Head(s) \in ToSet(s) /\ ToSet(Tail(s)) \subseteq ToSet(s)
                         /\ SubSeq(s, 2, Len(s)) = Tail(s)
  <1>1. ToSet(s) = {s[i] : i \in 1..Len(s)} /\ Len(s) \in Nat
        /\ \A i \in 1..Len(s) : s[i] \in S
    BY DEF ToSet
  <1>2. ASSUME NEW e \in S PROVE ToSet(Append(s, e)) = ToSet(s) \cup {e}
    <2>1. /\ Append(s, e) \in Seq(S) /\ Len(Append(s, e)) = Len(s) + 1
          /\ \A i \in 1..Len(s) : Append(s, e)[i] = s[i]
          /\ Append(s, e)[Len(s) + 1] = e
      OBVIOUS
    <2>2. ToSet(Append(s, e)) = {Append(s, e)[i] : i \in 1..(Len(s) + 1)}
      BY <2>1, ToSetIs
    <2>3. 1..(Len(s) + 1) = 1..Len(s) \cup {Len(s) + 1}
      BY <1>1
    <2> QED
      BY <1>1, <2>1, <2>2, <2>3
  <1>3. ASSUME s # <<>>
        PROVE  /\ Head(s) \in ToSet(s) /\ ToSet(Tail(s)) \subseteq ToSet(s)
               /\ SubSeq(s, 2, Len(s)) = Tail(s)
    <2>1. /\ Tail(s) \in Seq(S) /\ Len(Tail(s)) = Len(s) - 1
          /\ \A i \in 1..(Len(s) - 1) : Tail(s)[i] = s[i + 1]
          /\ Head(s) = s[1] /\ Len(s) >= 1
      BY <1>1, <1>3
    <2>2. ToSet(Tail(s)) = {Tail(s)[i] : i \in 1..Len(Tail(s))}
      BY <2>1, ToSetIs
    <2>3. ToSet(Tail(s)) \subseteq ToSet(s)
      BY <1>1, <2>1, <2>2
    <2>4. SubSeq(s, 2, Len(s)) = Tail(s)
      BY <1>1, <2>1
    <2> QED
      BY <1>1, <2>1, <2>3, <2>4
  <1> QED
    BY <1>1, <1>2, <1>3

\* No name of the source's: the steps after which no handshake is under way
\* and nobody was served.
Rests ==
    \/ AcceptOther \/ AcceptSynFails \/ AcceptSocketFails \/ AcceptIdle
    \/ AcceptInterrupted \/ ForkFails \/ AckTimeout \/ AckInterrupted

Held == {s.port : s \in sessions}

LEMMA ExitLeaves ==
    ASSUME Exit
    PROVE  /\ ~Waits' /\ open' = Held
           /\ \A k \in Ports : portq'[k] = portq[k] \/ portq'[k] = <<>>
           /\ listener' = Dead /\ listenq' = <<>>
  BY DEF Exit, Waits, Held, Dead

LEMMA AgainLeaves ==
    ASSUME NEW o, NEW pq, NEW lq, AcceptAgain(o, pq, lq)
    PROVE  /\ ~Waits'
           /\ open' = o \/ open' = Held
           /\ \A k \in Ports : \/ portq'[k] = pq[k] \/ portq'[k] = portq[k]
                              \/ portq'[k] = <<>>
           /\ \/ listener' = Dead /\ listenq' = <<>>
              \/ listener' # Dead /\ listenq' = lq
  <1>1. \A i : Listening(i).at = "listen"
    BY DEF Listening
  <1>2. Dead.at = "dead"
    BY DEF Dead
  <1>3. CASE MoreTries(listener.i)
    <2>1. /\ listener' = Listening(listener.i + 1) /\ open' = o /\ portq' = pq
          /\ listenq' = lq
      BY <1>3 DEF AcceptAgain
    <2>2. listener'.at = "listen" /\ listener' # Dead
      BY <1>1, <1>2, <2>1
    <2> QED
      BY <2>1, <2>2 DEF Waits
  <1>4. CASE ~MoreTries(listener.i)
    <2>1. Exit
      BY <1>4 DEF AcceptAgain
    <2> QED
      BY <2>1, ExitLeaves
  <1> QED
    BY <1>3, <1>4

\* Whatever failed, no socket is left but the sessions'.
LEMMA RestLeaves ==
    ASSUME TypeOK, PortsFresh, NoLeakedSocket, Rests
    PROVE  /\ ~Waits' /\ open' = Held /\ open' \subseteq open
           /\ \A k \in Ports : portq'[k] = portq[k] \/ portq'[k] = <<>>
           /\ client' = client /\ peer' = peer /\ control' = control
           /\ clientq' = clientq /\ sessions' = sessions
           /\ used' = used \/ used' = used + 1
           /\ harmed \subseteq harmed'
           /\ listener # Dead
  <1>1. /\ client' = client /\ peer' = peer /\ control' = control
        /\ clientq' = clientq /\ sessions' = sessions
        /\ used' = used \/ used' = used + 1
    BY DEF Rests, AcceptOther, AcceptSynFails, AcceptSocketFails, AcceptIdle,
           AcceptInterrupted, ForkFails, AckTimeout, AckInterrupted, clientVars
  <1>2. harmed \subseteq harmed'
    BY DEF Rests, AcceptOther, AcceptSynFails, AcceptSocketFails, AcceptIdle,
           AcceptInterrupted, ForkFails, AckTimeout, AckInterrupted,
           NoFault, Fault, FaultOf
  <1>3. Held \subseteq open /\ (~Waits => open = Held)
    BY DEF NoLeakedSocket, Held
  <1>4. Waits => /\ Closed(listener.port) = Held
                 /\ listener.port \in Ports
    <2>1. Waits => listener.port \notin Held /\ open = Held \cup {listener.port}
      BY DEF PortsFresh, NoLeakedSocket, Held
    <2> QED
      BY <2>1, ListenerShape DEF Closed
  <1>5. ~Waits' /\ open' = Held
        /\ \A k \in Ports : portq'[k] = portq[k] \/ portq'[k] = <<>>
    <2>1. CASE AcceptOther \/ AcceptSynFails
      <3>1. AcceptAgain(open, portq, Tail(listenq)) /\ Hears
        BY <2>1 DEF AcceptOther, AcceptSynFails, HearsSyn
      <3>2. ~Waits
        BY <3>1, HearsShape
      <3> QED
        BY <1>3, <3>1, <3>2, AgainLeaves
    <2>2. CASE AcceptInterrupted
      <3>1. AcceptAgain(open, portq, listenq) /\ ~Waits
        BY <2>2, ListenerShape DEF AcceptInterrupted
      <3> QED
        BY <1>3, <3>1, AgainLeaves
    <2>3. CASE AcceptSocketFails \/ AcceptIdle \/ ForkFails \/ AckTimeout
      BY <2>3, ExitLeaves DEF AcceptSocketFails, AcceptIdle, ForkFails, AckTimeout
    <2>4. CASE AckInterrupted
      <3>1. Waits /\ AcceptAgain(Held, [portq EXCEPT ![listener.port] = <<>>],
                                 listenq)
        BY <1>4, <2>4 DEF AckInterrupted
      <3>2. \A k \in Ports : [portq EXCEPT ![listener.port] = <<>>][k]
                                \in {portq[k], <<>>}
        BY TypeOKIs
      <3> QED
        BY <3>1, <3>2, AgainLeaves
    <2> QED
      BY <2>1, <2>2, <2>3, <2>4 DEF Rests
  <1>6. listener # Dead
    <2>1. Dead.at = "dead"
      BY DEF Dead
    <2> QED
      BY <2>1 DEF Rests, AcceptOther, AcceptSynFails, AcceptSocketFails,
         AcceptIdle, AcceptInterrupted, ForkFails, AckTimeout, AckInterrupted,
         HearsSyn, Hears, Waits
  <1> QED
    BY <1>1, <1>2, <1>3, <1>5, <1>6

-----------------------------------------------------------------------------
(* New sockets are nobody's.                                               *)

LEMMA FreshKept ==
    ASSUME TypeOK, PortsFresh, open' \subseteq open, used' = used \/ used' = used + 1,
           \A k \in Ports : portq'[k] # <<>> => portq[k] # <<>> \/ k \in open,
           \A c \in Clients : ToSet(clientq'[c]) \subseteq ToSet(clientq[c]),
           Waits' => Waits /\ listener' = listener /\ sessions' = sessions
    PROVE  PortsFresh'
  <1>1. used \in Nat /\ used' \in Nat /\ used <= used'
    BY QueueShape
  <1>2. \A k \in Ports : k \in Nat
    BY DEF Ports
  <1>3. open' \subseteq 1..used'
    <2> SUFFICES ASSUME NEW k \in open' PROVE k \in 1..used'
      OBVIOUS
    <2>1. k \in 1..used
      BY DEF PortsFresh
    <2> QED
      BY <1>1, <2>1
  <1>4. \A k \in Ports : k > used' => portq'[k] = <<>>
    BY <1>1, <1>2 DEF PortsFresh
  <1>5. \A c \in Clients : \A k \in ToSet(clientq'[c]) : k <= used'
    <2> SUFFICES ASSUME NEW c \in Clients, NEW k \in ToSet(clientq'[c])
                 PROVE  k <= used'
      OBVIOUS
    <2>1. k \in ToSet(clientq[c]) /\ k \in Ports
      BY ClientShape, InSeq
    <2> QED
      BY <1>1, <1>2, <2>1 DEF PortsFresh
  <1>6. Waits' => /\ listener'.port <= used'
                  /\ \A s \in sessions' : s.port # listener'.port
                  /\ \A c \in Clients \ {listener'.from} :
                        listener'.port \notin ToSet(clientq'[c])
    <2> SUFFICES ASSUME Waits'
                 PROVE  /\ listener'.port <= used'
                        /\ \A s \in sessions' : s.port # listener'.port
                        /\ \A c \in Clients \ {listener'.from} :
                              listener'.port \notin ToSet(clientq'[c])
      OBVIOUS
    <2>1. Waits /\ listener' = listener /\ sessions' = sessions
      OBVIOUS
    <2>2. listener.port \in Nat /\ listener.port <= used
      BY <1>2, <2>1, ListenerShape DEF PortsFresh
    <2>3. listener.port <= used'
      BY <1>1, <2>2
    <2>4. /\ \A s \in sessions : s.port # listener.port
          /\ \A c \in Clients \ {listener.from} :
                listener.port \notin ToSet(clientq'[c])
      BY <2>1 DEF PortsFresh
    <2> QED
      BY <2>1, <2>3, <2>4
  <1> QED
    BY <1>3, <1>4, <1>5, <1>6 DEF PortsFresh

LEMMA FreshAcceptSyn ==
    ASSUME TypeOK, FewSockets, PortsFresh, NoLeakedSocket, AcceptSyn
    PROVE  /\ PortsFresh' /\ NoLeakedSocket'
           /\ Waits' /\ listener'.from = Caller /\ listener'.port = used + 1
           /\ used + 1 \notin open /\ used + 1 \in Ports
  <1>1. /\ used' = used + 1 /\ open' = open \cup {used + 1}
        /\ listener' = [at |-> "wait", i |-> listener.i, from |-> Caller,
                        port |-> used + 1]
        /\ clientq' = [clientq EXCEPT ![Caller] = Append(@, used + 1)]
        /\ portq' = portq /\ sessions' = sessions
    BY DEF AcceptSyn, AnswersFrom
  <1>2. used \in Nat /\ used + 1 \in Ports /\ used + 1 \in Nat
    BY QueueShape, NextPort DEF AcceptSyn, HearsSyn, Hears
  <1>3. Caller \in Clients /\ ~Waits
    BY HearsShape DEF AcceptSyn, HearsSyn
  <1>4. Waits' /\ listener'.from = Caller /\ listener'.port = used + 1
    BY <1>1 DEF Waits
  <1>5. used + 1 \notin open
    BY <1>2 DEF PortsFresh
  <1>6. open = Held /\ \A s \in sessions : s.port # used + 1
    BY <1>3, <1>5 DEF NoLeakedSocket, Held
  <1>7. NoLeakedSocket'
    BY <1>1, <1>4, <1>6 DEF NoLeakedSocket, Held
  <1>8. \A k \in Ports : k \in Nat
    BY DEF Ports
  <1>9. ASSUME NEW c \in Clients
        PROVE  /\ \A k \in ToSet(clientq'[c]) : k <= used + 1
               /\ c # Caller => used + 1 \notin ToSet(clientq'[c])
    <2>1. clientq[c] \in Seq(Ports) /\ clientq \in [Clients -> Seq(Ports)]
      BY TypeOKIs
    <2>2. ToSet(clientq[c]) \subseteq Ports
          /\ ToSet(Append(clientq[c], used + 1)) = ToSet(clientq[c]) \cup {used + 1}
      BY <1>2, <2>1, InSeq
    <2>3. \A k \in ToSet(clientq[c]) : k \in Nat /\ k <= used
      BY <1>8, <2>2 DEF PortsFresh
    <2>4. ToSet(clientq'[c]) = ToSet(clientq[c]) \cup
                                  (IF c = Caller THEN {used + 1} ELSE {})
      BY <1>1, <2>1, <2>2
    <2> QED
      BY <1>2, <2>3, <2>4
  <1>10. \A k \in Ports : k > used + 1 => portq[k] = <<>>
    BY <1>2, <1>8 DEF PortsFresh
  <1>11. open' \subseteq 1..(used + 1)
    <2>1. \A k \in open : k \in 1..(used + 1)
      BY <1>2 DEF PortsFresh
    <2> QED
      BY <1>1, <1>2, <2>1
  <1>12. PortsFresh'
    <2>1. \A c \in Clients : \A k \in ToSet(clientq'[c]) : k <= used'
      BY <1>1, <1>9
    <2>2. Waits' => /\ listener'.port <= used'
                    /\ \A s \in sessions' : s.port # listener'.port
                    /\ \A c \in Clients \ {listener'.from} :
                          listener'.port \notin ToSet(clientq'[c])
      BY <1>1, <1>2, <1>4, <1>6, <1>9
    <2> QED
      BY <1>1, <1>10, <1>11, <2>1, <2>2 DEF PortsFresh
  <1> QED
    BY <1>2, <1>4, <1>5, <1>7, <1>12

\* The steps of a client and of the network, and what they leave.
ClientMoves(c) ==
    \/ Connect(c) \/ SendSyn(c) \/ SendSynFails(c) \/ SendAck(c)
    \/ SendAckFails(c) \/ ConnectTimeout(c) \/ ConnectInterrupted(c)

NetworkMoves ==
    \/ LoseSyn \/ DuplicateSyn
    \/ \E c \in Clients : LoseAnswer(c)
    \/ \E k \in Ports : LoseAck(k)

LEMMA NextCases ==
    ASSUME [Next]_vars
    PROVE  \/ UNCHANGED vars
           \/ \E c \in Clients : ClientMoves(c)
           \/ NetworkMoves \/ AcceptSyn \/ Serve \/ Rests
  BY DEF Next, ClientStep, ListenerStep, Disturbance, ClientMoves, NetworkMoves,
         Rests

LEMMA ClientLeaves ==
    ASSUME TypeOK, NEW c \in Clients, ClientMoves(c)
    PROVE  /\ UNCHANGED serverVars
           /\ client[c].at \in {"idle", "sendto", "wait"}
           /\ \A d \in Clients \ {c} : /\ client'[d] = client[d] /\ peer'[d] = peer[d]
                                       /\ control'[d] = control[d]
                                       /\ clientq'[d] = clientq[d]
           /\ ToSet(clientq'[c]) \subseteq ToSet(clientq[c])
           /\ harmed \subseteq harmed'
           /\ SendAck(c) \/ portq' = portq
  <1>1. UNCHANGED serverVars /\ (SendAck(c) \/ portq' = portq)
    BY DEF ClientMoves, Connect, SendSyn, SendSynFails, SendAck, SendAckFails,
           ConnectTimeout, ConnectInterrupted
  <1>2. client[c].at \in {"idle", "sendto", "wait"}
    BY DEF ClientMoves, Connect, SendSyn, SendSynFails, SendAck, SendAckFails,
           ConnectTimeout, ConnectInterrupted, TakesAnswer
  <1>3. harmed \subseteq harmed'
    BY DEF ClientMoves, Connect, SendSyn, SendSynFails, SendAck, SendAckFails,
           ConnectTimeout, ConnectInterrupted, NoFault, Fault, FaultOf
  <1>4. ASSUME NEW d \in Clients \ {c} PROVE client'[d] = client[d]
    BY <1>4, TypeOKIs
       DEF ClientMoves, Connect, SendSyn, SendSynFails, SendAck, SendAckFails,
           ConnectTimeout, ConnectInterrupted, ConnectFails, ConnectAgain
  <1>5. CASE TakesAnswer(c)
    <2>1. clientq[c] \in Seq(Ports) /\ clientq[c] # <<>>
      BY <1>5, ClientShape DEF TakesAnswer
    <2>2. ToSet(Tail(clientq[c])) \subseteq ToSet(clientq[c])
      BY <2>1, InSeq
    <2>3. clientq'[c] = Tail(clientq[c])
          /\ \A d \in Clients \ {c} : peer'[d] = peer[d] /\ control'[d] = control[d]
                                      /\ clientq'[d] = clientq[d]
      BY <1>5, TypeOKIs DEF TakesAnswer
    <2> QED
      BY <1>1, <1>2, <1>3, <1>4, <2>2, <2>3
  <1>6. CASE ~TakesAnswer(c)
    <2>1. clientq' = clientq /\ peer' = peer
          /\ \A d \in Clients \ {c} : control'[d] = control[d]
      BY <1>6, TypeOKIs
         DEF ClientMoves, Connect, SendSyn, SendSynFails, SendAck, SendAckFails,
             ConnectTimeout, ConnectInterrupted
    <2> QED
      BY <1>1, <1>2, <1>3, <1>4, <2>1
  <1> QED
    BY <1>5, <1>6

LEMMA NetworkLeaves ==
    ASSUME TypeOK, NetworkMoves
    PROVE  /\ UNCHANGED serverVars /\ UNCHANGED clientVars
           /\ \A c \in Clients : ToSet(clientq'[c]) \subseteq ToSet(clientq[c])
           /\ \A k \in Ports : /\ ToSet(portq'[k]) \subseteq ToSet(portq[k])
                               /\ portq'[k] # <<>> => portq[k] # <<>>
           /\ harmed \subseteq harmed'
  <1>1. /\ UNCHANGED serverVars /\ UNCHANGED clientVars
        /\ harmed \subseteq harmed'
    BY DEF NetworkMoves, LoseSyn, DuplicateSyn, LoseAnswer, LoseAck, Fault, FaultOf
  <1>2. CASE LoseSyn \/ DuplicateSyn
    <2>1. clientq' = clientq /\ portq' = portq
      BY <1>2 DEF LoseSyn, DuplicateSyn
    <2> QED
      BY <1>1, <2>1
  <1>3. ASSUME NEW c \in Clients, LoseAnswer(c)
        PROVE  /\ portq' = portq
               /\ \A d \in Clients : ToSet(clientq'[d]) \subseteq ToSet(clientq[d])
    <2>1. clientq[c] \in Seq(Ports) /\ clientq[c] # <<>>
          /\ clientq \in [Clients -> Seq(Ports)]
      BY <1>3, ClientShape, TypeOKIs DEF LoseAnswer
    <2>2. ToSet(Tail(clientq[c])) \subseteq ToSet(clientq[c])
      BY <2>1, InSeq
    <2>3. \A d \in Clients : clientq'[d] = IF d = c THEN Tail(clientq[c]) ELSE clientq[d]
      BY <1>3, <2>1 DEF LoseAnswer
    <2>4. portq' = portq
      BY <1>3 DEF LoseAnswer
    <2> QED
      BY <2>2, <2>3, <2>4
  <1>4. ASSUME NEW k \in Ports, LoseAck(k)
        PROVE  /\ clientq' = clientq
               /\ \A m \in Ports : /\ ToSet(portq'[m]) \subseteq ToSet(portq[m])
                                   /\ portq'[m] # <<>> => portq[m] # <<>>
    <2>1. portq[k] \in Seq(Clients) /\ portq[k] # <<>>
          /\ portq \in [Ports -> Seq(Clients)]
      BY <1>4, QueueShape, TypeOKIs DEF LoseAck
    <2>2. ToSet(Tail(portq[k])) \subseteq ToSet(portq[k])
      BY <2>1, InSeq
    <2>3. \A m \in Ports : portq'[m] = IF m = k THEN Tail(portq[k]) ELSE portq[m]
      BY <1>4, <2>1 DEF LoseAck
    <2>4. clientq' = clientq
      BY <1>4 DEF LoseAck
    <2> QED
      BY <2>1, <2>2, <2>3, <2>4
  <1> QED
    BY <1>1, <1>2, <1>3, <1>4 DEF NetworkMoves

LEMMA ServeLeaves ==
    ASSUME TypeOK, Serve
    PROVE  /\ Waits /\ ~Waits' /\ listener # Dead /\ listener' # Dead
           /\ listener.from \in Clients /\ listener.port \in Ports
           /\ portq[listener.port] # <<>>
           /\ listener.from \in ToSet(portq[listener.port])
           /\ sessions' = sessions \cup {[port |-> listener.port,
                                          from |-> listener.from, ctl |-> lcontrol]}
           /\ \A k \in Ports \ {listener.port} : portq'[k] = portq[k]
           /\ ToSet(portq'[listener.port]) \subseteq ToSet(portq[listener.port])
           /\ client' = client /\ peer' = peer /\ control' = control
           /\ clientq' = clientq /\ listenq' = listenq /\ open' = open
           /\ used' = used /\ harmed' = harmed /\ lcontrol' = lcontrol
  <1>1. Waits /\ listener.from \in Clients /\ listener.port \in Ports
        /\ listener # Dead
    BY ListenerShape DEF Serve
  <1>2. ~Waits' /\ listener' # Dead
    <2>1. Listening(0).at = "listen" /\ Dead.at = "dead"
      BY DEF Listening, Dead
    <2> QED
      BY <2>1 DEF Serve, Waits
  <1>3. portq[listener.port] \in Seq(Clients) /\ portq[listener.port] # <<>>
        /\ Head(portq[listener.port]) = listener.from
        /\ portq \in [Ports -> Seq(Clients)]
    BY <1>1, TypeOKIs DEF Serve, ServesWhen
  <1>4. /\ Head(portq[listener.port]) \in ToSet(portq[listener.port])
        /\ ToSet(Tail(portq[listener.port])) \subseteq ToSet(portq[listener.port])
        /\ SubSeq(portq[listener.port], 2, Len(portq[listener.port]))
              = Tail(portq[listener.port])
    BY <1>3, InSeq
  <1>5. portq'[listener.port] = Tail(portq[listener.port])
        /\ \A k \in Ports \ {listener.port} : portq'[k] = portq[k]
    BY <1>1, <1>3, <1>4 DEF Serve
  <1>6. /\ client' = client /\ peer' = peer /\ control' = control
        /\ clientq' = clientq /\ listenq' = listenq /\ open' = open
        /\ used' = used /\ harmed' = harmed /\ lcontrol' = lcontrol
    BY DEF Serve, clientVars, NoFault
  <1>7. sessions' = sessions \cup {[port |-> listener.port,
                                    from |-> listener.from, ctl |-> lcontrol]}
    BY DEF Serve
  <1> QED
    BY <1>1, <1>2, <1>3, <1>4, <1>5, <1>6, <1>7

LEMMA ServeAdds ==
    ASSUME TypeOK, Serve
    PROVE  \E t : /\ sessions' = sessions \cup {t} /\ t.port = listener.port
                  /\ t.from = listener.from /\ t.ctl = lcontrol
  <1> WITNESS [port |-> listener.port, from |-> listener.from, ctl |-> lcontrol]
  <1> QED
    BY ServeLeaves

\* Where an ACK is put is a socket that is open.
LEMMA AckLeaves ==
    ASSUME TypeOK, NEW c \in Clients, SendAck(c)
    PROVE  /\ client[c].at = "wait" /\ clientq[c] # <<>>
           /\ Head(clientq[c]) \in Ports /\ Head(clientq[c]) \in ToSet(clientq[c])
           /\ client'[c].at = "connected" /\ peer'[c] = Head(clientq[c])
           /\ control'[c] = [seq |-> control[c].seq, ack |-> Hdr]
           /\ clientq'[c] = Tail(clientq[c])
           /\ \A k \in Ports :
                 portq'[k] = IF k = Head(clientq[c]) /\ k \in open
                             THEN Append(portq[k], c) ELSE portq[k]
           /\ UNCHANGED <<serverVars, listenq, harmed>>
  <1>1. /\ client[c].at = "wait" /\ clientq[c] # <<>>
        /\ clientq[c] \in Seq(Ports)
    BY ClientShape DEF SendAck, TakesAnswer
  <1>2. Head(clientq[c]) \in Ports /\ Head(clientq[c]) \in ToSet(clientq[c])
    BY <1>1, InSeq
  <1>3. client'[c].at = "connected"
    <2>1. client'[c] = [client[c] EXCEPT !.at = "connected"]
      BY TypeOKIs DEF SendAck
    <2> QED
      BY <2>1, ClientShape DEF ClientT
  <1>4. peer'[c] = Head(clientq[c]) /\ clientq'[c] = Tail(clientq[c])
    BY TypeOKIs DEF SendAck, TakesAnswer
  <1>5. control'[c] = [seq |-> control[c].seq, ack |-> Hdr]
    <2>1. control'[c] = [control[c] EXCEPT !.ack = Hdr]
      BY TypeOKIs DEF SendAck, TakesAnswer, ConnectedControl
    <2>2. control[c] \in Header
      BY TypeOKIs
    <2> QED
      BY <2>1, <2>2 DEF Header
  <1>6. ASSUME NEW k \in Ports
        PROVE  portq'[k] = IF k = Head(clientq[c]) /\ k \in open
                           THEN Append(portq[k], c) ELSE portq[k]
    BY TypeOKIs DEF SendAck
  <1>7. UNCHANGED <<serverVars, listenq, harmed>>
    BY DEF SendAck, NoFault
  <1> QED
    BY <1>1, <1>2, <1>3, <1>4, <1>5, <1>6, <1>7

-----------------------------------------------------------------------------
(* Sockets: no step leaks one, and new ones are fresh.                     *)

LEMMA NextSockets ==
    ASSUME TypeOK, FewSockets, PortsFresh, NoLeakedSocket, [Next]_vars
    PROVE  PortsFresh' /\ NoLeakedSocket'
  <1>1. CASE UNCHANGED vars
    BY <1>1 DEF vars, PortsFresh, NoLeakedSocket, Waits
  <1>2. ASSUME NEW c \in Clients, ClientMoves(c)
        PROVE  PortsFresh' /\ NoLeakedSocket'
    <2>1. /\ listener' = listener /\ open' = open /\ used' = used
          /\ sessions' = sessions
      BY <1>2, ClientLeaves DEF serverVars
    <2>2. \A d \in Clients : ToSet(clientq'[d]) \subseteq ToSet(clientq[d])
      BY <1>2, ClientLeaves
    <2>3. \A k \in Ports : portq'[k] # <<>> => portq[k] # <<>> \/ k \in open
      BY <1>2, ClientLeaves, AckLeaves
    <2>4. Waits' <=> Waits
      BY <2>1 DEF Waits
    <2>5. PortsFresh'
      BY <2>1, <2>2, <2>3, <2>4, FreshKept
    <2> QED
      BY <2>1, <2>4, <2>5 DEF NoLeakedSocket
  <1>3. CASE NetworkMoves
    <2>1. /\ listener' = listener /\ open' = open /\ used' = used
          /\ sessions' = sessions
      BY <1>3, NetworkLeaves DEF serverVars
    <2>2. \A d \in Clients : ToSet(clientq'[d]) \subseteq ToSet(clientq[d])
      BY <1>3, NetworkLeaves
    <2>3. \A k \in Ports : portq'[k] # <<>> => portq[k] # <<>>
      BY <1>3, NetworkLeaves
    <2>4. Waits' <=> Waits
      BY <2>1 DEF Waits
    <2>5. PortsFresh'
      BY <2>1, <2>2, <2>3, <2>4, FreshKept
    <2> QED
      BY <2>1, <2>4, <2>5 DEF NoLeakedSocket
  <1>4. CASE AcceptSyn
    BY <1>4, FreshAcceptSyn
  <1>5. CASE Serve
    <2>1. /\ open' = open /\ used' = used /\ ~Waits' /\ clientq' = clientq
          /\ \A k \in Ports : portq'[k] # <<>> => portq[k] # <<>>
      BY <1>5, ServeLeaves
    <2>2. PortsFresh'
      BY <2>1, FreshKept
    <2>4. Held' = Held \cup {listener.port}
      <3>1. PICK t : /\ sessions' = sessions \cup {t}
                     /\ t.port = listener.port
        BY <1>5, ServeAdds
      <3>2. Held' = {s.port : s \in sessions'}
        BY DEF Held
      <3> QED
        BY <3>1, <3>2 DEF Held
    <2>5. open = Held \cup {listener.port}
      BY <1>5, ServeLeaves DEF NoLeakedSocket, Held
    <2> QED
      BY <2>1, <2>2, <2>4, <2>5 DEF NoLeakedSocket, Held
  <1>6. CASE Rests
    <2>1. /\ ~Waits' /\ open' = Held /\ open' \subseteq open
          /\ used' = used \/ used' = used + 1
          /\ clientq' = clientq /\ sessions' = sessions
          /\ \A k \in Ports : portq'[k] # <<>> => portq[k] # <<>>
      BY <1>6, RestLeaves
    <2>2. PortsFresh'
      BY <2>1, FreshKept
    <2>3. Held' = Held
      BY <2>1 DEF Held
    <2> QED
      BY <2>1, <2>2, <2>3 DEF NoLeakedSocket, Held
  <1> QED
    BY <1>1, <1>2, <1>3, <1>4, <1>5, <1>6, NextCases

-----------------------------------------------------------------------------
(* An ACK on its way is of a client that is connected to that socket.      *)

LEMMA NextAcks ==
    ASSUME TypeOK, PortsFresh, NoLeakedSocket, AcksMatch, [Next]_vars
    PROVE  AcksMatch'
  <1>0. ASSUME client' = client, peer' = peer,
               \A k \in Ports : ToSet(portq'[k]) \subseteq ToSet(portq[k])
        PROVE  AcksMatch'
    BY <1>0 DEF AcksMatch
  <1>1. CASE UNCHANGED vars
    BY <1>1 DEF vars, AcksMatch
  <1>2. ASSUME NEW c \in Clients, ClientMoves(c)
        PROVE  AcksMatch'
    <2> SUFFICES ASSUME NEW k \in Ports, NEW d \in ToSet(portq'[k])
                 PROVE  client'[d].at = "connected" /\ peer'[d] = k
      BY DEF AcksMatch
    <2>1. ToSet(portq[k]) \subseteq Clients /\ portq[k] \in Seq(Clients)
          /\ \A e \in Clients : ToSet(Append(portq[k], e)) = ToSet(portq[k]) \cup {e}
      BY QueueShape, InSeq
    <2>2. CASE d \in ToSet(portq[k])
      <3>1. client[d].at = "connected" /\ peer[d] = k /\ d \in Clients
        BY <2>1, <2>2 DEF AcksMatch
      <3>2. d # c
        BY <1>2, <3>1, ClientLeaves
      <3> QED
        BY <1>2, <3>1, <3>2, ClientLeaves
    <2>3. CASE d \notin ToSet(portq[k])
      <3>1. SendAck(c)
        BY <1>2, <2>3, ClientLeaves
      <3>2. d = c /\ k = Head(clientq[c])
        BY <2>1, <2>3, <3>1, AckLeaves
      <3> QED
        BY <3>1, <3>2, AckLeaves
    <2> QED
      BY <2>2, <2>3
  <1>3. CASE NetworkMoves
    BY <1>0, <1>3, NetworkLeaves DEF clientVars
  <1>4. CASE AcceptSyn
    BY <1>0, <1>4 DEF AcceptSyn, clientVars
  <1>5. CASE Serve
    <2>1. \A k \in Ports : ToSet(portq'[k]) \subseteq ToSet(portq[k])
      BY <1>5, ServeLeaves
    <2> QED
      BY <1>0, <1>5, <2>1, ServeLeaves
  <1>6. CASE Rests
    <2>1. ToSet(<<>>) = {}
      BY DEF ToSet
    <2>2. \A k \in Ports : ToSet(portq'[k]) \subseteq ToSet(portq[k])
      BY <1>6, <2>1, RestLeaves
    <2> QED
      BY <1>0, <1>6, <2>2, RestLeaves
  <1> QED
    BY <1>1, <1>2, <1>3, <1>4, <1>5, <1>6, NextCases

-----------------------------------------------------------------------------
(* The controls.                                                           *)

LEMMA ControlsClient ==
    ASSUME TypeOK, ControlsSet, NEW c \in Clients, ClientMoves(c)
    PROVE  /\ client'[c].at \in {"sendto", "wait"} => control'[c].seq = Hdr
           /\ client'[c].at = "connected" => control'[c] = Both
  <1>0. client \in [Clients -> ClientT] /\ control \in [Clients -> Header]
        /\ client[c] \in ClientT
    BY TypeOKIs, ClientShape
  <1>1. CASE Connect(c)
    <2>1. control'[c] = [seq |-> Hdr, ack |-> 0] /\ client'[c].at = "sendto"
      BY <1>0, <1>1 DEF Connect
    <2> QED
      BY <2>1
  <1>2. CASE SendAck(c)
    <2>1. client'[c].at = "connected" /\ client[c].at = "wait"
          /\ control'[c] = [seq |-> control[c].seq, ack |-> Hdr]
      BY <1>2, AckLeaves
    <2>2. control[c].seq = Hdr
      BY <2>1 DEF ControlsSet
    <2> QED
      BY <2>1, <2>2 DEF Both
  <1>3. CASE SendSyn(c)
    <2>1. client'[c].at = "wait" /\ client[c].at = "sendto" /\ control' = control
      BY <1>0, <1>3 DEF SendSyn, ClientT
    <2> QED
      BY <2>1 DEF ControlsSet
  <1>4. CASE SendSynFails(c) \/ ConnectTimeout(c)
    <2>1. client'[c].at = "failed"
      BY <1>0, <1>4 DEF SendSynFails, ConnectTimeout, ConnectFails, ClientT
    <2> QED
      BY <2>1
  <1>5. ASSUME NEW k, ConnectAgain(c, k) PROVE client'[c].at \in {"sendto", "failed"}
    BY <1>0, <1>5 DEF ConnectAgain, ConnectFails, ClientT
  <1>6. CASE ConnectInterrupted(c)
    <2>1. client[c].at = "wait" /\ control' = control
          /\ client'[c].at \in {"sendto", "failed"}
      BY <1>5, <1>6 DEF ConnectInterrupted
    <2> QED
      BY <2>1 DEF ControlsSet
  <1>7. CASE SendAckFails(c)
    <2>1. client[c].at = "wait" /\ client'[c].at \in {"sendto", "failed"}
      BY <1>5, <1>7 DEF SendAckFails, TakesAnswer
    <2>2. control'[c] = [control[c] EXCEPT !.ack = Hdr] /\ control[c] \in Header
      BY <1>0, <1>7 DEF SendAckFails, TakesAnswer, ConnectedControl
    <2>3. control'[c].seq = control[c].seq
      BY <2>2 DEF Header
    <2> QED
      BY <2>1, <2>3 DEF ControlsSet
  <1> QED
    BY <1>1, <1>2, <1>3, <1>4, <1>6, <1>7 DEF ClientMoves

LEMMA NextControls ==
    ASSUME TypeOK, PortsFresh, NoLeakedSocket, ControlsSet, [Next]_vars
    PROVE  ControlsSet'
  <1>1. CASE UNCHANGED vars
    BY <1>1 DEF vars, ControlsSet, Waits
  <1>2. ASSUME NEW c \in Clients, ClientMoves(c)
        PROVE  ControlsSet'
    <2>1. /\ listener' = listener /\ lcontrol' = lcontrol /\ sessions' = sessions
      BY <1>2, ClientLeaves DEF serverVars
    <2>2. ASSUME NEW d \in Clients
          PROVE  /\ client'[d].at \in {"sendto", "wait"} => control'[d].seq = Hdr
                 /\ client'[d].at = "connected" => control'[d] = Both
      <3>1. CASE d = c
        BY <1>2, <3>1, ControlsClient
      <3>2. CASE d # c
        <4>1. client'[d] = client[d] /\ control'[d] = control[d]
          BY <1>2, <3>2, ClientLeaves
        <4> QED
          BY <4>1 DEF ControlsSet
      <3> QED
        BY <3>1, <3>2
    <2> QED
      BY <2>1, <2>2 DEF ControlsSet, Waits, Both
  <1>3. CASE NetworkMoves
    BY <1>3, NetworkLeaves DEF ControlsSet, clientVars, serverVars, Waits, Both
  <1>4. CASE AcceptSyn
    BY <1>4 DEF AcceptSyn, ControlsSet, clientVars, Both
  <1>5. CASE Serve
    <2>1. PICK t : /\ sessions' = sessions \cup {t}
                   /\ t.ctl = lcontrol
      BY <1>5, ServeAdds
    <2>2. Waits /\ ~Waits' /\ client' = client /\ control' = control
      BY <1>5, ServeLeaves
    <2>3. t.ctl = Both
      BY <2>1, <2>2 DEF ControlsSet
    <2> QED
      BY <2>1, <2>2, <2>3 DEF ControlsSet, Both
  <1>6. CASE Rests
    <2>1. ~Waits' /\ client' = client /\ control' = control /\ sessions' = sessions
      BY <1>6, RestLeaves
    <2> QED
      BY <2>1 DEF ControlsSet, Both
  <1> QED
    BY <1>1, <1>2, <1>3, <1>4, <1>5, <1>6, NextCases

-----------------------------------------------------------------------------
(* Sessions.                                                               *)

LEMMA NextSessions ==
    ASSUME TypeOK, PortsFresh, NoLeakedSocket, AcksMatch, SessionsMatch, [Next]_vars
    PROVE  SessionsMatch'
  <1>0. \A s \in sessions : s.from \in Clients /\ s.port \in Ports
    BY TypeOKIs
  <1>1. ASSUME sessions' = sessions,
               \A s \in sessions : client'[s.from] = client[s.from]
                                   /\ peer'[s.from] = peer[s.from]
        PROVE  SessionsMatch'
    BY <1>1 DEF SessionsMatch
  <1>2. CASE UNCHANGED vars
    BY <1>1, <1>2 DEF vars
  <1>3. ASSUME NEW c \in Clients, ClientMoves(c)
        PROVE  SessionsMatch'
    <2>1. sessions' = sessions
      BY <1>3, ClientLeaves DEF serverVars
    <2>2. \A s \in sessions : s.from # c
      BY <1>3, ClientLeaves DEF SessionsMatch
    <2>3. \A s \in sessions : client'[s.from] = client[s.from]
                              /\ peer'[s.from] = peer[s.from]
      BY <1>0, <1>3, <2>2, ClientLeaves
    <2> QED
      BY <1>1, <2>1, <2>3
  <1>4. CASE NetworkMoves
    BY <1>1, <1>4, NetworkLeaves DEF clientVars, serverVars
  <1>5. CASE AcceptSyn
    BY <1>1, <1>5 DEF AcceptSyn, clientVars
  <1>6. CASE Serve
    <2>1. PICK t : /\ sessions' = sessions \cup {t}
                   /\ t.port = listener.port /\ t.from = listener.from
      BY <1>6, ServeAdds
    <2>2. client[t.from].at = "connected" /\ peer[t.from] = t.port
      BY <1>6, <2>1, ServeLeaves DEF AcksMatch
    <2>3. \A s \in sessions : s.port # t.port
      BY <1>6, <2>1, ServeLeaves DEF PortsFresh
    <2>4. \A s \in sessions : s.from # t.from
      BY <2>2, <2>3 DEF SessionsMatch
    <2>5. client' = client /\ peer' = peer
      BY <1>6, ServeLeaves
    <2> QED
      BY <2>1, <2>2, <2>3, <2>4, <2>5 DEF SessionsMatch
  <1>7. CASE Rests
    BY <1>1, <1>7, RestLeaves
  <1> QED
    BY <1>2, <1>3, <1>4, <1>5, <1>6, <1>7, NextCases

-----------------------------------------------------------------------------
(* The queue of the listening socket.                                      *)

LEMMA TailKeeps ==
    ASSUME listenq \in Seq(PacketT), listenq # <<>>, listenq' = Tail(listenq), NEW c
    PROVE  /\ Unqueued(c) => Unqueued(c)'
           /\ SynQueued(c) /\ Head(listenq) # [flag |-> "SYN", from |-> c] =>
                 SynQueued(c)'
           /\ SynQueued(c) /\ Head(listenq).from = c =>
                 Head(listenq).flag = "SYN" /\ Unqueued(c)'
  <1>1. /\ Len(listenq) \in Nat /\ Len(listenq) >= 1 /\ Head(listenq) = listenq[1]
        /\ listenq' \in Seq(PacketT) /\ Len(listenq') = Len(listenq) - 1
        /\ \A i \in 1..Len(listenq') : /\ listenq'[i] = listenq[i + 1]
                                       /\ i + 1 \in 1..Len(listenq)
    OBVIOUS
  <1>2. ToSet(listenq') \subseteq ToSet(listenq)
        /\ ToSet(listenq') = {listenq'[i] : i \in 1..Len(listenq')}
    <2>1. ToSet(listenq') \subseteq ToSet(listenq)
      BY InSeq
    <2>2. ToSet(listenq') = {listenq'[i] : i \in 1..Len(listenq')}
      <3>1. Tail(listenq) \in Seq(PacketT)
        BY <1>1
      <3>2. ToSet(Tail(listenq)) = {Tail(listenq)[i] : i \in 1..Len(Tail(listenq))}
        BY <3>1, ToSetIs
      <3> QED
        BY <3>2
    <2> QED
      BY <2>1, <2>2
  <1>3. Unqueued(c) => Unqueued(c)'
    BY <1>2 DEF Unqueued
  <1>4. ASSUME SynQueued(c), Head(listenq) # [flag |-> "SYN", from |-> c]
        PROVE  SynQueued(c)'
    <2>1. PICK i \in 1..Len(listenq) :
              /\ listenq[i] = [flag |-> "SYN", from |-> c]
              /\ \A j \in 1..Len(listenq) : j # i => listenq[j].from # c
      BY <1>4 DEF SynQueued
    <2>2. i # 1
      BY <1>1, <1>4, <2>1
    <2>3. i - 1 \in 1..Len(listenq') /\ (i - 1) + 1 = i
      BY <1>1, <2>1, <2>2
    <2>4. listenq'[i - 1] = [flag |-> "SYN", from |-> c]
      BY <1>1, <2>1, <2>3
    <2>5. \A j \in 1..Len(listenq') : j # i - 1 => listenq'[j].from # c
      <3> SUFFICES ASSUME NEW j \in 1..Len(listenq'), j # i - 1
                   PROVE  listenq'[j].from # c
        OBVIOUS
      <3>1. j + 1 # i /\ j + 1 \in 1..Len(listenq) /\ listenq'[j] = listenq[j + 1]
        BY <1>1, <2>1
      <3> QED
        BY <2>1, <3>1
    <2> QED
      BY <2>3, <2>4, <2>5 DEF SynQueued
  <1>5. ASSUME SynQueued(c), Head(listenq).from = c
        PROVE  Head(listenq).flag = "SYN" /\ Unqueued(c)'
    <2>1. PICK i \in 1..Len(listenq) :
              /\ listenq[i] = [flag |-> "SYN", from |-> c]
              /\ \A j \in 1..Len(listenq) : j # i => listenq[j].from # c
      BY <1>5 DEF SynQueued
    <2>2. i = 1
      BY <1>1, <1>5, <2>1
    <2>3. \A j \in 1..Len(listenq') : listenq'[j].from # c
      <3> SUFFICES ASSUME NEW j \in 1..Len(listenq') PROVE listenq'[j].from # c
        OBVIOUS
      <3>1. j + 1 # 1 /\ j + 1 \in 1..Len(listenq) /\ listenq'[j] = listenq[j + 1]
        BY <1>1
      <3> QED
        BY <2>1, <2>2, <3>1
    <2> QED
      BY <1>1, <1>2, <2>1, <2>2, <2>3 DEF Unqueued
  <1> QED
    BY <1>3, <1>4, <1>5

LEMMA AppendKeeps ==
    ASSUME listenq \in Seq(PacketT), NEW d \in PacketT,
           listenq' = Append(listenq, d), NEW c
    PROVE  /\ d.from # c /\ Unqueued(c) => Unqueued(c)'
           /\ d.from # c /\ SynQueued(c) => SynQueued(c)'
           /\ d = [flag |-> "SYN", from |-> c] /\ Unqueued(c) => SynQueued(c)'
  <1>1. /\ Len(listenq) \in Nat /\ Len(listenq') = Len(listenq) + 1
        /\ \A i \in 1..Len(listenq) : /\ listenq'[i] = listenq[i]
                                      /\ i \in 1..Len(listenq')
        /\ listenq'[Len(listenq) + 1] = d
    OBVIOUS
  <1>2. \A j \in 1..Len(listenq') : j \in 1..Len(listenq) \/ j = Len(listenq) + 1
    BY <1>1
  <1>3. ToSet(listenq') = ToSet(listenq) \cup {d}
        /\ ToSet(listenq) = {listenq[i] : i \in 1..Len(listenq)}
    BY InSeq, ToSetIs
  <1>4. d.from # c /\ Unqueued(c) => Unqueued(c)'
    BY <1>3 DEF Unqueued
  <1>5. ASSUME d.from # c, SynQueued(c) PROVE SynQueued(c)'
    <2>1. PICK i \in 1..Len(listenq) :
              /\ listenq[i] = [flag |-> "SYN", from |-> c]
              /\ \A j \in 1..Len(listenq) : j # i => listenq[j].from # c
      BY <1>5 DEF SynQueued
    <2>2. \A j \in 1..Len(listenq') : j # i => listenq'[j].from # c
      BY <1>1, <1>2, <1>5, <2>1
    <2>3. i \in 1..Len(listenq') /\ listenq'[i] = [flag |-> "SYN", from |-> c]
      BY <1>1, <2>1
    <2> QED
      BY <2>2, <2>3 DEF SynQueued
  <1>6. ASSUME d = [flag |-> "SYN", from |-> c], Unqueued(c) PROVE SynQueued(c)'
    <2>1. Len(listenq) + 1 \in 1..Len(listenq')
      BY <1>1
    <2>2. \A j \in 1..Len(listenq) : listenq[j].from # c
      BY <1>3, <1>6 DEF Unqueued
    <2>3. \A j \in 1..Len(listenq') : j # Len(listenq) + 1 => listenq'[j].from # c
      BY <1>1, <1>2, <2>2
    <2> QED
      BY <1>1, <1>6, <2>1, <2>3 DEF SynQueued
  <1> QED
    BY <1>4, <1>5, <1>6

LEMMA SynIsQueued ==
    ASSUME listenq \in Seq(PacketT), NEW c, SynQueued(c)
    PROVE  ~Unqueued(c) /\ \E d \in ToSet(listenq) : d.from = c
  <1>1. PICK i \in 1..Len(listenq) : listenq[i] = [flag |-> "SYN", from |-> c]
    BY DEF SynQueued
  <1>2. listenq[i] \in ToSet(listenq) /\ listenq[i].from = c
    BY <1>1, ToSetIs
  <1> QED
    BY <1>2 DEF Unqueued

-----------------------------------------------------------------------------
(* Clients that no fault has touched.                                      *)

\* A step that is not about c.
LEMMA UnharmedSame ==
    ASSUME TypeOK, NEW c \in Clients, Unharmed(c),
           client'[c] = client[c], peer'[c] = peer[c], clientq'[c] = clientq[c],
           listener' = listener, sessions' = sessions,
           Unqueued(c) => Unqueued(c)', SynQueued(c) => SynQueued(c)',
           WaitsFor(c) => portq'[listener.port] = portq[listener.port]
    PROVE  Unharmed(c)'
  <1>1. WaitsFor(c)' <=> WaitsFor(c)
    BY DEF WaitsFor, Waits
  <1>2. Served(c)' <=> Served(c)
    BY DEF Served
  <1>3. client[c].at \in {"idle", "sendto", "wait", "connected", "failed"}
    BY ClientShape
  <1>4. CASE client[c].at \in {"idle", "sendto"}
    BY <1>1, <1>4 DEF Unharmed
  <1>5. CASE client[c].at = "wait"
    BY <1>1, <1>5 DEF Unharmed
  <1>6. CASE client[c].at = "connected"
    BY <1>1, <1>2, <1>6 DEF Unharmed
  <1>7. CASE client[c].at = "failed"
    BY <1>7 DEF Unharmed
  <1> QED
    BY <1>3, <1>4, <1>5, <1>6, <1>7

\* A step of the service that is not about c.
LEMMA UnharmedRests ==
    ASSUME TypeOK, NEW c \in Clients, Unharmed(c),
           client' = client, peer' = peer, clientq'[c] = clientq[c],
           sessions \subseteq sessions', listener # Dead,
           ~WaitsFor(c), ~WaitsFor(c)',
           \/ listener' = Dead /\ listenq' = <<>>
           \/ (Unqueued(c) => Unqueued(c)') /\ (SynQueued(c) => SynQueued(c)')
    PROVE  Unharmed(c)'
  <1>2. Served(c) => Served(c)'
    BY DEF Served
  <1>3. client[c].at \in {"idle", "sendto", "wait", "connected", "failed"}
    BY ClientShape
  <1>4. Unqueued(c) => Unqueued(c)'
    <2>1. ToSet(<<>>) = {}
      BY DEF ToSet
    <2> QED
      BY <2>1 DEF Unqueued
  <1>5. CASE client[c].at \in {"idle", "sendto"}
    BY <1>4, <1>5 DEF Unharmed
  <1>6. CASE client[c].at = "wait"
    BY <1>6 DEF Unharmed
  <1>7. CASE client[c].at = "connected"
    BY <1>2, <1>4, <1>7 DEF Unharmed
  <1>8. CASE client[c].at = "failed"
    BY <1>8 DEF Unharmed
  <1> QED
    BY <1>3, <1>5, <1>6, <1>7, <1>8

\* What c's own step does to it while it is unharmed.
LEMMA UnharmedOwn ==
    ASSUME TypeOK, PortsFresh, NoLeakedSocket, NEW c \in Clients, Unharmed(c),
           ClientMoves(c), c \notin harmed'
    PROVE  Unharmed(c)'
  <1>0. /\ client \in [Clients -> ClientT] /\ client[c] \in ClientT
        /\ client[c].i \in Nat
        /\ listenq \in Seq(PacketT) /\ listener' = listener /\ sessions' = sessions
    BY TypeOKIs, ClientShape, ClientLeaves DEF serverVars
  <1>1. WaitsFor(c)' <=> WaitsFor(c)
    BY <1>0 DEF WaitsFor, Waits
  <1>2. ~SendSynFails(c) /\ ~SendAckFails(c) /\ ~ConnectInterrupted(c)
    BY DEF SendSynFails, SendAckFails, ConnectInterrupted, Fault, FaultOf
  <1>3. CASE Connect(c)
    <2>1. /\ client[c].at = "idle" /\ listenq' = listenq /\ clientq' = clientq
          /\ client'[c] = [at |-> "sendto", i |-> 0, pkt |-> "SYN"]
      BY <1>0, <1>3 DEF Connect
    <2>2. Unqueued(c) /\ clientq[c] = <<>> /\ ~WaitsFor(c)
      BY <2>1 DEF Unharmed
    <2>3. Unqueued(c)'
      BY <2>1, <2>2 DEF Unqueued
    <2> QED
      BY <1>1, <2>1, <2>2, <2>3 DEF Unharmed
  <1>4. CASE SendSyn(c)
    <2>1. /\ client[c].at = "sendto" /\ clientq' = clientq
          /\ client'[c].at = "wait"
      BY <1>0, <1>4 DEF SendSyn, ClientT
    <2>2. Unqueued(c) /\ clientq[c] = <<>> /\ ~WaitsFor(c) /\ client[c].pkt = "SYN"
      BY <2>1 DEF Unharmed
    <2>3. CASE listener = Dead
      BY <1>0, <2>1, <2>2, <2>3 DEF Unharmed
    <2>4. CASE listener # Dead
      <3>1. listenq' = Append(listenq, [flag |-> "SYN", from |-> c])
        BY <1>4, <2>2, <2>4 DEF SendSyn
      <3>2. [flag |-> "SYN", from |-> c] \in PacketT
        BY DEF PacketT
      <3>3. SynQueued(c)'
        BY <1>0, <2>2, <3>1, <3>2, AppendKeeps
      <3> QED
        BY <1>1, <2>1, <2>2, <3>3 DEF Unharmed
    <2> QED
      BY <2>3, <2>4
  <1>5. CASE SendAck(c)
    <2>1. /\ client[c].at = "wait" /\ clientq[c] # <<>>
          /\ client'[c].at = "connected" /\ peer'[c] = Head(clientq[c])
          /\ clientq'[c] = Tail(clientq[c]) /\ listenq' = listenq
          /\ Head(clientq[c]) \in Ports
          /\ \A k \in Ports :
                 portq'[k] = IF k = Head(clientq[c]) /\ k \in open
                             THEN Append(portq[k], c) ELSE portq[k]
      BY <1>5, AckLeaves
    <2>2. /\ WaitsFor(c) /\ Unqueued(c)
          /\ clientq[c] = <<listener.port>> /\ portq[listener.port] = <<>>
      BY <2>1 DEF Unharmed
    <2>3. Head(clientq[c]) = listener.port /\ Tail(clientq[c]) = <<>>
      BY <2>2
    <2>4. listener.port \in open
      BY <2>2 DEF WaitsFor, NoLeakedSocket
    <2>5. portq'[listener.port] = <<c>>
      <3>1. Append(<<>>, c) = <<c>>
        OBVIOUS
      <3>2. portq'[listener.port] = Append(portq[listener.port], c)
        BY <2>1, <2>3, <2>4
      <3> QED
        BY <2>2, <3>1, <3>2
    <2>6. Unqueued(c)'
      BY <2>1, <2>2 DEF Unqueued
    <2> QED
      BY <1>0, <1>1, <2>1, <2>2, <2>3, <2>5, <2>6 DEF Unharmed
  <1>6. CASE ConnectTimeout(c)
    <2>1. /\ client[c].at = "wait" /\ clientq[c] = <<>> /\ clientq' = clientq
          /\ client'[c].at = "failed"
      BY <1>0, <1>6 DEF ConnectTimeout, ConnectFails, ClientT
    <2>2. ~\E d \in ToSet(listenq) : d.from = c
      BY <1>6 DEF ConnectTimeout, Fault, FaultOf
    <2>3. ~SynQueued(c)
      BY <1>0, <2>2, SynIsQueued
    <2>4. listener = Dead
      BY <2>1, <2>3 DEF Unharmed
    <2> QED
      BY <1>0, <2>1, <2>4 DEF Unharmed
  <1> QED
    BY <1>2, <1>3, <1>4, <1>5, <1>6 DEF ClientMoves

LEMMA UnharmedOther ==
    ASSUME TypeOK, PortsFresh, NEW c \in Clients, Unharmed(c),
           NEW d \in Clients, d # c, ClientMoves(d)
    PROVE  Unharmed(c)'
  <1>0. listenq \in Seq(PacketT)
    BY TypeOKIs
  <1>1. /\ client'[c] = client[c] /\ peer'[c] = peer[c] /\ clientq'[c] = clientq[c]
        /\ listener' = listener /\ sessions' = sessions
    BY ClientLeaves DEF serverVars
  <1>2. (Unqueued(c) => Unqueued(c)') /\ (SynQueued(c) => SynQueued(c)')
    <2>1. \/ listenq' = listenq
          \/ listenq' = Append(listenq, [flag |-> client[d].pkt, from |-> d])
      BY DEF ClientMoves, Connect, SendSyn, SendSynFails, SendAck, SendAckFails,
             ConnectTimeout, ConnectInterrupted
    <2>2. [flag |-> client[d].pkt, from |-> d] \in PacketT
      BY ClientShape DEF PacketT
    <2>3. CASE listenq' = listenq
      BY <2>3 DEF Unqueued, SynQueued
    <2>4. CASE listenq' = Append(listenq, [flag |-> client[d].pkt, from |-> d])
      BY <1>0, <2>2, <2>4, AppendKeeps
    <2> QED
      BY <2>1, <2>3, <2>4
  <1>3. WaitsFor(c) => portq'[listener.port] = portq[listener.port]
    <2> SUFFICES ASSUME WaitsFor(c)
                 PROVE  portq'[listener.port] = portq[listener.port]
      OBVIOUS
    <2>1. listener.port \in Ports /\ listener.port \notin ToSet(clientq[d])
      BY ListenerShape DEF WaitsFor, PortsFresh
    <2>2. CASE SendAck(d)
      BY <2>1, <2>2, AckLeaves
    <2>3. CASE ~SendAck(d)
      BY <2>3, ClientLeaves
    <2> QED
      BY <2>2, <2>3
  <1> QED
    BY <1>1, <1>2, <1>3, UnharmedSame

LEMMA UnharmedNetwork ==
    ASSUME TypeOK, NEW c \in Clients, Unharmed(c), NetworkMoves, c \notin harmed'
    PROVE  Unharmed(c)'
  <1>0. listenq \in Seq(PacketT)
    BY TypeOKIs
  <1>1. /\ client' = client /\ peer' = peer
        /\ listener' = listener /\ sessions' = sessions
    BY NetworkLeaves DEF serverVars, clientVars
  <1>2. ASSUME listenq' = listenq
        PROVE  (Unqueued(c) => Unqueued(c)') /\ (SynQueued(c) => SynQueued(c)')
    BY <1>2 DEF Unqueued, SynQueued
  <1>3. CASE LoseSyn
    <2>1. listenq # <<>> /\ listenq' = Tail(listenq) /\ Head(listenq).from # c
          /\ clientq' = clientq /\ portq' = portq
      BY <1>3 DEF LoseSyn, Fault, FaultOf
    <2>2. Head(listenq) # [flag |-> "SYN", from |-> c]
      BY <2>1
    <2>3. (Unqueued(c) => Unqueued(c)') /\ (SynQueued(c) => SynQueued(c)')
      BY <1>0, <2>1, <2>2, TailKeeps
    <2> QED
      BY <1>1, <2>1, <2>3, UnharmedSame
  <1>4. CASE DuplicateSyn
    <2>1. listenq # <<>> /\ listenq' = Append(listenq, Head(listenq))
          /\ Head(listenq).from # c /\ clientq' = clientq /\ portq' = portq
      BY <1>4 DEF DuplicateSyn, Fault, FaultOf
    <2>2. Head(listenq) \in PacketT
      BY <1>0, <2>1
    <2>3. (Unqueued(c) => Unqueued(c)') /\ (SynQueued(c) => SynQueued(c)')
      BY <1>0, <2>1, <2>2, AppendKeeps
    <2> QED
      BY <1>1, <2>1, <2>3, UnharmedSame
  <1>5. ASSUME NEW d \in Clients, LoseAnswer(d) PROVE Unharmed(c)'
    <2>1. d # c /\ clientq'[c] = clientq[c] /\ listenq' = listenq /\ portq' = portq
      BY <1>5, TypeOKIs DEF LoseAnswer, Fault, FaultOf
    <2> QED
      BY <1>1, <1>2, <2>1, UnharmedSame
  <1>6. ASSUME NEW k \in Ports, LoseAck(k) PROVE Unharmed(c)'
    <2>1. /\ portq[k] # <<>> /\ Head(portq[k]) # c
          /\ clientq' = clientq /\ listenq' = listenq
          /\ \A m \in Ports \ {k} : portq'[m] = portq[m]
      BY <1>6, TypeOKIs DEF LoseAck, Fault, FaultOf
    <2>2. CASE WaitsFor(c) /\ listener.port = k
      <3>1. portq[k] # <<c>>
        BY <2>1
      <3>2. client[c].at = "connected" => Served(c) /\ ~WaitsFor(c)
        BY <2>2, <3>1 DEF Unharmed
      <3>3. client[c].at \in {"idle", "sendto", "wait", "connected", "failed"}
        BY ClientShape
      <3>4. listener # Dead
        BY <2>2, ListenerShape DEF WaitsFor
      <3> QED
        BY <2>1, <2>2, <3>2, <3>3, <3>4 DEF Unharmed
    <2>3. CASE ~(WaitsFor(c) /\ listener.port = k)
      <3>1. WaitsFor(c) => listener.port \in Ports \ {k}
        BY <2>3, ListenerShape DEF WaitsFor
      <3> QED
        BY <1>1, <1>2, <2>1, <3>1, UnharmedSame
    <2> QED
      BY <2>2, <2>3
  <1> QED
    BY <1>3, <1>4, <1>5, <1>6 DEF NetworkMoves

\* The service takes what is c's: its SYN, then its ACK.
LEMMA UnharmedAcceptSyn ==
    ASSUME TypeOK, FewSockets, PortsFresh, NoLeakedSocket,
           NEW c \in Clients, Unharmed(c), AcceptSyn
    PROVE  Unharmed(c)'
  <1>0. /\ listenq \in Seq(PacketT) /\ listenq # <<>> /\ listenq' = Tail(listenq)
        /\ clientq \in [Clients -> Seq(Ports)]
    BY TypeOKIs DEF AcceptSyn, HearsSyn, Hears
  <1>1. /\ client' = client /\ peer' = peer /\ sessions' = sessions
        /\ portq' = portq
    BY DEF AcceptSyn, clientVars
  <1>2. Caller \in Clients /\ ~Waits /\ listener # Dead
        /\ Caller = Head(listenq).from
    <2>1. Dead.at = "dead"
      BY DEF Dead
    <2> QED
      BY <2>1, HearsShape DEF AcceptSyn, HearsSyn, Hears, Caller
  <1>3. /\ Waits' /\ listener'.from = Caller /\ listener'.port = used + 1
        /\ used + 1 \in Ports /\ used' = used + 1
    BY FreshAcceptSyn DEF AcceptSyn
  <1>4. clientq' = [clientq EXCEPT ![Caller] = Append(@, used + 1)]
    BY DEF AcceptSyn, AnswersFrom
  <1>5. CASE c = Caller
    <2>1. ~Unqueued(c)
      <3>1. Head(listenq) \in ToSet(listenq)
        BY <1>0, InSeq
      <3> QED
        BY <1>2, <1>5, <3>1 DEF Unqueued
    <2>2. client[c].at = "wait" /\ SynQueued(c) /\ clientq[c] = <<>>
      <3>1. client[c].at \in {"idle", "sendto", "wait", "connected", "failed"}
        BY ClientShape
      <3> QED
        BY <1>2, <2>1, <3>1 DEF Unharmed, WaitsFor
    <2>3. Unqueued(c)'
      BY <1>0, <1>2, <1>5, <2>2, TailKeeps
    <2>4. clientq'[c] = <<used + 1>>
      <3>1. clientq'[c] = Append(clientq[c], used + 1)
        BY <1>0, <1>4, <1>5
      <3>2. Append(<<>>, used + 1) = <<used + 1>>
        OBVIOUS
      <3> QED
        BY <2>2, <3>1, <3>2
    <2>5. portq'[used + 1] = <<>>
      <3>1. used \in Nat /\ used + 1 > used
        BY QueueShape
      <3> QED
        BY <1>1, <1>3, <3>1 DEF PortsFresh
    <2>6. WaitsFor(c)'
      BY <1>3, <1>5 DEF WaitsFor
    <2> QED
      BY <1>1, <1>3, <2>2, <2>3, <2>4, <2>5, <2>6 DEF Unharmed
  <1>6. CASE c # Caller
    <2>1. clientq'[c] = clientq[c]
      BY <1>0, <1>4, <1>6
    <2>2. ~WaitsFor(c) /\ ~WaitsFor(c)'
      BY <1>2, <1>3, <1>6 DEF WaitsFor
    <2>3. Head(listenq) # [flag |-> "SYN", from |-> c]
      BY <1>2, <1>6
    <2>4. (Unqueued(c) => Unqueued(c)') /\ (SynQueued(c) => SynQueued(c)')
      BY <1>0, <2>3, TailKeeps
    <2> QED
      BY <1>1, <1>2, <2>1, <2>2, <2>4, UnharmedRests
  <1> QED
    BY <1>5, <1>6

LEMMA UnharmedServe ==
    ASSUME TypeOK, AcksMatch, NEW c \in Clients, Unharmed(c), Serve
    PROVE  Unharmed(c)'
  <1>1. /\ client' = client /\ peer' = peer /\ clientq' = clientq
        /\ listenq' = listenq /\ listener # Dead /\ ~Waits' /\ Waits
        /\ listener.from \in ToSet(portq[listener.port])
        /\ listener.port \in Ports
    BY ServeLeaves
  <1>2. PICK t : sessions' = sessions \cup {t} /\ t.from = listener.from
    BY ServeAdds
  <1>3. ~WaitsFor(c)'
    BY <1>1 DEF WaitsFor
  <1>4. (Unqueued(c) => Unqueued(c)') /\ (SynQueued(c) => SynQueued(c)')
    BY <1>1 DEF Unqueued, SynQueued
  <1>5. CASE listener.from = c
    <2>1. client[c].at = "connected"
      BY <1>1, <1>5 DEF AcksMatch
    <2>2. Unqueued(c) /\ clientq[c] = <<>>
      BY <2>1 DEF Unharmed
    <2>3. Served(c)'
      BY <1>2, <1>5 DEF Served
    <2> QED
      BY <1>1, <1>3, <1>4, <2>1, <2>2, <2>3 DEF Unharmed
  <1>6. CASE listener.from # c
    <2>1. ~WaitsFor(c) /\ sessions \subseteq sessions'
      BY <1>2, <1>6 DEF WaitsFor
    <2> QED
      BY <1>1, <1>3, <1>4, <2>1, UnharmedRests
  <1> QED
    BY <1>5, <1>6

\* When the service gives a handshake up, it was a harmed client's; when it
\* exits, nothing of c's is left on its way.
LEMMA UnharmedGivenUp ==
    ASSUME TypeOK, PortsFresh, NoLeakedSocket, NEW c \in Clients, Unharmed(c),
           Rests, c \notin harmed'
    PROVE  Unharmed(c)'
  <1>0. listenq \in Seq(PacketT)
    BY TypeOKIs
  <1>1. /\ client' = client /\ peer' = peer /\ clientq' = clientq
        /\ sessions' = sessions /\ ~Waits' /\ listener # Dead
    BY RestLeaves
  <1>2. ~WaitsFor(c)'
    BY <1>1 DEF WaitsFor
  <1>3. ~WaitsFor(c)
    <2> SUFFICES ASSUME WaitsFor(c) PROVE FALSE
      OBVIOUS
    <2>1. Waits /\ listener.from = c /\ listener.at # "listen"
          /\ listener.port \in Ports
      BY ListenerShape DEF WaitsFor
    <2>2. AckTimeout
      BY <2>1 DEF Rests, AcceptOther, AcceptSynFails, AcceptSocketFails, AcceptIdle,
                  AcceptInterrupted, ForkFails, AckInterrupted, HearsSyn, Hears,
                  Fault, FaultOf
    <2>3. portq[listener.port] = <<>>
          /\ ~(/\ listener.port \in ToSet(clientq[c])
               /\ client[c].at \in {"sendto", "wait"})
      BY <2>1, <2>2 DEF AckTimeout, Fault, FaultOf
    <2>4. client[c].at \in {"idle", "sendto", "wait", "connected", "failed"}
      BY ClientShape
    <2>5. CASE client[c].at \in {"idle", "sendto", "failed"}
      BY <1>1, <2>5 DEF Unharmed
    <2>6. CASE client[c].at = "wait"
      <3>1. clientq[c] = <<listener.port>>
        <4>1. ~SynQueued(c) \/ ~WaitsFor(c) \/ clientq[c] = <<listener.port>>
          BY <1>1, <2>6 DEF Unharmed
        <4> QED
          BY <1>1, <2>6 DEF Unharmed
      <3>2. listener.port \in ToSet(clientq[c])
        <4>1. clientq[c] # <<>> /\ Head(clientq[c]) = listener.port
              /\ clientq[c] \in Seq(Ports)
          BY <3>1, ClientShape
        <4> QED
          BY <4>1, InSeq
      <3> QED
        BY <2>3, <2>6, <3>2
    <2>7. CASE client[c].at = "connected"
      <3>1. portq[listener.port] = <<c>>
        BY <2>7 DEF Unharmed
      <3> QED
        BY <2>3, <3>1
    <2> QED
      BY <2>4, <2>5, <2>6, <2>7
  <1>4. \/ listener' = Dead /\ listenq' = <<>>
        \/ (Unqueued(c) => Unqueued(c)') /\ (SynQueued(c) => SynQueued(c)')
    <2>1. CASE AcceptOther \/ AcceptSynFails
      <3>1. /\ listenq # <<>> /\ AcceptAgain(open, portq, Tail(listenq))
            /\ Head(listenq) # [flag |-> "SYN", from |-> c]
        BY <2>1 DEF AcceptOther, AcceptSynFails, HearsSyn, Hears, Fault, FaultOf,
                    Caller
      <3>2. (listener' = Dead /\ listenq' = <<>>) \/ listenq' = Tail(listenq)
        BY <3>1, AgainLeaves
      <3> QED
        BY <1>0, <3>1, <3>2, TailKeeps
    <2>2. CASE AcceptInterrupted \/ AckInterrupted
      <3>1. (listener' = Dead /\ listenq' = <<>>) \/ listenq' = listenq
        BY <2>2, AgainLeaves DEF AcceptInterrupted, AckInterrupted
      <3> QED
        BY <3>1 DEF Unqueued, SynQueued
    <2>3. CASE AcceptSocketFails \/ AcceptIdle \/ ForkFails \/ AckTimeout
      BY <2>3, ExitLeaves DEF AcceptSocketFails, AcceptIdle, ForkFails, AckTimeout
    <2> QED
      BY <2>1, <2>2, <2>3 DEF Rests
  <1> QED
    BY <1>1, <1>2, <1>3, <1>4, UnharmedRests

LEMMA NextUnharmed ==
    ASSUME TypeOK, FewSockets, PortsFresh, NoLeakedSocket, AcksMatch,
           UnharmedOnTheirWay, [Next]_vars
    PROVE  UnharmedOnTheirWay'
  <1> SUFFICES ASSUME NEW c \in Clients, c \notin harmed' PROVE Unharmed(c)'
    BY DEF UnharmedOnTheirWay
  <1>1. harmed \subseteq harmed'
    <2>1. CASE Serve \/ AcceptSyn
      BY <2>1 DEF Serve, AcceptSyn, NoFault
    <2> QED
      BY <2>1, NextCases, ClientLeaves, NetworkLeaves, RestLeaves DEF vars
  <1>2. Unharmed(c)
    BY <1>1 DEF UnharmedOnTheirWay
  <1>3. CASE UNCHANGED vars
    BY <1>2, <1>3
       DEF vars, Unharmed, Unqueued, SynQueued, WaitsFor, Waits, Served
  <1>4. ASSUME NEW d \in Clients, ClientMoves(d) PROVE Unharmed(c)'
    BY <1>2, <1>4, UnharmedOwn, UnharmedOther
  <1> QED
    BY <1>2, <1>3, <1>4, NextCases, UnharmedNetwork, UnharmedAcceptSyn,
       UnharmedServe, UnharmedGivenUp

-----------------------------------------------------------------------------
(* The theorems.                                                           *)

LEMMA InitIInv == Init => IInv
  <1> SUFFICES ASSUME Init PROVE IInv
    OBVIOUS
  <1>1. /\ \A c \in Clients : client[c].at = "idle" /\ client[c].i = 0
                              /\ client[c].pkt = "SYN" /\ clientq[c] = <<>>
        /\ \A k \in Ports : portq[k] = <<>>
        /\ listenq = <<>> /\ open = {} /\ sessions = {} /\ used = 0
        /\ listener.at = "listen"
    BY DEF Init, Listening
  <1>2. ToSet(<<>>) = {}
    BY DEF ToSet
  <1>3. ~Waits
    BY <1>1 DEF Waits
  <1>4. PortsFresh /\ AcksMatch
    BY <1>1, <1>2, <1>3 DEF PortsFresh, AcksMatch
  <1>5. ControlsSet /\ NoLeakedSocket /\ SessionsMatch
    BY <1>1, <1>3 DEF ControlsSet, NoLeakedSocket, SessionsMatch
  <1>6. UnharmedOnTheirWay
    BY <1>1, <1>2, <1>3 DEF UnharmedOnTheirWay, Unharmed, Unqueued, WaitsFor
  <1> QED
    BY <1>4, <1>5, <1>6, InitFew DEF IInv

LEMMA NextIInv ==
    ASSUME TypeOK, TypeOK', IInv, [Next]_vars
    PROVE  IInv'
  BY NextFew, NextSockets, NextAcks, NextControls, NextSessions, NextUnharmed
     DEF IInv

\* The invariant that carries the properties: whatever the faults, new sockets
\* are nobody's, and an unharmed client is where it should be.
THEOREM IInvAlways == Spec => [](TypeOK /\ IInv)
  <1>1. Init => TypeOK /\ IInv
    BY InitTypes, InitIInv
  <1>2. TypeOK /\ IInv /\ [Next]_vars => (TypeOK /\ IInv)'
    <2> SUFFICES ASSUME TypeOK, IInv, [Next]_vars PROVE TypeOK' /\ IInv'
      OBVIOUS
    <2>1. TypeOK'
      BY NextTypes DEF IInv
    <2> QED
      BY <2>1, NextIInv
  <1> QED
    BY <1>1, <1>2, PTL DEF Spec

\* However many clients call and however their SYNs and answers are repeated,
\* each child of the service serves the client connected to its socket.
THEOREM ChildrenMatch == Spec => []SessionsMatch
  <1>1. IInv => SessionsMatch
    BY DEF IInv
  <1> QED
    BY <1>1, IInvAlways, PTL

\* The two ends of every session start from the same sequence numbers.
THEOREM EndsAgree == Spec => []EstablishedAgree
  <1>1. TypeOK /\ IInv => EstablishedAgree
    <2> SUFFICES ASSUME TypeOK, IInv, NEW s \in sessions
                 PROVE  /\ s.ctl.ack = control[s.from].seq
                        /\ s.ctl.seq = control[s.from].ack
      BY DEF EstablishedAgree
    <2>1. s.from \in Clients /\ client[s.from].at = "connected"
      BY TypeOKIs DEF IInv, SessionsMatch
    <2>2. s.ctl = Both /\ control[s.from] = Both
      BY <2>1 DEF IInv, ControlsSet
    <2> QED
      BY <2>2 DEF Both
  <1> QED
    BY <1>1, IInvAlways, PTL

\* rudp_accept leaves no socket open on any of its ways out.
THEOREM SocketsAccounted == Spec => []NoLeakedSocket
  <1>1. IInv => NoLeakedSocket
    BY DEF IInv
  <1> QED
    BY <1>1, IInvAlways, PTL

\* A client that no fault touched and that rudp_connect has returned to is
\* served, or its ACK is at the socket where the service waits for it.
THEOREM UnharmedServed == Spec => []UnharmedIsServed
  <1>1. TypeOK /\ IInv => UnharmedIsServed
    <2> SUFFICES ASSUME TypeOK, IInv, NEW c \in Clients \ harmed,
                        client[c].at = "connected", ~Served(c)
                 PROVE  Waits /\ listener.from = c /\ listener.port = peer[c]
                        /\ ServesWhen(listener.port)
      BY DEF UnharmedIsServed
    <2>1. Unharmed(c)
      BY DEF IInv, UnharmedOnTheirWay
    <2>2. WaitsFor(c) /\ listener.port = peer[c] /\ portq[peer[c]] = <<c>>
      BY <2>1 DEF Unharmed
    <2>3. <<c>> # <<>> /\ Head(<<c>>) = c
      OBVIOUS
    <2> QED
      BY <2>2, <2>3 DEF WaitsFor, ServesWhen
  <1> QED
    BY <1>1, IInvAlways, PTL

\* Such a client's rudp_connect fails only when the service is gone.
THEOREM UnharmedFailure == Spec => []UnharmedFailsOnlyAfterExit
  <1>1. IInv => UnharmedFailsOnlyAfterExit
    BY DEF IInv, UnharmedOnTheirWay, Unharmed, UnharmedFailsOnlyAfterExit
  <1> QED
    BY <1>1, IInvAlways, PTL

=============================================================================
