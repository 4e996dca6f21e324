-------------------------- MODULE UdpSessionProofs --------------------------
(* A remote shell over RUDP: type correctness; that only the server takes   *)
(* an error code for a length, never without a cause; that both ends agree  *)
(* on the key stream until something meddles; and that no acknowledgement   *)
(* ends a session unless something else went wrong before.                  *)
EXTENDS UdpSession, SequenceTheorems, TLAPS

-----------------------------------------------------------------------------
(* Processes, places and programs.                                          *)

LEMMA ProcessFacts ==
    /\ "client" \in Processes /\ "server" \in Processes /\ "kid" \in Processes
    /\ Socket("client") = "client" /\ Socket("server") = "server"
    /\ Socket("kid") = "server"
    /\ Peer("client") = "server" /\ Peer("server") = "client"
    /\ Peer("kid") = "client"
    /\ \A q \in Processes : /\ Socket(q) \in Sockets /\ Peer(q) \in Sockets
                            /\ Socket(q) # Peer(q)
                            /\ q = "client" \/ q = "server" \/ q = "kid"
    /\ Sockets = {"client", "server"}
  BY DEF Processes, Socket, Peer, Sockets

LEMMA ThenFacts ==
    /\ Then["client"]["sendKey"] = "recvKey" /\ Then["client"]["sendName"] = "loop"
    /\ Then["client"]["send"] = "loop" /\ Then["client"]["close1"] = "drain"
    /\ Then["client"]["close2"] = "exit"
    /\ Then["server"]["sendKey"] = "recvName" /\ Then["server"]["send"] = "loop"
    /\ Then["server"]["close1"] = "drain" /\ Then["server"]["close2"] = "kill"
    /\ Then["kid"]["close1"] = "drain" /\ Then["kid"]["close0"] = "exit"
  BY DEF Then

LEMMA ProgramFacts ==
    /\ Program["client"] = {"start", "sendKey", "recvKey", "sendName", "loop",
           "recv", "send", "close1", "close2", "drain", "exit", "gone"}
    /\ Program["server"] = {"recvKey", "sendKey", "recvName", "loop", "poll",
           "recv", "send", "close1", "close2", "drain", "kill", "exit", "gone"}
    /\ Program["kid"] = {"none", "login", "shell", "close0", "close1", "drain",
           "exit", "gone"}
  BY DEF Program

LEMMA ProgramPlaces ==
    ASSUME NEW q \in Processes, NEW p \in Program[q]
    PROVE  p \in Places
  BY ProcessFacts, ProgramFacts DEF Places, Sending, Receiving, Resting

\* Where a program goes from its calls.
LEMMA NextPlaces ==
    ASSUME NEW q \in Processes, NEW p \in Program[q], p \in Sending
    PROVE  /\ Then[q][p] \in Program[q]
           /\ AfterFailure(q, p) \in Program[q]
           /\ q = "server" => p \in {"sendKey", "send", "close1", "close2"}
           /\ q = "client" => p \in {"sendKey", "sendName", "send", "close1", "close2"}
           /\ q = "kid" => p \in {"close0", "close1"}
           /\ p = "send" => Then[q][p] = "loop" /\ AfterFailure(q, p) = "loop"
<1>1. CASE q = "client"
  BY <1>1, ProgramFacts, ThenFacts DEF Sending, AfterFailure
<1>2. CASE q = "server"
  BY <1>2, ProgramFacts, ThenFacts DEF Sending, AfterFailure
<1>3. CASE q = "kid"
  BY <1>3, ProgramFacts, ThenFacts DEF Sending, AfterFailure
<1> QED BY <1>1, <1>2, <1>3, ProcessFacts

-----------------------------------------------------------------------------
(* Types of calls, controls and queues.                                     *)

Call == [at : Places, i : 0..(N_ATTEMPT - 1), pkt : Datagram]
NetType == [Sockets -> Seq(Datagram)]
Descriptors == {"socket", "tty", "pty"}
Kinds == {"DATA", "ACK", "FIN", "zero", "signal", "lost", "late", "stopped",
          "write", "broke"}
Taken3 == Processes \X Kinds
Signals == [raised : BOOLEAN, exit : BOOLEAN]

LEMMA SizeType ==
    ASSUME NEW flag
    PROVE  Size(flag) \in Nat /\ Size(flag) >= Hdr /\ Hdr \in Nat /\ Hdr > 0
  BY UdpAssumption DEF Size

LEMMA NoPacketType == NoPacket \in Datagram
  BY DEF NoPacket, Datagram

LEMMA PacketType ==
    ASSUME NEW c \in Control, NEW flag \in {"DATA", "ACK", "FIN"}, NEW body \in Nat
    PROVE  /\ Packet(c, flag, body) \in Datagram
           /\ Packet(c, flag, body).flag = flag
           /\ Packet(c, flag, body).seq = c.seq
           /\ Packet(c, flag, body).ack = c.ack
           /\ Packet(c, flag, body).body = body
  BY DEF Packet, Control, Datagram

LEMMA PlaceType ==
    ASSUME NEW p \in Places
    PROVE  Place(p) \in Call /\ Place(p).at = p
<1>1. 0 \in 0..(N_ATTEMPT - 1)
  BY UdpAssumption
<1> QED BY <1>1, NoPacketType DEF Place, Call

LEMMA TypeParts ==
    TypeOK => /\ call \in [Processes -> Call]
              /\ net \in NetType
              /\ todo \in [Processes -> SUBSET Descriptors]
              /\ mishaps \subseteq Taken3
              /\ ctl \in [Processes -> Control]
              /\ errno \in [Processes -> {"EAGAIN", "other"}]
  BY DEF TypeOK, Call, NetType, Descriptors, Taken3, Kinds

LEMMA GotoFacts ==
    ASSUME TypeOK, NEW q \in Processes, NEW p \in Places, Goto(q, p)
    PROVE  /\ call' \in [Processes -> Call]
           /\ At(q)' = p
           /\ \A r \in Processes : r # q => call'[r] = call[r]
<1>1. Place(p) \in Call /\ Place(p).at = p
  BY PlaceType
<1> QED BY <1>1, TypeParts DEF Goto, At

LEMMA PutFacts ==
    ASSUME NEW n \in NetType, NEW s \in Sockets, NEW d \in Datagram
    PROVE  /\ Put(n, s, d) \in NetType
           /\ Put(n, s, d)[s] \in {n[s], Append(n[s], d)}
           /\ \A t \in Sockets : t # s => Put(n, s, d)[t] = n[t]
<1>1. n[s] \in Seq(Datagram) /\ Append(n[s], d) \in Seq(Datagram)
  BY AppendProperties DEF NetType
<1> QED BY <1>1 DEF Put, NetType

LEMMA ArrivedFacts ==
    ASSUME TypeOK, NEW q \in Processes, net[Socket(q)] # <<>>
    PROVE  /\ Arrived(q) \in Datagram
           /\ Rest(q) \in NetType
           /\ Rest(q)[Socket(q)] = Tail(net[Socket(q)])
           /\ Rest(q)[Peer(q)] = net[Peer(q)]
<1>1. net[Socket(q)] \in Seq(Datagram) /\ net \in NetType
  BY TypeParts, ProcessFacts DEF NetType
<1>2. Head(net[Socket(q)]) \in Datagram /\ Tail(net[Socket(q)]) \in Seq(Datagram)
  BY <1>1, HeadTailProperties
<1> QED BY <1>1, <1>2, ProcessFacts DEF Arrived, Rest, NetType

LEMMA NotedFacts ==
    ASSUME TypeOK, NEW q \in Processes, net[Socket(q)] # <<>>
    PROVE  /\ Noted(q) \in Control
           /\ Noted(q).seq = ctl[q].seq
           /\ Noted(q).ack = IF Arrived(q).seq = ctl[q].ack
                             THEN ctl[q].ack + Size(Arrived(q).flag)
                             ELSE ctl[q].ack
           /\ Packet(Noted(q), "ACK", 0) \in Datagram
<1>1. ctl[q] \in Control /\ Size(Arrived(q).flag) \in Nat
  BY TypeParts, SizeType
<1>2. ctl[q].ack \in Nat /\ ctl[q].seq \in Nat
  BY <1>1 DEF Control
<1>3. Noted(q) = [ctl[q] EXCEPT !.ack = IF Arrived(q).seq = ctl[q].ack
                                        THEN ctl[q].ack + Size(Arrived(q).flag)
                                        ELSE ctl[q].ack]
  BY DEF Noted
<1>4. Noted(q) \in Control /\ Noted(q).seq = ctl[q].seq
  BY <1>1, <1>2, <1>3 DEF Control
<1>5. Noted(q).ack = IF Arrived(q).seq = ctl[q].ack
                     THEN ctl[q].ack + Size(Arrived(q).flag)
                     ELSE ctl[q].ack
  BY <1>1, <1>3 DEF Control
<1> QED BY <1>4, <1>5, PacketType

LEMMA AckedFacts ==
    ASSUME TypeOK, NEW q \in Processes, net[Socket(q)] # <<>>
    PROVE  /\ Acked(q) \in NetType
           /\ Acked(q)[Socket(q)] = Tail(net[Socket(q)])
           /\ Acked(q)[Peer(q)] \in {net[Peer(q)],
                 Append(net[Peer(q)], Packet(Noted(q), "ACK", 0))}
<1> DEFINE d == Packet(Noted(q), "ACK", 0)
<1>1. Rest(q) \in NetType /\ d \in Datagram
  BY ArrivedFacts, NotedFacts
<1>2. Peer(q) \in Sockets /\ Socket(q) \in Sockets /\ Socket(q) # Peer(q)
  BY ProcessFacts
<1>3. /\ Put(Rest(q), Peer(q), d) \in NetType
      /\ Put(Rest(q), Peer(q), d)[Peer(q)]
            \in {Rest(q)[Peer(q)], Append(Rest(q)[Peer(q)], d)}
      /\ Put(Rest(q), Peer(q), d)[Socket(q)] = Rest(q)[Socket(q)]
  BY <1>1, <1>2, PutFacts
<1>4. /\ Rest(q)[Socket(q)] = Tail(net[Socket(q)])
      /\ Rest(q)[Peer(q)] = net[Peer(q)]
  BY ArrivedFacts
<1> QED BY <1>3, <1>4 DEF Acked

\* What a process begins to send, from a control c and a network n.
CanSend(q, c, n, p, flag, body) ==
    /\ q \in Processes /\ c \in Control /\ n \in NetType
    /\ p \in Program[q] /\ p \in Sending
    /\ flag \in {"DATA", "FIN"} /\ body \in Nat

Begun(q, c, n, p, flag, body) ==
    /\ call' \in [Processes -> Call]
    /\ At(q)' \in {p, AfterFailure(q, p)}
    /\ At(q)' = p \/ errno'[q] = "EAGAIN"
    /\ errno'[q] = "EAGAIN" => call'[q] = Place(AfterFailure(q, p))
    /\ errno'[q] # "EAGAIN" =>
           call'[q] = [at |-> p, i |-> 0, pkt |-> Packet(c, flag, body)]
    /\ \A r \in Processes : r # q => call'[r] = call[r]
    /\ ctl' \in [Processes -> Control]
    /\ ctl'[q].seq = c.seq + Size(flag) /\ ctl'[q].ack = c.ack
    /\ \A r \in Processes : r # q => ctl'[r] = ctl[r]
    /\ net' \in NetType
    /\ net' = Put(n, Peer(q), Packet(c, flag, body))

LEMMA SendsBegun ==
    ASSUME TypeOK, NEW q, NEW c, NEW n, NEW p, NEW flag, NEW body,
           CanSend(q, c, n, p, flag, body), Sends(q, c, n, p, flag, body)
    PROVE  Begun(q, c, n, p, flag, body)
<1> USE DEF CanSend
<1> DEFINE d == Packet(c, flag, body)
<1>1. d \in Datagram
  BY PacketType
<1>2. net' \in NetType /\ net' = Put(n, Peer(q), d)
  BY <1>1, PutFacts, ProcessFacts DEF Sends
<1>3. ctl' = [ctl EXCEPT ![q] = [c EXCEPT !.seq = @ + Size(flag)]]
  BY DEF Sends
<1>4. /\ [c EXCEPT !.seq = @ + Size(flag)] \in Control
      /\ [c EXCEPT !.seq = @ + Size(flag)].seq = c.seq + Size(flag)
      /\ [c EXCEPT !.seq = @ + Size(flag)].ack = c.ack
  BY SizeType DEF Control
<1>5. ctl' \in [Processes -> Control] /\ ctl'[q].seq = c.seq + Size(flag)
      /\ ctl'[q].ack = c.ack
  BY <1>3, <1>4, TypeParts
<1>6. \A r \in Processes : r # q => ctl'[r] = ctl[r]
  BY <1>3, TypeParts
<1>7. /\ call' \in [Processes -> Call]
      /\ At(q)' \in {p, AfterFailure(q, p)}
      /\ At(q)' = p \/ errno'[q] = "EAGAIN"
      /\ errno'[q] = "EAGAIN" => call'[q] = Place(AfterFailure(q, p))
      /\ errno'[q] # "EAGAIN" => call'[q] = [at |-> p, i |-> 0, pkt |-> d]
      /\ \A r \in Processes : r # q => call'[r] = call[r]
  <2>0. p \in Places /\ AfterFailure(q, p) \in Places
    BY NextPlaces, ProgramPlaces
  <2>1. CASE errno'[q] = "EAGAIN"
    <3>1. Goto(q, AfterFailure(q, p))
      BY <2>1 DEF Sends
    <3> QED BY <2>0, <2>1, <3>1, GotoFacts, TypeParts DEF Goto
  <2>2. CASE errno'[q] # "EAGAIN"
    <3>1. call' = [call EXCEPT ![q] = [at |-> p, i |-> 0, pkt |-> d]]
      BY <2>2 DEF Sends
    <3>2. [at |-> p, i |-> 0, pkt |-> d] \in Call
      BY <1>1, <2>0, UdpAssumption DEF Call
    <3> QED BY <2>2, <3>1, <3>2, TypeParts DEF At
  <2> QED BY <2>1, <2>2
<1> QED BY <1>2, <1>5, <1>6, <1>7 DEF Begun

LEMMA SendsFacts ==
    ASSUME TypeOK, NEW q, NEW c, NEW n, NEW p, NEW flag, NEW body,
           CanSend(q, c, n, p, flag, body), Sends(q, c, n, p, flag, body)
    PROVE  /\ call' \in [Processes -> Call]
           /\ At(q)' \in {p, AfterFailure(q, p)}
           /\ \A r \in Processes : r # q => call'[r] = call[r]
           /\ ctl' \in [Processes -> Control]
           /\ \A r \in Processes : r # q => ctl'[r] = ctl[r]
           /\ net' \in NetType
  BY SendsBegun DEF Begun

\* A try more, or the call's failure.
LEMMA RetryFacts ==
    ASSUME TypeOK, NEW q \in Processes, At(q) \in Program[q], InSend(q),
           NEW n \in NetType, Retry(q, n)
    PROVE  /\ call' \in [Processes -> Call]
           /\ \A r \in Processes : r # q => call'[r] = call[r]
           /\ net' \in NetType
           /\ \/ /\ At(q)' = At(q) /\ call'[q].pkt = call[q].pkt
                 /\ net' = Put(n, Peer(q), call[q].pkt)
              \/ /\ call'[q] = Place(AfterFailure(q, At(q))) /\ net' = n
                 /\ At(q)' = AfterFailure(q, At(q))
<1>1. call[q] \in Call
  BY TypeParts
<1>2. CASE call[q].i + 1 < N_ATTEMPT
  <2>1. call' = [call EXCEPT ![q].i = @ + 1] /\ net' = Put(n, Peer(q), call[q].pkt)
    BY <1>2 DEF Retry
  <2>2. call' = [call EXCEPT ![q] = [call[q] EXCEPT !.i = call[q].i + 1]]
    BY <2>1
  <2>3. call[q].i + 1 \in 0..(N_ATTEMPT - 1)
    BY <1>1, <1>2, UdpAssumption DEF Call
  <2>4. /\ [call[q] EXCEPT !.i = call[q].i + 1] \in Call
        /\ [call[q] EXCEPT !.i = call[q].i + 1].at = call[q].at
        /\ [call[q] EXCEPT !.i = call[q].i + 1].pkt = call[q].pkt
    BY <1>1, <2>3 DEF Call
  <2>5. /\ call' \in [Processes -> Call] /\ At(q)' = At(q)
        /\ call'[q].pkt = call[q].pkt
        /\ \A r \in Processes : r # q => call'[r] = call[r]
    BY <2>2, <2>4, TypeParts DEF At
  <2>6. net' \in NetType
    BY <1>1, <2>1, PutFacts, ProcessFacts DEF Call
  <2> QED BY <2>1, <2>5, <2>6
<1>3. CASE ~(call[q].i + 1 < N_ATTEMPT)
  <2>1. Goto(q, AfterFailure(q, At(q))) /\ net' = n
    BY <1>3 DEF Retry, Fail
  <2>2. AfterFailure(q, At(q)) \in Places
    BY NextPlaces, ProgramPlaces DEF InSend
  <2>3. call'[q] = Place(AfterFailure(q, At(q)))
    BY <2>1, TypeParts DEF Goto
  <2> QED BY <2>1, <2>2, <2>3, GotoFacts
<1> QED BY <1>2, <1>3

-----------------------------------------------------------------------------
(* Types and places.                                                        *)

RudpType ==
    /\ call \in [Processes -> Call]
    /\ ctl \in [Processes -> Control]
    /\ net \in NetType
    /\ errno \in [Processes -> {"EAGAIN", "other"}]

TodoType == todo \in [Processes -> SUBSET Descriptors] /\ chld \in Signals

PtyType == tty \in Seq({"key", "ctrl-D"}) /\ typed \in Nat /\ out \in Nat /\ made \in Nat

CipherType == pos \in [{"client", "server"} -> Nat] /\ garbled \in BOOLEAN

PastType == crashed \subseteq Processes /\ mishaps \subseteq Taken3 /\ faults \in Nat

LEMMA TypeSplit ==
    /\ TypeOK <=> RudpType /\ TodoType /\ PtyType /\ CipherType /\ PastType
    /\ TypeOK' <=> RudpType' /\ TodoType' /\ PtyType' /\ CipherType' /\ PastType'
<1>1. TypeOK <=> RudpType /\ TodoType /\ PtyType /\ CipherType /\ PastType
  BY DEF TypeOK, RudpType, TodoType, PtyType, CipherType, PastType, Call,
         NetType, Descriptors, Taken3, Kinds, Signals
<1>2. TypeOK' <=> RudpType' /\ TodoType' /\ PtyType' /\ CipherType' /\ PastType'
  BY DEF TypeOK, RudpType, TodoType, PtyType, CipherType, PastType, Call,
         NetType, Descriptors, Taken3, Kinds, Signals
<1> QED BY <1>1, <1>2

LEMMA SameParts ==
    ASSUME TypeOK
    PROVE  /\ UNCHANGED <<todo, chld>> => TodoType'
           /\ UNCHANGED pty => PtyType'
           /\ UNCHANGED cipher => CipherType'
           /\ UNCHANGED past => PastType'
  BY TypeSplit DEF TodoType, PtyType, CipherType, PastType, pty, cipher, past

Typed == TypeOK /\ InProgram

LEMMA TypedParts == Typed => TypeOK /\ InProgram
  BY DEF Typed

\* Only q is somewhere else, and serves something else, afterwards.
OnlyMoves(q) ==
    \A r \in Processes : r # q => call'[r] = call[r] /\ todo'[r] = todo[r]

LEMMA ProgramFrom ==
    ASSUME TypeOK, InProgram, NEW q \in Processes, OnlyMoves(q),
           At(q)' \in Program[q],
           q = "kid" => todo'[q] = {},
           q = "client" /\ "socket" \in todo'[q] => At(q)' = "loop",
           q = "server" /\ todo'[q] # {} => At(q)' \in {"loop", "send"},
           q = "server" => todo'[q] \subseteq {"socket", "pty"}
    PROVE  InProgram'
<1>1. \A r \in Processes : r # q => At(r)' = At(r) /\ todo'[r] = todo[r]
  BY DEF OnlyMoves, At
<1>2. \A r \in Processes : At(r)' \in Program[r]
  BY <1>1 DEF InProgram
<1> QED BY <1>1, <1>2, ProcessFacts DEF InProgram

\* A step of q that serves nothing: it leaves its loop only if all is served,
\* or comes back to it.
LEMMA ProgramSame ==
    ASSUME TypeOK, InProgram, NEW q \in Processes, UNCHANGED todo,
           \A r \in Processes : r # q => call'[r] = call[r],
           At(q)' \in Program[q],
           \/ At(q)' \in {"loop", At(q)}
           \/ At(q) \notin {"loop", "send"}
           \/ q = "server" /\ todo[q] = {}
           \/ q = "client" /\ At(q) # "loop"
           \/ q = "kid"
    PROVE  InProgram'
<1>1. OnlyMoves(q)
  BY DEF OnlyMoves
<1> QED BY <1>1, ProgramFrom DEF InProgram

LEMMA MishapType ==
    ASSUME TypeOK, NEW q \in Processes,
           NEW what \in Kinds,
           Mishap(q, what)
    PROVE  mishaps' \subseteq Taken3
  BY TypeSplit DEF Mishap, Taken3, PastType

LEMMA FaultType ==
    ASSUME TypeOK, NEW q \in Processes, NEW what \in Kinds, Fault(q, what)
    PROVE  mishaps' \subseteq Taken3 /\ faults' \in Nat
<1>1. faults \in Nat
  BY DEF TypeOK
<1> QED BY <1>1, MishapType DEF Fault

LEMMA ExpiresType ==
    ASSUME TypeOK, NEW q \in Processes, Expires(q)
    PROVE  mishaps' \subseteq Taken3 /\ faults' \in Nat
<1>1. CASE Quiet /\ UNCHANGED <<mishaps, faults>>
  BY <1>1, TypeSplit DEF PastType
<1>2. CASE Fault(q, "late")
  BY <1>2, FaultType DEF Kinds
<1> QED BY <1>1, <1>2 DEF Expires

\* The handler runs.
LEMMA HandlesFacts ==
    ASSUME Handles
    PROVE  /\ chld.raised /\ ~Gone("server")
           /\ chld' = [raised |-> FALSE, exit |-> TRUE]
           /\ chld' \in Signals /\ ~chld'.raised /\ chld'.exit
  BY DEF Handles, Signals

LEMMA RaisesFacts ==
    ASSUME TypeOK, Raises
    PROVE  /\ chld' \in Signals /\ chld'.exit = chld.exit
           /\ chld'.raised = (chld.raised \/ ~Gone("server"))
<1>1. chld \in Signals
  BY TypeSplit DEF TodoType
<1>2. chld' = [chld EXCEPT !.raised = chld.raised \/ ~Gone("server")]
  BY DEF Raises
<1>3. (chld.raised \/ ~Gone("server")) \in BOOLEAN
  OBVIOUS
<1> QED BY <1>1, <1>2, <1>3 DEF Signals

LEMMA DecryptType ==
    ASSUME TypeOK, NEW q \in Processes, NEW body \in Nat, Decrypt(q, body)
    PROVE  CipherType'
<1>1. pos \in [{"client", "server"} -> Nat] /\ garbled \in BOOLEAN
  BY DEF TypeOK
<1>2. pos' \in [{"client", "server"} -> Nat]
  <2>1. pos' = [pos EXCEPT ![q] = @ + 1]
    BY DEF Decrypt
  <2>2. CASE q = "kid"
    BY <1>1, <2>1, <2>2
  <2>3. CASE q # "kid"
    BY <1>1, <2>1, <2>3, ProcessFacts
  <2> QED BY <2>2, <2>3
<1>3. garbled' \in BOOLEAN
  BY <1>1, Zenon DEF Decrypt
<1> QED BY <1>2, <1>3 DEF CipherType

LEMMA EncryptType ==
    ASSUME TypeOK, NEW q \in {"client", "server"}, Encrypt(q)
    PROVE  CipherType'
  BY DEF TypeOK, Encrypt, CipherType

-----------------------------------------------------------------------------
(* The steps of rudp.c.                                                     *)

LEMMA AnswerTyped ==
    ASSUME Typed, NEW q \in Processes, Answer(q) PROVE Typed'
<1>1. TypeOK /\ InProgram /\ InSend(q) /\ net[Socket(q)] # <<>>
      /\ At(q) \in Program[q]
  BY DEF Typed, Answer, InProgram
<1>2. /\ Then[q][At(q)] \in Program[q] /\ AfterFailure(q, At(q)) \in Program[q]
      /\ Then[q][At(q)] \in Places
  BY <1>1, NextPlaces, ProgramPlaces DEF InSend
<1>3. Arrived(q) \in Datagram /\ Rest(q) \in NetType
  BY <1>1, ArrivedFacts
<1>4. /\ call' \in [Processes -> Call] /\ net' \in NetType
      /\ \A r \in Processes : r # q => call'[r] = call[r]
      /\ At(q)' \in {At(q), Then[q][At(q)], AfterFailure(q, At(q))}
      /\ mishaps' \subseteq Taken3
  <2>1. CASE Answers(q, Arrived(q))
    <3>1. Goto(q, Then[q][At(q)]) /\ net' = Rest(q) /\ UNCHANGED mishaps
      BY <2>1 DEF Answer
    <3> QED BY <1>1, <1>2, <1>3, <3>1, GotoFacts, TypeParts
  <2>2. CASE ~Answers(q, Arrived(q))
    <3>1. Retry(q, Rest(q)) /\ Mishap(q, Arrived(q).flag)
      BY <2>2 DEF Answer
    <3>2. Arrived(q).flag \in Kinds
      BY <1>3 DEF Datagram, Kinds
    <3>3. mishaps' \subseteq Taken3
      BY <1>1, <3>1, <3>2, MishapType
    <3> QED BY <1>1, <1>3, <3>1, <3>3, RetryFacts
  <2> QED BY <2>1, <2>2
<1>5. UNCHANGED <<ctl, errno, todo, chld, pty, cipher, crashed, faults>>
  BY DEF Answer
<1>6. TypeOK'
  <2>1. RudpType'
    BY <1>1, <1>4, <1>5, TypeParts DEF RudpType
  <2>2. PastType'
    BY <1>1, <1>4, <1>5, TypeSplit DEF PastType
  <2> QED BY <1>1, <1>5, <2>1, <2>2, SameParts, TypeSplit
<1>7. InProgram'
  <2>1. At(q)' \in Program[q]
    BY <1>1, <1>2, <1>4
  <2>2. \/ At(q)' \in {"loop", At(q)} \/ At(q) \notin {"loop", "send"}
    <3>1. At(q) = "send" => Then[q][At(q)] = "loop" /\ AfterFailure(q, At(q)) = "loop"
      BY <1>1, NextPlaces DEF InSend
    <3>2. At(q) # "loop"
      BY <1>1 DEF InSend, Sending
    <3> QED BY <1>4, <3>1, <3>2
  <2>3. At(q) # "loop"
    BY <1>1 DEF InSend, Sending
  <2> QED BY <1>1, <1>4, <1>5, <2>1, <2>2, <2>3, ProgramSame
<1> QED BY <1>6, <1>7 DEF Typed

LEMMA FailFacts ==
    ASSUME Typed, NEW q \in Processes, InSend(q), Fail(q)
    PROVE  /\ call' \in [Processes -> Call]
           /\ \A r \in Processes : r # q => call'[r] = call[r]
           /\ At(q)' = AfterFailure(q, At(q)) /\ At(q)' \in Program[q]
           /\ At(q) = "send" => At(q)' = "loop"
<1>1. At(q) \in Program[q] /\ At(q) \in Sending
  BY DEF Typed, InProgram, InSend
<1>2. /\ AfterFailure(q, At(q)) \in Program[q]
      /\ AfterFailure(q, At(q)) \in Places
      /\ At(q) = "send" => AfterFailure(q, At(q)) = "loop"
  BY <1>1, NextPlaces, ProgramPlaces
<1> QED BY <1>2, GotoFacts DEF Fail, Typed

LEMMA SendTimeoutTyped ==
    ASSUME Typed, NEW q \in Processes, SendTimeout(q) PROVE Typed'
<1>1. TypeOK /\ InProgram /\ InSend(q) /\ Fail(q)
  BY DEF Typed, SendTimeout
<1>2. /\ errno' = [errno EXCEPT ![q] = "EAGAIN"] /\ Expires(q)
      /\ UNCHANGED <<ctl, net, todo, chld, pty, cipher, crashed>>
  BY DEF SendTimeout
<1>3. TypeOK'
  <2>1. RudpType'
    BY <1>1, <1>2, FailFacts, TypeParts DEF RudpType
  <2>2. PastType'
    BY <1>1, <1>2, ExpiresType, TypeSplit DEF PastType
  <2> QED BY <1>1, <1>2, <2>1, <2>2, SameParts, TypeSplit
<1>4. InProgram'
  <2>1. At(q) # "loop"
    BY <1>1 DEF InSend, Sending
  <2> QED BY <1>1, <1>2, <2>1, FailFacts, ProgramSame
<1> QED BY <1>3, <1>4 DEF Typed

LEMMA RecvFailsFacts ==
    ASSUME Typed, NEW q \in Processes, InRecv(q), RecvFails(q)
    PROVE  /\ call' \in [Processes -> Call]
           /\ \A r \in Processes : r # q => call'[r] = call[r]
           /\ At(q)' = "exit" /\ At(q)' \in Program[q]
           /\ crashed' \subseteq Processes
           /\ At(q) \notin {"loop", "send"}
<1>1. "exit" \in Places /\ "exit" \in Program[q] /\ At(q) \notin {"loop", "send"}
  BY ProcessFacts, ProgramFacts DEF Places, Resting, InRecv, Receiving
<1>2. crashed' \subseteq Processes
  BY DEF RecvFails, Typed, TypeOK
<1> QED BY <1>1, <1>2, GotoFacts DEF RecvFails, Typed

LEMMA RecvTimeoutTyped ==
    ASSUME Typed, NEW q \in Processes, RecvTimeout(q) PROVE Typed'
<1>1. TypeOK /\ InProgram /\ InRecv(q) /\ RecvFails(q)
  BY DEF Typed, RecvTimeout
<1>2. /\ errno' = [errno EXCEPT ![q] = "EAGAIN"] /\ Expires(q)
      /\ UNCHANGED <<ctl, net, todo, chld, pty, cipher>>
  BY DEF RecvTimeout
<1>3. TypeOK'
  <2>1. RudpType'
    BY <1>1, <1>2, RecvFailsFacts, TypeParts DEF RudpType
  <2>2. PastType'
    BY <1>1, <1>2, RecvFailsFacts, ExpiresType, TypeSplit DEF PastType
  <2> QED BY <1>1, <1>2, <2>1, <2>2, SameParts, TypeSplit
<1>4. InProgram'
  BY <1>1, <1>2, RecvFailsFacts, ProgramSame
<1> QED BY <1>3, <1>4 DEF Typed

\* rudp_recv returns something to q, which goes on at place.
LEMMA PassesFacts ==
    ASSUME TypeOK, NEW q \in Processes, net[Socket(q)] # <<>>,
           NEW place \in Places, Passes(q, place)
    PROVE  /\ call' \in [Processes -> Call]
           /\ At(q)' = place
           /\ \A r \in Processes : r # q => call'[r] = call[r]
           /\ ctl' \in [Processes -> Control]
           /\ ctl'[q] = Noted(q)
           /\ \A r \in Processes : r # q => ctl'[r] = ctl[r]
           /\ net' \in NetType /\ net' = Acked(q)
<1>1. Noted(q) \in Control /\ Acked(q) \in NetType
  BY NotedFacts, AckedFacts
<1>2. ctl' = [ctl EXCEPT ![q] = Noted(q)] /\ net' = Acked(q) /\ Goto(q, place)
  BY DEF Passes
<1> QED BY <1>1, <1>2, GotoFacts, TypeParts

LEMMA PassesTyped ==
    ASSUME Typed, NEW q \in Processes, net[Socket(q)] # <<>>,
           NEW place \in Program[q], Passes(q, place), InRecv(q),
           UNCHANGED <<errno, todo, chld, pty, past>>, CipherType'
    PROVE  Typed'
<1>1. TypeOK /\ InProgram /\ place \in Places
  BY ProgramPlaces DEF Typed
<1>2. RudpType'
  BY <1>1, PassesFacts, TypeParts DEF RudpType
<1>3. TypeOK'
  BY <1>1, <1>2, SameParts, TypeSplit
<1>4. InProgram'
  <2>1. At(q) \notin {"loop", "send"}
    BY DEF InRecv, Receiving
  <2> QED BY <1>1, <2>1, PassesFacts, ProgramSame
<1> QED BY <1>3, <1>4 DEF Typed

\* A process sends and serves nothing, from a place other than its loop, or
\* after it has served all.
LEMMA SendsTyped ==
    ASSUME Typed, NEW q, NEW c, NEW n, NEW p, NEW flag, NEW body,
           CanSend(q, c, n, p, flag, body), Sends(q, c, n, p, flag, body),
           errno' \in [Processes -> {"EAGAIN", "other"}],
           TodoType', PtyType', CipherType', PastType',
           \A r \in Processes : r # q => todo'[r] = todo[r],
           q = "kid" => todo'[q] = {},
           q = "client" => "socket" \notin todo'[q],
           q = "server" => todo'[q] = {} \/ p = "send",
           q = "server" => todo'[q] \subseteq {"socket", "pty"}
    PROVE  Typed'
<1>1. TypeOK /\ InProgram
  BY DEF Typed
<1>0. /\ call' \in [Processes -> Call]
      /\ At(q)' \in {p, AfterFailure(q, p)}
      /\ \A r \in Processes : r # q => call'[r] = call[r]
      /\ ctl' \in [Processes -> Control]
      /\ net' \in NetType
  BY <1>1, SendsFacts
<1>2. TypeOK'
  <2>1. RudpType'
    BY <1>0 DEF RudpType
  <2> QED BY <2>1, TypeSplit
<1>3. InProgram'
  <2>1. /\ AfterFailure(q, p) \in Program[q]
        /\ p = "send" => AfterFailure(q, p) = "loop"
    BY NextPlaces DEF CanSend
  <2> QED BY <1>0, <1>1, <2>1, ProgramFrom DEF OnlyMoves, CanSend
<1> QED BY <1>2, <1>3 DEF Typed

LEMMA RecvTextTyped ==
    ASSUME Typed, NEW q \in Processes, RecvText(q) PROVE Typed'
<1>1. TypeOK /\ net[Socket(q)] # <<>> /\ At(q) = "recv"
  BY DEF Typed, RecvText, Takes
<1>2. q # "kid" /\ "loop" \in Program[q] /\ InRecv(q)
  BY <1>1, ProcessFacts, ProgramFacts DEF Typed, InProgram, InRecv, Receiving
<1>3. Arrived(q).body \in Nat
  BY <1>1, ArrivedFacts DEF Datagram
<1>4. CipherType'
  BY <1>1, <1>3, DecryptType DEF RecvText
<1> QED BY <1>1, <1>2, <1>4, PassesTyped DEF RecvText

LEMMA RecvEndTyped ==
    ASSUME Typed, NEW q \in Processes, RecvEnd(q) PROVE Typed'
<1>1. TypeOK /\ net[Socket(q)] # <<>> /\ At(q) = "recv" /\ At(q) \in Program[q]
  BY DEF Typed, RecvEnd, Takes, InProgram
<1>2. q # "kid" /\ "close2" \in Program[q] /\ "close2" \in Sending
  BY <1>1, ProcessFacts, ProgramFacts DEF Sending
<1>3. Noted(q) \in Control /\ Acked(q) \in NetType
  BY <1>1, NotedFacts, AckedFacts
<1>4. /\ Sends(q, Noted(q), Acked(q), "close2", "FIN", 0)
      /\ UNCHANGED <<errno, todo, chld, pty, cipher, crashed, faults>>
  BY DEF RecvEnd
<1>5. mishaps' \subseteq Taken3
  BY <1>1, MishapType, TypeSplit DEF RecvEnd, PastType, Kinds
<1>6. PastType'
  BY <1>1, <1>4, <1>5, TypeSplit DEF PastType
<1>7. errno' \in [Processes -> {"EAGAIN", "other"}]
  BY <1>1, <1>4, TypeParts
<1>8. /\ q = "client" => "socket" \notin todo'[q]
      /\ q = "server" => todo'[q] = {}
  BY <1>1, <1>4 DEF Typed, InProgram
<1>9. TodoType' /\ PtyType' /\ CipherType'
  BY <1>1, <1>4, SameParts
<1>10. \A r \in Processes : r # q => todo'[r] = todo[r]
  BY <1>4
<1>11. CanSend(q, Noted(q), Acked(q), "close2", "FIN", 0)
  BY <1>2, <1>3 DEF CanSend
<1> QED BY <1>2, <1>4, <1>6, <1>7, <1>8, <1>9, <1>10, <1>11, SendsTyped

LEMMA DrainTyped ==
    ASSUME Typed, NEW q \in Processes, Drain(q) PROVE Typed'
<1>1. TypeOK /\ net[Socket(q)] # <<>> /\ At(q) = "drain"
  BY DEF Typed, Drain, Takes
<1>2. "exit" \in Program[q] /\ InRecv(q)
  BY <1>1, ProcessFacts, ProgramFacts DEF InRecv, Receiving
<1>3. Passes(q, "exit") /\ UNCHANGED <<errno, todo, chld, pty, cipher, past>>
  BY DEF Drain
<1> QED BY <1>1, <1>2, <1>3, SameParts, PassesTyped

\* A process sends and nothing else happens.
LEMMA SendsOnlyTyped ==
    ASSUME Typed, NEW q, NEW c, NEW n, NEW p, NEW flag, NEW body,
           CanSend(q, c, n, p, flag, body), Sends(q, c, n, p, flag, body),
           UNCHANGED <<errno, todo, chld, pty, past>>, CipherType',
           At(q) \notin {"loop", "send"} \/ todo[q] = {}
    PROVE  Typed'
<1>1. TypeOK /\ InProgram /\ q \in Processes
  BY DEF Typed, CanSend
<1>2. errno' \in [Processes -> {"EAGAIN", "other"}]
  BY <1>1, TypeParts
<1>3. TodoType' /\ PtyType' /\ PastType'
  BY <1>1, SameParts
<1>4. /\ q = "kid" => todo'[q] = {}
      /\ q = "client" => "socket" \notin todo'[q]
      /\ q = "server" => todo'[q] = {}
  BY <1>1 DEF InProgram
<1>5. \A r \in Processes : r # q => todo'[r] = todo[r]
  OBVIOUS
<1> QED BY <1>2, <1>3, <1>4, <1>5, SendsTyped

LEMMA ClientSendKeyTyped ==
    ASSUME Typed, ClientSendKey PROVE Typed'
<1>1. ctl["client"] \in Control /\ net \in NetType
  BY ProcessFacts, TypeParts DEF Typed
<1>2. CanSend("client", ctl["client"], net, "sendKey", "DATA", 0)
  BY <1>1, ProcessFacts, ProgramFacts DEF CanSend, Sending
<1>3. CipherType'
  BY SameParts DEF Typed, ClientSendKey
<1> QED BY <1>2, <1>3, SendsOnlyTyped DEF ClientSendKey

LEMMA ServerRecvKeyTyped ==
    ASSUME Typed, ServerRecvKey PROVE Typed'
<1>1. TypeOK /\ net[Socket("server")] # <<>> /\ At("server") = "recvKey"
      /\ "server" \in Processes
  BY ProcessFacts DEF Typed, ServerRecvKey, Takes
<1>2. Noted("server") \in Control /\ Acked("server") \in NetType
  BY <1>1, NotedFacts, AckedFacts
<1>3. CipherType' /\ UNCHANGED <<errno, todo, chld, pty, past>>
  BY <1>1, SameParts DEF ServerRecvKey
<1>4. CASE Sends("server", Noted("server"), Acked("server"), "sendKey", "DATA", 0)
  <2>1. CanSend("server", Noted("server"), Acked("server"), "sendKey", "DATA", 0)
    BY <1>1, <1>2, ProgramFacts DEF CanSend, Sending
  <2> QED BY <1>1, <1>3, <1>4, <2>1, SendsOnlyTyped
<1>5. CASE Passes("server", "exit")
  <2>1. InRecv("server") /\ "exit" \in Program["server"]
    BY <1>1, ProgramFacts DEF InRecv, Receiving
  <2> QED BY <1>1, <1>3, <1>5, <2>1, PassesTyped
<1> QED BY <1>4, <1>5 DEF ServerRecvKey

LEMMA ClientRecvKeyTyped ==
    ASSUME Typed, ClientRecvKey PROVE Typed'
<1>1. TypeOK /\ net[Socket("client")] # <<>> /\ At("client") = "recvKey"
      /\ "client" \in Processes
  BY ProcessFacts DEF Typed, ClientRecvKey, Takes
<1>2. Noted("client") \in Control /\ Acked("client") \in NetType
  BY <1>1, NotedFacts, AckedFacts
<1>3. UNCHANGED <<errno, todo, chld, pty, past>>
  BY DEF ClientRecvKey
<1>4. CASE Sends("client", Noted("client"), Acked("client"), "sendName", "DATA",
                 pos["client"] + 1) /\ Encrypt("client")
  <2>1. pos["client"] + 1 \in Nat
    BY <1>1 DEF TypeOK
  <2>2. CanSend("client", Noted("client"), Acked("client"), "sendName", "DATA",
                pos["client"] + 1)
    BY <1>1, <1>2, <2>1, ProgramFacts DEF CanSend, Sending
  <2>3. CipherType'
    BY <1>1, <1>4, EncryptType
  <2> QED BY <1>1, <1>3, <1>4, <2>2, <2>3, SendsOnlyTyped
<1>5. CASE Passes("client", "exit") /\ UNCHANGED cipher
  <2>1. InRecv("client") /\ "exit" \in Program["client"]
    BY <1>1, ProgramFacts DEF InRecv, Receiving
  <2>2. CipherType'
    BY <1>1, <1>5, SameParts
  <2> QED BY <1>1, <1>3, <1>5, <2>1, <2>2, PassesTyped
<1> QED BY <1>4, <1>5 DEF ClientRecvKey

\* The server hands its control to the kid.
LEMMA RecvNameFacts ==
    ASSUME TypeOK, RecvName
    PROVE  /\ call' \in [Processes -> Call]
           /\ ctl' \in [Processes -> Control]
           /\ net' \in NetType
           /\ At("server")' = "loop" /\ At("kid")' = "login"
           /\ call'["client"] = call["client"]
           /\ ctl'["server"] = Noted("server") /\ ctl'["kid"] = Noted("server")
           /\ ctl'["client"] = ctl["client"]
<1>1. net[Socket("server")] # <<>> /\ "server" \in Processes
  BY ProcessFacts DEF RecvName, Takes
<1>2. Noted("server") \in Control /\ Acked("server") \in NetType
  BY <1>1, NotedFacts, AckedFacts
<1>3. /\ Place("loop") \in Call /\ Place("loop").at = "loop"
      /\ Place("login") \in Call /\ Place("login").at = "login"
  BY PlaceType DEF Places, Resting
<1>4. /\ net' = Acked("server")
      /\ ctl' = [ctl EXCEPT !["server"] = Noted("server"),
                            !["kid"] = Noted("server")]
      /\ call' = [call EXCEPT !["server"] = Place("loop"),
                              !["kid"] = Place("login")]
  BY DEF RecvName
<1> QED BY <1>2, <1>3, <1>4, ProcessFacts, TypeParts DEF At

LEMMA RecvNameTyped ==
    ASSUME Typed, RecvName PROVE Typed'
<1>1. TypeOK /\ InProgram /\ net[Socket("server")] # <<>> /\ "server" \in Processes
      /\ At("server") = "recvName"
  BY ProcessFacts DEF Typed, RecvName, Takes
<1>2. UNCHANGED <<errno, todo, chld, pty, past>>
  BY DEF RecvName
<1>3. CipherType'
  <2>1. Arrived("server").body \in Nat
    BY <1>1, ArrivedFacts DEF Datagram
  <2>2. CASE Decrypt("server", Arrived("server").body)
    BY <1>1, <2>1, <2>2, DecryptType
  <2>3. CASE UNCHANGED cipher
    BY <1>1, <2>3, SameParts
  <2> QED BY <2>2, <2>3 DEF RecvName
<1>4. TypeOK'
  <2>1. RudpType'
    BY <1>1, <1>2, RecvNameFacts, TypeParts DEF RudpType
  <2> QED BY <1>1, <1>2, <1>3, <2>1, SameParts, TypeSplit
<1>5. InProgram'
  <2>1. At("client")' = At("client") /\ UNCHANGED todo
    BY <1>1, <1>2, RecvNameFacts DEF At
  <2>2. At("server")' = "loop" /\ At("kid")' = "login"
    BY <1>1, RecvNameFacts
  <2> QED BY <1>1, <2>1, <2>2, ProcessFacts, ProgramFacts DEF InProgram
<1> QED BY <1>4, <1>5 DEF Typed

-----------------------------------------------------------------------------
(* The loops.                                                               *)

\* A process only goes on to another place, and looks at its descriptors.
LEMMA MovesTyped ==
    ASSUME Typed, NEW q \in Processes, NEW p \in Program[q], Goto(q, p),
           UNCHANGED <<ctl, net, errno, pty, cipher, past>>, TodoType',
           \A r \in Processes : r # q => todo'[r] = todo[r],
           q = "kid" => todo'[q] = {},
           q = "client" /\ "socket" \in todo'[q] => p = "loop",
           q = "server" /\ todo'[q] # {} => p \in {"loop", "send"},
           q = "server" => todo'[q] \subseteq {"socket", "pty"}
    PROVE  Typed'
<1>1. TypeOK /\ InProgram /\ p \in Places
  BY ProgramPlaces DEF Typed
<1>2. /\ call' \in [Processes -> Call] /\ At(q)' = p
      /\ \A r \in Processes : r # q => call'[r] = call[r]
  BY <1>1, GotoFacts
<1>3. RudpType'
  BY <1>1, <1>2, TypeParts DEF RudpType
<1>4. TypeOK'
  BY <1>1, <1>3, SameParts, TypeSplit
<1>5. InProgram'
  BY <1>1, <1>2, ProgramFrom DEF OnlyMoves
<1> QED BY <1>4, <1>5 DEF Typed

\* The same, with its descriptors left alone.
LEMMA MovesOnlyTyped ==
    ASSUME Typed, NEW q \in Processes, NEW p \in Program[q], Goto(q, p),
           UNCHANGED <<ctl, net, errno, todo, chld, pty, cipher, past>>,
           \/ At(q) \notin {"loop", "send"}
           \/ todo[q] = {}
    PROVE  Typed'
<1>1. TodoType'
  BY SameParts DEF Typed
<1>2. InProgram
  BY DEF Typed
<1>3. /\ q = "kid" => todo'[q] = {}
      /\ q = "client" => "socket" \notin todo'[q]
      /\ q = "server" => todo'[q] = {}
  BY <1>2 DEF InProgram
<1> QED BY <1>1, <1>3, MovesTyped

LEMMA ServedType ==
    ASSUME TypeOK, NEW q \in Processes, NEW d, Served(q, d)
    PROVE  /\ todo' \in [Processes -> SUBSET Descriptors]
           /\ todo'[q] = todo[q] \ {d}
           /\ \A r \in Processes : r # q => todo'[r] = todo[r]
  BY TypeParts DEF Served

LEMMA PollTyped ==
    ASSUME Typed, NEW q \in Processes, Poll(q) PROVE Typed'
<1>1. TypeOK /\ Polls(q) /\ q # "kid" /\ "loop" \in Program[q]
  <2>1. At(q) = IF q = "client" THEN "loop" ELSE "poll"
    BY DEF Poll, Polls
  <2>2. At(q) \in Program[q]
    BY DEF Typed, InProgram
  <2> QED BY <2>1, <2>2, ProcessFacts, ProgramFacts DEF Typed, Poll
<1>2. Ready(q) \in SUBSET Descriptors
  BY DEF Ready, Descriptors
<1>3. todo' = [todo EXCEPT ![q] = Ready(q)] /\ UNCHANGED chld
  BY DEF Poll
<1>4. TodoType'
  BY <1>1, <1>2, <1>3, TypeSplit DEF TodoType
<1>5. \A r \in Processes : r # q => todo'[r] = todo[r]
  BY <1>1, <1>3, TypeParts
<1>6. Goto(q, "loop") /\ UNCHANGED <<ctl, net, errno, pty, cipher, past>>
  BY DEF Poll
<1>7. q = "server" => todo'[q] \subseteq {"socket", "pty"}
  BY <1>1, <1>3, TypeParts DEF Ready
<1> QED BY <1>1, <1>4, <1>5, <1>6, <1>7, MovesTyped

LEMMA RecvCallTyped ==
    ASSUME Typed, NEW q \in Processes, RecvCall(q) PROVE Typed'
<1>1. TypeOK /\ InProgram /\ At(q) = "loop" /\ "socket" \in todo[q] /\ "pty" \notin todo[q]
  BY DEF Typed, RecvCall
<1>2. q # "kid" /\ "recv" \in Program[q]
  BY <1>1, ProcessFacts, ProgramFacts DEF InProgram
<1>3. Served(q, "socket") /\ Goto(q, "recv")
      /\ UNCHANGED <<ctl, net, errno, chld, pty, cipher, past>>
  BY DEF RecvCall
<1>4. TodoType' /\ \A r \in Processes : r # q => todo'[r] = todo[r]
  BY <1>1, <1>3, ServedType, TypeSplit DEF TodoType
<1>5. todo'[q] = todo[q] \ {"socket"}
  BY <1>1, <1>3, ServedType
<1>6. q = "server" => todo'[q] = {}
  BY <1>1, <1>5 DEF InProgram
<1> QED BY <1>2, <1>3, <1>4, <1>5, <1>6, MovesTyped

LEMMA ClientKeysTyped ==
    ASSUME Typed, ClientKeys PROVE Typed'
<1>1. TypeOK /\ "client" \in Processes /\ todo["client"] = {"tty"}
  BY ProcessFacts DEF Typed, ClientKeys
<1>2. /\ Served("client", "tty") /\ tty' = <<>> /\ Encrypt("client")
      /\ UNCHANGED <<errno, chld, typed, out, made, past>>
      /\ Sends("client", ctl["client"], net, "send", "DATA", pos["client"] + 1)
  BY DEF ClientKeys
<1>3. ctl["client"] \in Control /\ net \in NetType /\ pos["client"] + 1 \in Nat
  BY <1>1, TypeParts DEF TypeOK
<1>4. CanSend("client", ctl["client"], net, "send", "DATA", pos["client"] + 1)
  BY <1>1, <1>3, ProgramFacts DEF CanSend, Sending
<1>5. TodoType' /\ todo'["client"] = {}
      /\ \A r \in Processes : r # "client" => todo'[r] = todo[r]
  BY <1>1, <1>2, ServedType, TypeSplit DEF TodoType
<1>6. PtyType'
  BY <1>1, <1>2, TypeSplit, EmptySeq DEF PtyType
<1>7. CipherType' /\ PastType'
  BY <1>1, <1>2, EncryptType, SameParts
<1>8. errno' \in [Processes -> {"EAGAIN", "other"}]
  BY <1>1, <1>2, TypeParts
<1> QED BY <1>2, <1>4, <1>5, <1>6, <1>7, <1>8, SendsTyped

LEMMA ClientLeavesTyped ==
    ASSUME Typed, ClientLeaves PROVE Typed'
<1>1. TypeOK /\ "client" \in Processes /\ todo["client"] = {"tty"}
  BY ProcessFacts DEF Typed, ClientLeaves
<1>2. /\ Served("client", "tty") /\ tty' = <<>>
      /\ UNCHANGED <<errno, chld, typed, out, made, cipher, past>>
      /\ Sends("client", ctl["client"], net, "close1", "FIN", 0)
  BY DEF ClientLeaves
<1>3. ctl["client"] \in Control /\ net \in NetType
  BY <1>1, TypeParts
<1>4. CanSend("client", ctl["client"], net, "close1", "FIN", 0)
  BY <1>1, <1>3, ProgramFacts DEF CanSend, Sending
<1>5. TodoType' /\ todo'["client"] = {}
      /\ \A r \in Processes : r # "client" => todo'[r] = todo[r]
  BY <1>1, <1>2, ServedType, TypeSplit DEF TodoType
<1>6. PtyType'
  BY <1>1, <1>2, TypeSplit, EmptySeq DEF PtyType
<1>7. CipherType' /\ PastType'
  BY <1>1, <1>2, SameParts
<1>8. errno' \in [Processes -> {"EAGAIN", "other"}]
  BY <1>1, <1>2, TypeParts
<1> QED BY <1>2, <1>4, <1>5, <1>6, <1>7, <1>8, SendsTyped

LEMMA ServerOutputTyped ==
    ASSUME Typed, ServerOutput PROVE Typed'
<1>1. TypeOK /\ "server" \in Processes
  BY ProcessFacts DEF Typed
<1>2. /\ Served("server", "pty") /\ out' = 0 /\ Encrypt("server")
      /\ UNCHANGED <<errno, chld, tty, typed, made, past>>
      /\ Sends("server", ctl["server"], net, "send", "DATA", pos["server"] + 1)
  BY DEF ServerOutput
<1>3. ctl["server"] \in Control /\ net \in NetType /\ pos["server"] + 1 \in Nat
  BY <1>1, TypeParts DEF TypeOK
<1>4. CanSend("server", ctl["server"], net, "send", "DATA", pos["server"] + 1)
  BY <1>1, <1>3, ProgramFacts DEF CanSend, Sending
<1>5. TodoType' /\ \A r \in Processes : r # "server" => todo'[r] = todo[r]
  BY <1>1, <1>2, ServedType, TypeSplit DEF TodoType
<1>6. PtyType'
  BY <1>1, <1>2, TypeSplit DEF PtyType
<1>7. CipherType' /\ PastType'
  BY <1>1, <1>2, EncryptType, SameParts
<1>8. errno' \in [Processes -> {"EAGAIN", "other"}]
  BY <1>1, <1>2, TypeParts
<1>9. todo'["server"] \subseteq {"socket", "pty"}
  BY <1>1, <1>2, ServedType DEF Typed, InProgram
<1> QED BY <1>9, <1>2, <1>4, <1>5, <1>6, <1>7, <1>8, SendsTyped

LEMMA ServerTestTyped ==
    ASSUME Typed, ServerTest PROVE Typed'
  BY ProcessFacts, ProgramFacts, MovesOnlyTyped DEF ServerTest

LEMMA PollTimeoutTyped ==
    ASSUME Typed, PollTimeout PROVE Typed'
<1>1. todo["server"] = {}
  BY DEF PollTimeout, Polls
<1> QED BY <1>1, ProcessFacts, ProgramFacts, MovesOnlyTyped DEF PollTimeout

LEMMA ServerLeavesTyped ==
    ASSUME Typed, ServerLeaves PROVE Typed'
<1>1. ctl["server"] \in Control /\ net \in NetType /\ todo["server"] = {}
  BY ProcessFacts, TypeParts DEF Typed, ServerLeaves
<1>2. CanSend("server", ctl["server"], net, "close1", "FIN", 0)
  BY <1>1, ProcessFacts, ProgramFacts DEF CanSend, Sending
<1>3. CipherType'
  BY SameParts DEF Typed, ServerLeaves
<1> QED BY <1>1, <1>2, <1>3, SendsOnlyTyped DEF ServerLeaves

-----------------------------------------------------------------------------
(* The signal, the ends, and the surroundings.                              *)

LEMMA SigChldTyped ==
    ASSUME Typed, SigChld PROVE Typed'
<1>1. TypeOK /\ InProgram /\ chld' \in Signals
  BY HandlesFacts DEF Typed, SigChld
<1>2. UNCHANGED <<call, ctl, net, errno>> /\ UNCHANGED <<todo, pty, cipher, past>>
  BY DEF SigChld, rudp
<1>3. RudpType' /\ TodoType'
  BY <1>1, <1>2, TypeSplit DEF RudpType, TodoType
<1>4. TypeOK'
  BY <1>1, <1>2, <1>3, SameParts, TypeSplit
<1>5. InProgram'
  BY <1>1, <1>2 DEF InProgram, At
<1> QED BY <1>4, <1>5 DEF Typed

LEMMA PollInterruptedTyped ==
    ASSUME Typed, PollInterrupted PROVE Typed'
<1>1. TypeOK /\ "server" \in Processes /\ todo["server"] = {}
  BY ProcessFacts DEF Typed, PollInterrupted, Polls
<1>2. /\ chld' \in Signals /\ errno' = [errno EXCEPT !["server"] = "other"]
      /\ Sends("server", ctl["server"], net, "close1", "FIN", 0)
      /\ UNCHANGED <<todo, pty, cipher, past>>
  BY HandlesFacts DEF PollInterrupted
<1>3. CanSend("server", ctl["server"], net, "close1", "FIN", 0)
  BY <1>1, TypeParts, ProgramFacts DEF CanSend, Sending
<1>4. TodoType' /\ PtyType' /\ CipherType' /\ PastType'
  BY <1>1, <1>2, SameParts, TypeSplit DEF TodoType
<1>5. errno' \in [Processes -> {"EAGAIN", "other"}]
  BY <1>1, <1>2, TypeParts
<1> QED BY <1>1, <1>2, <1>3, <1>4, <1>5, SendsTyped

LEMMA SendInterruptedTyped ==
    ASSUME Typed, SendInterrupted PROVE Typed'
<1>1. TypeOK /\ InProgram /\ "server" \in Processes /\ InSend("server")
      /\ At("server") \in Program["server"]
  BY ProcessFacts DEF Typed, InProgram, SendInterrupted
<1>2. /\ chld' \in Signals /\ errno' = [errno EXCEPT !["server"] = "other"]
      /\ Retry("server", net) /\ Mishap("server", "signal")
      /\ UNCHANGED <<ctl, todo, pty, cipher, crashed, faults>>
  BY HandlesFacts DEF SendInterrupted, Interrupted
<1>3. /\ call' \in [Processes -> Call] /\ net' \in NetType
      /\ \A r \in Processes : r # "server" => call'[r] = call[r]
      /\ At("server")' \in {At("server"), AfterFailure("server", At("server"))}
  BY <1>1, <1>2, RetryFacts, TypeParts
<1>4. RudpType'
  BY <1>1, <1>2, <1>3, TypeParts DEF RudpType
<1>5. TodoType'
  BY <1>1, <1>2, TypeSplit DEF TodoType
<1>6. PastType'
  <2>1. mishaps' \subseteq Taken3
    BY <1>1, <1>2, MishapType DEF Kinds
  <2> QED BY <1>1, <1>2, <2>1, TypeSplit DEF PastType
<1>7. TypeOK'
  BY <1>1, <1>2, <1>4, <1>5, <1>6, SameParts, TypeSplit
<1>8. InProgram'
  <2>1. /\ AfterFailure("server", At("server")) \in Program["server"]
        /\ At("server") = "send" => AfterFailure("server", At("server")) = "loop"
        /\ At("server") # "loop"
    BY <1>1, NextPlaces DEF InSend, Sending
  <2> QED BY <1>1, <1>2, <1>3, <2>1, ProgramSame
<1> QED BY <1>7, <1>8 DEF Typed

LEMMA RecvInterruptedFacts ==
    ASSUME Typed, RecvInterrupted
    PROVE  /\ call' \in [Processes -> Call]
           /\ \A r \in Processes : r # "server" => call'[r] = call[r]
           /\ At("server")' \in {At("server"), "exit"}
           /\ crashed' \subseteq Processes
           /\ At("server") \notin {"loop", "send"}
<1>1. TypeOK /\ "server" \in Processes /\ InRecv("server")
      /\ At("server") \notin {"loop", "send"}
  BY ProcessFacts DEF Typed, RecvInterrupted, InRecv, Receiving
<1>2. CASE call["server"].i + 1 < N_ATTEMPT
  <2>1. call' = [call EXCEPT !["server"].i = @ + 1] /\ UNCHANGED crashed
    BY <1>2 DEF RecvInterrupted
  <2>2. call' = [call EXCEPT !["server"] =
                   [call["server"] EXCEPT !.i = call["server"].i + 1]]
    BY <2>1
  <2>3. call["server"] \in Call
    BY <1>1, TypeParts
  <2>4. call["server"].i + 1 \in 0..(N_ATTEMPT - 1)
    BY <1>2, <2>3, UdpAssumption DEF Call
  <2>5. /\ [call["server"] EXCEPT !.i = call["server"].i + 1] \in Call
        /\ [call["server"] EXCEPT !.i = call["server"].i + 1].at = call["server"].at
    BY <2>3, <2>4 DEF Call
  <2>6. crashed' \subseteq Processes
    BY <1>1, <2>1 DEF TypeOK
  <2> QED BY <1>1, <2>2, <2>5, <2>6, TypeParts DEF At
<1>3. CASE ~(call["server"].i + 1 < N_ATTEMPT)
  <2>1. RecvFails("server")
    BY <1>3 DEF RecvInterrupted
  <2> QED BY <1>1, <2>1, RecvFailsFacts
<1> QED BY <1>2, <1>3

LEMMA RecvInterruptedTyped ==
    ASSUME Typed, RecvInterrupted PROVE Typed'
<1>1. TypeOK /\ InProgram /\ "server" \in Processes
  BY ProcessFacts DEF Typed
<1>2. /\ chld' \in Signals /\ errno' = [errno EXCEPT !["server"] = "other"]
      /\ UNCHANGED <<ctl, net, todo, pty, cipher, mishaps, faults>>
  BY HandlesFacts DEF RecvInterrupted, Interrupted
<1>3. RudpType'
  BY <1>1, <1>2, RecvInterruptedFacts, TypeParts DEF RudpType
<1>4. TodoType' /\ PastType'
  BY <1>1, <1>2, RecvInterruptedFacts, TypeSplit DEF TodoType, PastType
<1>5. TypeOK'
  BY <1>1, <1>2, <1>3, <1>4, SameParts, TypeSplit
<1>6. InProgram'
  <2>1. At("server")' \in Program["server"]
    BY <1>1, RecvInterruptedFacts, ProgramFacts DEF InProgram
  <2> QED BY <1>1, <1>2, <2>1, RecvInterruptedFacts, ProgramSame
<1> QED BY <1>5, <1>6 DEF Typed

LEMMA ServerWriteFailsTyped ==
    ASSUME Typed, ServerWriteFails PROVE Typed'
<1>1. TypeOK /\ InProgram /\ net[Socket("server")] # <<>> /\ At("server") = "recv"
      /\ "server" \in Processes
  BY ProcessFacts DEF Typed, ServerWriteFails, Takes
<1>2. /\ Passes("server", "exit") /\ Mishap("server", "write")
      /\ UNCHANGED <<errno, todo, pty, crashed, faults>>
  BY DEF ServerWriteFails
<1>3. "exit" \in Places /\ "exit" \in Program["server"]
  BY ProgramFacts DEF Places, Resting
<1>4. RudpType'
  BY <1>1, <1>2, <1>3, PassesFacts, TypeParts DEF RudpType
<1>5. TodoType'
  <2>1. chld \in Signals /\ todo \in [Processes -> SUBSET Descriptors]
    BY <1>1, TypeSplit DEF TodoType
  <2>2. chld' \in Signals
    BY <2>1, HandlesFacts DEF ServerWriteFails
  <2> QED BY <1>2, <2>1, <2>2 DEF TodoType
<1>6. CipherType'
  <2>1. Arrived("server").body \in Nat
    BY <1>1, ArrivedFacts DEF Datagram
  <2> QED BY <1>1, <2>1, DecryptType DEF ServerWriteFails
<1>7. PastType'
  <2>1. mishaps' \subseteq Taken3
    BY <1>1, <1>2, MishapType DEF Kinds
  <2> QED BY <1>1, <1>2, <2>1, TypeSplit DEF PastType
<1>8. TypeOK'
  BY <1>1, <1>2, <1>4, <1>5, <1>6, <1>7, SameParts, TypeSplit
<1>9. InProgram'
  BY <1>1, <1>2, <1>3, PassesFacts, ProgramSame
<1> QED BY <1>8, <1>9 DEF Typed

LEMMA ClientBreaksTyped ==
    ASSUME Typed, ClientBreaks PROVE Typed'
<1>1. TypeOK /\ InProgram /\ "client" \in Processes /\ At("client") = "loop"
  BY ProcessFacts DEF Typed, ClientBreaks
<1>2. /\ Goto("client", "exit") /\ Fault("client", "broke")
      /\ UNCHANGED <<ctl, net, errno, chld, pty, cipher, crashed>>
      /\ todo' = [todo EXCEPT !["client"] = {}]
  BY DEF ClientBreaks
<1>3. "exit" \in Places /\ "exit" \in Program["client"]
  BY ProgramFacts DEF Places, Resting
<1>4. /\ call' \in [Processes -> Call] /\ At("client")' = "exit"
      /\ \A r \in Processes : r # "client" => call'[r] = call[r]
  BY <1>1, <1>2, <1>3, GotoFacts
<1>5. /\ todo' \in [Processes -> SUBSET Descriptors] /\ todo'["client"] = {}
      /\ \A r \in Processes : r # "client" => todo'[r] = todo[r]
  BY <1>1, <1>2, TypeParts
<1>6. mishaps' \subseteq Taken3 /\ faults' \in Nat
  BY <1>1, <1>2, FaultType DEF Kinds
<1>7. RudpType' /\ TodoType' /\ PastType'
  BY <1>1, <1>2, <1>4, <1>5, <1>6, TypeSplit DEF RudpType, TodoType, PastType
<1>8. TypeOK'
  BY <1>1, <1>2, <1>7, SameParts, TypeSplit
<1>9. InProgram'
  BY <1>1, <1>3, <1>4, <1>5, ProcessFacts, ProgramFrom DEF OnlyMoves
<1> QED BY <1>8, <1>9 DEF Typed

LEMMA ShellStopsTyped ==
    ASSUME Typed, ShellStops PROVE Typed'
<1>1. /\ TypeOK /\ InProgram /\ UNCHANGED <<call, ctl, net, errno>>
      /\ UNCHANGED <<todo, pty, cipher, crashed>>
      /\ Raises /\ Fault("kid", "stopped") /\ "kid" \in Processes
  BY ProcessFacts DEF Typed, ShellStops, rudp
<1>2. mishaps' \subseteq Taken3 /\ faults' \in Nat
  BY <1>1, FaultType DEF Kinds
<1>3. RudpType' /\ TodoType' /\ PastType'
  BY <1>1, <1>2, RaisesFacts, TypeSplit DEF RudpType, TodoType, PastType
<1>4. TypeOK'
  BY <1>1, <1>3, SameParts, TypeSplit
<1>5. InProgram'
  BY <1>1 DEF InProgram, At
<1> QED BY <1>4, <1>5 DEF Typed

LEMMA EndsFacts ==
    ASSUME TypeOK, NEW qs \in SUBSET Processes, Ends(qs)
    PROVE  /\ call' \in [Processes -> Call]
           /\ \A q \in Processes : At(q)' = IF q \in qs THEN "gone" ELSE At(q)
           /\ \A q \in Processes : q \notin qs => call'[q] = call[q]
           /\ \A q \in Processes : todo'[q] = IF q \in qs THEN {} ELSE todo[q]
           /\ net' \in NetType
           /\ \A s \in Sockets : net'[s] \in {<<>>, net[s]}
           /\ todo' \in [Processes -> SUBSET Descriptors]
<1>1. Place("gone") \in Call /\ Place("gone").at = "gone"
  BY PlaceType DEF Places, Resting
<1>2. call' = [q \in Processes |-> IF q \in qs THEN Place("gone") ELSE call[q]]
  BY DEF Ends
<1>3. todo' = [q \in Processes |-> IF q \in qs THEN {} ELSE todo[q]]
  BY DEF Ends
<1>4. /\ net' \in NetType
      /\ \A s \in Sockets : net'[s] \in {<<>>, net[s]}
  BY TypeParts, EmptySeq DEF Ends, NetType
<1> QED BY <1>1, <1>2, <1>3, <1>4, TypeParts DEF At

\* Some processes end.
LEMMA EndsTyped ==
    ASSUME Typed, NEW qs \in SUBSET Processes, Ends(qs),
           UNCHANGED <<ctl, errno, pty, cipher, past>>, chld' \in Signals
    PROVE  Typed'
<1>1. TypeOK /\ InProgram
  BY DEF Typed
<1>2. RudpType' /\ TodoType'
  BY <1>1, EndsFacts, TypeParts DEF RudpType, TodoType
<1>3. TypeOK'
  BY <1>1, <1>2, SameParts, TypeSplit
<1>4. InProgram'
  <2>1. \A q \in Processes : "gone" \in Program[q]
    BY ProcessFacts, ProgramFacts
  <2> QED BY <1>1, <2>1, EndsFacts, ProcessFacts DEF InProgram
<1> QED BY <1>3, <1>4 DEF Typed

LEMMA ExitTyped ==
    ASSUME Typed, NEW q \in Processes, Exit(q) PROVE Typed'
<1>1. chld' \in Signals
  BY RaisesFacts, TypeSplit DEF Exit, Typed, TodoType
<1>2. {q} \in SUBSET Processes /\ Ends({q})
      /\ UNCHANGED <<ctl, errno, pty, cipher, past>>
  BY DEF Exit
<1> QED BY <1>1, <1>2, EndsTyped

LEMMA ServerKillsTyped ==
    ASSUME Typed, ServerKills PROVE Typed'
<1>1. chld' \in Signals
  BY TypeSplit DEF ServerKills, Typed, TodoType
<1>2. {"server", "kid"} \in SUBSET Processes /\ Ends({"server", "kid"})
      /\ UNCHANGED <<ctl, errno, pty, cipher, past>>
  BY ProcessFacts DEF ServerKills
<1> QED BY <1>1, <1>2, EndsTyped

LEMMA UserTypesTyped ==
    ASSUME Typed, UserTypes PROVE Typed'
<1>1. TypeOK /\ InProgram /\ UNCHANGED <<call, ctl, net, errno>>
      /\ UNCHANGED <<todo, chld, out, made, cipher, past>>
  BY DEF Typed, UserTypes, rudp
<1>2. typed' \in Nat /\ tty' \in Seq({"key", "ctrl-D"})
  BY <1>1, AppendProperties DEF UserTypes, TypeOK
<1>3. RudpType' /\ PtyType'
  BY <1>1, <1>2, TypeSplit DEF RudpType, PtyType
<1>4. TypeOK'
  BY <1>1, <1>3, SameParts, TypeSplit
<1>5. InProgram'
  BY <1>1 DEF InProgram, At
<1> QED BY <1>4, <1>5 DEF Typed

LEMMA ShellWritesTyped ==
    ASSUME Typed, ShellWrites PROVE Typed'
<1>1. TypeOK /\ InProgram /\ UNCHANGED <<call, ctl, net, errno>>
      /\ UNCHANGED <<todo, chld, tty, typed, cipher, past>>
  BY DEF Typed, ShellWrites, rudp
<1>2. made' \in Nat /\ out' \in Nat
  BY <1>1 DEF ShellWrites, TypeOK
<1>3. RudpType' /\ PtyType'
  BY <1>1, <1>2, TypeSplit DEF RudpType, PtyType
<1>4. TypeOK'
  BY <1>1, <1>3, SameParts, TypeSplit
<1>5. InProgram'
  BY <1>1 DEF InProgram, At
<1> QED BY <1>4, <1>5 DEF Typed

LEMMA KeyFailsTyped ==
    ASSUME Typed, NEW q \in {"client", "server"}, KeyFails(q) PROVE Typed'
  BY ProcessFacts, ProgramFacts, MovesOnlyTyped DEF KeyFails

LEMMA LoginSucceedsTyped ==
    ASSUME Typed, LoginSucceeds PROVE Typed'
  BY ProcessFacts, ProgramFacts, MovesOnlyTyped DEF LoginSucceeds

LEMMA ShellExitsTyped ==
    ASSUME Typed, ShellExits PROVE Typed'
  BY ProcessFacts, ProgramFacts, MovesOnlyTyped DEF ShellExits

LEMMA LoginFailsTyped ==
    ASSUME Typed, LoginFails PROVE Typed'
<1>1. PICK p \in {"close1", "close0"} :
          Sends("kid", ctl["kid"], net, p, "FIN", 0)
  BY DEF LoginFails
<1>2. ctl["kid"] \in Control /\ net \in NetType /\ At("kid") = "login"
  BY ProcessFacts, TypeParts DEF Typed, LoginFails
<1>3. CanSend("kid", ctl["kid"], net, p, "FIN", 0)
  BY <1>2, ProcessFacts, ProgramFacts DEF CanSend, Sending
<1>4. CipherType' /\ UNCHANGED <<errno, todo, chld, pty, past>>
  BY SameParts DEF Typed, LoginFails
<1> QED BY <1>1, <1>2, <1>3, <1>4, SendsOnlyTyped

\* A queue without its i-th datagram.
LEMMA DropFacts ==
    ASSUME TypeOK, NEW s \in Sockets, Drop(s)
    PROVE  \E i \in DOMAIN net[s] :
             LET n == SubSeq(net[s], 1, i - 1) \o SubSeq(net[s], i + 1, Len(net[s]))
             IN  /\ i > 1 \/ ~Seen(s)
                 /\ net' = [net EXCEPT ![s] = n]
                 /\ n \in Seq(Datagram)
                 /\ \A j \in 1..Len(n) : \E k \in 1..Len(net[s]) : n[j] = net[s][k]
                 /\ i > 1 => Len(n) > 0 /\ n[1] = net[s][1]
<1>1. net[s] \in Seq(Datagram)
  BY TypeParts DEF NetType
<1>2. PICK i \in DOMAIN net[s] :
          /\ i > 1 \/ ~Seen(s)
          /\ net' = [net EXCEPT ![s] = SubSeq(@, 1, i - 1)
                                         \o SubSeq(@, i + 1, Len(@))]
  BY DEF Drop
<1> DEFINE m == net[s]
           a == SubSeq(m, 1, i - 1)
           b == SubSeq(m, i + 1, Len(m))
<1>3. i \in 1..Len(m) /\ Len(m) \in Nat
  BY <1>1, <1>2, LenProperties
<1>4. /\ a \in Seq(Datagram) /\ Len(a) = i - 1
      /\ \A j \in 1..(i - 1) : a[j] = m[j]
  BY <1>1, <1>3, SubSeqProperties
<1>5. /\ b \in Seq(Datagram) /\ Len(b) = Len(m) - i
      /\ \A j \in 1..(Len(m) - i) : b[j] = m[i + j]
  BY <1>1, <1>3, SubSeqProperties
<1> HIDE DEF a, b, m
<1>9. /\ a \o b \in Seq(Datagram) /\ Len(a \o b) = Len(a) + Len(b)
      /\ \A j \in 1..(Len(a) + Len(b)) :
            (a \o b)[j] = IF j <= Len(a) THEN a[j] ELSE b[j - Len(a)]
  BY <1>4, <1>5, ConcatProperties
<1>6. /\ a \o b \in Seq(Datagram) /\ Len(a \o b) = Len(m) - 1
      /\ \A j \in 1..Len(a \o b) :
            (a \o b)[j] = IF j <= i - 1 THEN a[j] ELSE b[j - (i - 1)]
  BY <1>3, <1>4, <1>5, <1>9
<1>7. \A j \in 1..Len(a \o b) : \E k \in 1..Len(m) : (a \o b)[j] = m[k]
  <2> TAKE j \in 1..Len(a \o b)
  <2>1. CASE j <= i - 1
    <3>1. j \in 1..Len(m) /\ (a \o b)[j] = m[j]
      BY <1>3, <1>4, <1>6, <2>1
    <3> QED BY <3>1
  <2>2. CASE ~(j <= i - 1)
    <3>1. j + 1 \in 1..Len(m) /\ j - (i - 1) \in 1..(Len(m) - i)
      BY <1>3, <1>6, <2>2
    <3>2. (a \o b)[j] = m[i + (j - (i - 1))] /\ i + (j - (i - 1)) = j + 1
      BY <1>3, <1>5, <1>6, <2>2, <3>1
    <3> QED BY <3>1, <3>2
  <2> QED BY <2>1, <2>2
<1>8. i > 1 => Len(a \o b) > 0 /\ (a \o b)[1] = m[1]
  BY <1>3, <1>4, <1>6
<1> QED BY <1>2, <1>6, <1>7, <1>8 DEF a, b, m

LEMMA DropTyped ==
    ASSUME Typed, NEW s \in Sockets, Drop(s) PROVE Typed'
<1>1. TypeOK /\ InProgram /\ UNCHANGED <<call, ctl, errno, todo, chld, pty, cipher, crashed>>
  BY DEF Typed, Drop
<1>2. PICK n \in Seq(Datagram) : net' = [net EXCEPT ![s] = n]
  BY <1>1, DropFacts
<1>3. net' \in NetType
  BY <1>1, <1>2, TypeParts DEF NetType
<1>4. RudpType'
  BY <1>1, <1>3, TypeSplit DEF RudpType
<1>5. PastType'
  <2>1. Fault(s, "lost") /\ s \in Processes
    BY ProcessFacts DEF Drop
  <2>2. mishaps' \subseteq Taken3 /\ faults' \in Nat
    BY <1>1, <2>1, FaultType DEF Kinds
  <2> QED BY <1>1, <2>2, TypeSplit DEF PastType
<1>6. TypeOK'
  BY <1>1, <1>4, <1>5, SameParts, TypeSplit
<1>7. InProgram'
  BY <1>1 DEF InProgram, At
<1> QED BY <1>6, <1>7 DEF Typed

-----------------------------------------------------------------------------
(* Type correctness.                                                        *)

LEMMA StutterTyped ==
    ASSUME Typed, UNCHANGED vars PROVE Typed'
<1>1. TypeOK /\ InProgram /\ UNCHANGED <<call, ctl, net, errno>>
      /\ UNCHANGED <<todo, chld, pty, cipher, past>>
  BY DEF Typed, vars, rudp
<1>2. RudpType'
  BY <1>1, TypeSplit DEF RudpType
<1>3. TypeOK'
  BY <1>1, <1>2, SameParts, TypeSplit
<1>4. InProgram'
  BY <1>1 DEF InProgram, At
<1> QED BY <1>3, <1>4 DEF Typed

LEMMA StepTyped ==
    ASSUME Typed, NEW q \in Processes, Step(q) PROVE Typed'
  BY AnswerTyped, SendTimeoutTyped, RecvTextTyped, RecvEndTyped, DrainTyped,
     RecvTimeoutTyped, PollTyped, RecvCallTyped, ExitTyped DEF Step

LEMMA NextTyped == Typed /\ [Next]_vars => Typed'
<1> SUFFICES ASSUME Typed, [Next]_vars PROVE Typed'
  OBVIOUS
<1>1. CASE ClientStep
  BY <1>1, StepTyped, ClientSendKeyTyped, ClientRecvKeyTyped, ClientKeysTyped,
     ClientLeavesTyped, ProcessFacts DEF ClientStep
<1>7. CASE SigChld
  BY <1>7, SigChldTyped
<1>2. CASE ServerStep
  BY <1>2, StepTyped, ServerRecvKeyTyped, RecvNameTyped, ServerTestTyped,
     ServerLeavesTyped, PollTimeoutTyped, ServerOutputTyped,
     PollInterruptedTyped, SendInterruptedTyped, RecvInterruptedTyped,
     ServerWriteFailsTyped, ServerKillsTyped, ProcessFacts DEF ServerStep
<1>3. CASE KidStep
  BY <1>3, StepTyped, ProcessFacts DEF KidStep
<1>4. CASE Surroundings
  BY <1>4, UserTypesTyped, KeyFailsTyped, LoginSucceedsTyped, LoginFailsTyped,
     ShellWritesTyped, ShellExitsTyped, ShellStopsTyped, ClientBreaksTyped
     DEF Surroundings
<1>5. CASE Network
  BY <1>5, DropTyped DEF Network
<1>6. CASE UNCHANGED vars
  BY <1>6, StutterTyped
<1> QED BY <1>1, <1>2, <1>3, <1>4, <1>5, <1>6, <1>7 DEF Next

LEMMA InitTyped == Init => Typed
<1> SUFFICES ASSUME Init PROVE Typed
  OBVIOUS
<1>1. /\ Place("start") \in Call /\ Place("start").at = "start"
      /\ Place("recvKey") \in Call /\ Place("recvKey").at = "recvKey"
      /\ Place("none") \in Call /\ Place("none").at = "none"
  BY PlaceType DEF Places, Receiving, Resting
<1>2. call \in [Processes -> Call]
  <2>1. call = [client |-> Place("start"), server |-> Place("recvKey"),
                kid |-> Place("none")]
    BY DEF Init
  <2> QED BY <1>1, <2>1 DEF Processes
<1>3. ctl \in [Processes -> Control] /\ net \in NetType
      /\ errno \in [Processes -> {"EAGAIN", "other"}]
  BY UdpAssumption, EmptySeq DEF Init, Control, NetType
<1>4. RudpType
  BY <1>2, <1>3 DEF RudpType
<1>5. TodoType /\ PtyType /\ CipherType /\ PastType
  BY EmptySeq DEF Init, TodoType, PtyType, CipherType, PastType, Descriptors, Signals
<1>6. TypeOK
  BY <1>4, <1>5, TypeSplit
<1>7. At("client") = "start" /\ At("server") = "recvKey" /\ At("kid") = "none"
  BY <1>1 DEF Init, At
<1>8. InProgram
  BY <1>7, ProcessFacts, ProgramFacts DEF Init, InProgram
<1> QED BY <1>6, <1>8 DEF Typed

\* In every behaviour each variable of the session over RUDP has its type, and
\* no try counter of its calls reaches N_ATTEMPT.
THEOREM TypeCorrect == Spec => []TypeOK
<1>1. Typed => TypeOK
  BY DEF Typed
<1> QED BY <1>1, InitTyped, NextTyped, PTL DEF Spec

-----------------------------------------------------------------------------
(* What a step of one process does to its own control and to the other's    *)
(* queue.                                                                   *)

\* The control that d was made from, now.
FreshNow(q, d) ==
    CountedIn(ctl'[q], d) /\ (d.flag = "ACK" => d.ack = ctl'[q].ack)

\* Queue t begins with queue s.
Begins(s, t) == \A i \in 1..Len(s) : i \in 1..Len(t) /\ t[i] = s[i]

\* What q puts into the other's queue comes from its control; what was there
\* stays, and stays the first.
Grown(q) ==
    /\ Begins(net[Peer(q)], net'[Peer(q)])
    /\ \A i \in 1..Len(net'[Peer(q)]) :
          \/ \E j \in 1..Len(net[Peer(q)]) : net'[Peer(q)][i] = net[Peer(q)][j]
          \/ FreshNow(q, net'[Peer(q)][i])
    /\ net[Peer(q)] # <<>> => /\ net'[Peer(q)] # <<>>
                              /\ Head(net'[Peer(q)]) = Head(net[Peer(q)])

Ending == {"close2", "exit", "gone"}

\* The number grows, the acknowledgement by what has arrived, and the client
\* counts an acknowledgement only on its way out.
OwnControl(q) ==
    /\ InSend(q)' => CountedIn(ctl'[q], call'[q].pkt) /\ call'[q].pkt.flag # "ACK"
    /\ ctl'[q].seq >= ctl[q].seq
    /\ \/ ctl'[q].ack = ctl[q].ack
       \/ /\ InRecv(q) /\ net[Socket(q)] # <<>> /\ Arrived(q).seq = ctl[q].ack
          /\ ctl'[q].ack = ctl[q].ack + Size(Arrived(q).flag)
          /\ q = "client" /\ Arrived(q).flag = "ACK" => At(q)' \in Ending
    /\ q = "client" /\ At(q) \in Ending => At(q)' \in Ending

OwnQueue(q) ==
    \/ net'[Socket(q)] = net[Socket(q)]
    \/ net[Socket(q)] # <<>> /\ net'[Socket(q)] = Tail(net[Socket(q)])

\* The client and the server leave each other alone, and the kid both.
OthersStay(q) ==
    \A r \in {"client", "server"} :
        r # q => call'[r] = call[r] /\ ctl'[r] = ctl[r] /\ todo'[r] = todo[r]

Shape(q) == OthersStay(q) /\ OwnControl(q) /\ OwnQueue(q) /\ Grown(q)

LEMMA CountedFacts ==
    ASSUME NEW c \in Control, NEW flag \in {"DATA", "ACK", "FIN"}, NEW body \in Nat
    PROVE  /\ \A e \in Control :
                 /\ e.seq >= c.seq /\ flag = "ACK"
                 => CountedIn(e, Packet(c, flag, body))
           /\ \A e \in Control :
                 /\ e.seq >= c.seq + Size(flag)
                 => CountedIn(e, Packet(c, flag, body))
<1>1. /\ Packet(c, flag, body).flag = flag /\ Packet(c, flag, body).seq = c.seq
  BY PacketType
<1>2. Size(flag) \in Nat /\ c.seq \in Nat
  BY SizeType DEF Control
<1> QED BY <1>1, <1>2 DEF CountedIn, Control

LEMMA CountedStays ==
    ASSUME NEW c \in Control, NEW e \in Control, e.seq >= c.seq,
           NEW d \in Datagram, CountedIn(c, d)
    PROVE  CountedIn(e, d)
<1>1. Size(d.flag) \in Nat
  BY SizeType
<1> QED BY <1>1 DEF CountedIn, Control, Datagram

LEMMA AppendBegins ==
    ASSUME NEW S, NEW s \in Seq(S), NEW d \in S
    PROVE  Begins(s, s) /\ Begins(s, Append(s, d))
<1>1. /\ Len(Append(s, d)) = Len(s) + 1 /\ Len(s) \in Nat
      /\ \A i \in 1..Len(s) : Append(s, d)[i] = s[i]
  BY AppendProperties, LenProperties
<1> QED BY <1>1 DEF Begins

\* A queue of another, from a network n in which it is as it was or longer by
\* a fresh datagram.
LEMMA PutShape ==
    ASSUME TypeOK, NEW q \in Processes, NEW n \in NetType,
           Begins(net[Peer(q)], n[Peer(q)]),
           \A i \in 1..Len(n[Peer(q)]) :
              \/ \E j \in 1..Len(net[Peer(q)]) : n[Peer(q)][i] = net[Peer(q)][j]
              \/ FreshNow(q, n[Peer(q)][i]),
           net[Peer(q)] # <<>> => /\ n[Peer(q)] # <<>>
                                  /\ Head(n[Peer(q)]) = Head(net[Peer(q)]),
           NEW d \in Datagram, FreshNow(q, d),
           net' = Put(n, Peer(q), d)
    PROVE  Grown(q) /\ net'[Socket(q)] = n[Socket(q)]
<1> DEFINE s == Peer(q)
<1>1. s \in Sockets /\ Socket(q) \in Sockets /\ Socket(q) # s
  BY ProcessFacts
<1>2. n[s] \in Seq(Datagram) /\ net[s] \in Seq(Datagram)
  BY <1>1, TypeParts DEF NetType
<1>3. net'[s] \in {n[s], Append(n[s], d)} /\ net'[Socket(q)] = n[Socket(q)]
  BY <1>1, PutFacts
<1>4. CASE net'[s] = n[s]
  BY <1>3, <1>4 DEF Grown
<1>5. CASE net'[s] = Append(n[s], d)
  <2>1. /\ Len(Append(n[s], d)) = Len(n[s]) + 1
        /\ \A i \in 1..Len(n[s]) : Append(n[s], d)[i] = n[s][i]
        /\ Append(n[s], d)[Len(n[s]) + 1] = d
        /\ Append(n[s], d) \in Seq(Datagram) /\ Append(n[s], d) # <<>>
    BY <1>2, AppendProperties
  <2>2. Len(n[s]) \in Nat
    BY <1>2, LenProperties
  <2>3. \A i \in 1..Len(net'[s]) :
          \/ \E j \in 1..Len(net[s]) : net'[s][i] = net[s][j]
          \/ FreshNow(q, net'[s][i])
    <3> TAKE i \in 1..Len(net'[s])
    <3>1. CASE i \in 1..Len(n[s])
      <4>1. net'[s][i] = n[s][i]
        BY <1>5, <2>1, <3>1
      <4> QED BY <3>1, <4>1
    <3>2. CASE i = Len(n[s]) + 1
      BY <1>5, <2>1, <3>2
    <3> QED BY <1>5, <2>1, <2>2, <3>1, <3>2
  <2>4. net[s] # <<>> => net'[s] # <<>> /\ Head(net'[s]) = Head(net[s])
    <3> SUFFICES ASSUME net[s] # <<>>
                 PROVE  net'[s] # <<>> /\ Head(net'[s]) = Head(net[s])
      OBVIOUS
    <3>1. n[s] # <<>> /\ Head(n[s]) = Head(net[s])
      OBVIOUS
    <3>2. Len(n[s]) > 0
      BY <1>2, <3>1, EmptySeq, LenProperties
    <3>3. Head(n[s]) = n[s][1] /\ Head(Append(n[s], d)) = Append(n[s], d)[1]
      BY <1>2, <2>1, <3>1, HeadTailProperties
    <3> QED BY <1>5, <2>1, <3>1, <3>2, <3>3, <2>2
  <2>5. Begins(net[s], net'[s])
    <3>1. Begins(n[s], Append(n[s], d)) /\ Begins(net[s], n[s])
      BY <1>2, AppendBegins
    <3> QED BY <1>5, <3>1 DEF Begins
  <2> QED BY <1>3, <2>3, <2>4, <2>5 DEF Grown
<1> QED BY <1>3, <1>4, <1>5

LEMMA SameGrown ==
    ASSUME TypeOK, NEW q \in Processes, net'[Peer(q)] = net[Peer(q)]
    PROVE  Grown(q)
  BY DEF Grown, Begins

\* No call is followed by a call at once, and the client's last one by its end.
LEMMA NextRests ==
    ASSUME NEW q \in Processes, NEW p \in Program[q], p \in Sending
    PROVE  /\ Then[q][p] \notin Sending /\ AfterFailure(q, p) \notin Sending
           /\ Then[q][p] # "recv" /\ AfterFailure(q, p) # "recv"
           /\ q = "client" /\ p = "close2" =>
                  Then[q][p] = "exit" /\ AfterFailure(q, p) = "exit"
<1>1. CASE q = "client"
  BY <1>1, ProgramFacts, ThenFacts DEF Sending, AfterFailure
<1>2. CASE q = "server"
  BY <1>2, ProgramFacts, ThenFacts DEF Sending, AfterFailure
<1>3. CASE q = "kid"
  BY <1>3, ProgramFacts, ThenFacts DEF Sending, AfterFailure
<1> QED BY <1>1, <1>2, <1>3, ProcessFacts

\* A step that neither sends nor receives.
LEMMA IdleShape ==
    ASSUME Typed, NEW q \in Processes, OthersStay(q),
           ctl'[q] = ctl[q], net' = net, At(q)' \notin Sending,
           q = "client" /\ At(q) \in Ending => At(q)' \in Ending
    PROVE  Shape(q)
<1>1. Grown(q)
  BY SameGrown DEF Typed
<1>2. ctl[q].seq \in Nat
  BY TypeParts DEF Typed, Control
<1> QED BY <1>1, <1>2 DEF Shape, OwnControl, OwnQueue, InSend

\* q begins to send.
LEMMA SendsShape ==
    ASSUME Typed, NEW q, NEW p, NEW flag, NEW body,
           CanSend(q, ctl[q], net, p, flag, body),
           Sends(q, ctl[q], net, p, flag, body),
           OthersStay(q), q = "client" => At(q) \notin Ending
    PROVE  Shape(q)
<1> DEFINE c == ctl[q]
           d == Packet(c, flag, body)
<1>1. TypeOK /\ q \in Processes /\ c \in Control /\ net \in NetType
      /\ flag \in {"DATA", "ACK", "FIN"} /\ flag # "ACK" /\ body \in Nat
      /\ p \in Program[q] /\ p \in Sending
  BY DEF Typed, CanSend
<1>0. Begun(q, c, net, p, flag, body)
  BY TypedParts, SendsBegun
<1>2. /\ ctl' \in [Processes -> Control]
      /\ ctl'[q].seq = c.seq + Size(flag) /\ ctl'[q].ack = c.ack
      /\ net' = Put(net, Peer(q), d)
  BY <1>0 DEF Begun
<1>3. /\ errno'[q] = "EAGAIN" => At(q)' = AfterFailure(q, p)
      /\ errno'[q] # "EAGAIN" => call'[q].pkt = d
  <2>1. /\ errno'[q] = "EAGAIN" => call'[q] = Place(AfterFailure(q, p))
        /\ errno'[q] # "EAGAIN" => call'[q] = [at |-> p, i |-> 0, pkt |-> d]
    BY <1>0 DEF Begun
  <2> QED BY <2>1 DEF Place, At
<1>4. d \in Datagram /\ d.flag # "ACK" /\ CountedIn(ctl'[q], d)
  <2>1. ctl'[q] \in Control /\ ctl'[q].seq >= c.seq + Size(flag)
    BY <1>1, <1>2, SizeType DEF Control
  <2>2. d \in Datagram /\ d.flag = flag
    BY <1>1, PacketType
  <2>3. CountedIn(ctl'[q], d)
    BY <1>1, <2>1, CountedFacts
  <2> QED BY <1>1, <2>2, <2>3
<1>5. Grown(q) /\ net'[Socket(q)] = net[Socket(q)]
  <2>1. FreshNow(q, d)
    BY <1>4 DEF FreshNow
  <2> QED BY <1>1, <1>2, <1>4, <2>1, PutShape DEF Begins
<1>6. ctl'[q].seq >= ctl[q].seq
  BY <1>1, <1>2, SizeType DEF Control
<1>7. InSend(q)' => CountedIn(ctl'[q], call'[q].pkt) /\ call'[q].pkt.flag # "ACK"
  BY <1>1, <1>3, <1>4, NextRests DEF InSend
<1> QED BY <1>2, <1>5, <1>6, <1>7 DEF Shape, OwnControl, OwnQueue

\* The acknowledgement that rudp_recv sends.
LEMMA AckedShape ==
    ASSUME Typed, NEW q \in Processes, net[Socket(q)] # <<>>,
           ctl' \in [Processes -> Control],
           ctl'[q].ack = Noted(q).ack, ctl'[q].seq >= ctl[q].seq
    PROVE  /\ Begins(net[Peer(q)], Acked(q)[Peer(q)])
           /\ \A i \in 1..Len(Acked(q)[Peer(q)]) :
                 \/ \E j \in 1..Len(net[Peer(q)]) :
                       Acked(q)[Peer(q)][i] = net[Peer(q)][j]
                 \/ FreshNow(q, Acked(q)[Peer(q)][i])
           /\ net[Peer(q)] # <<>> => /\ Acked(q)[Peer(q)] # <<>>
                                     /\ Head(Acked(q)[Peer(q)]) = Head(net[Peer(q)])
<1> DEFINE s == Peer(q)
           a == Packet(Noted(q), "ACK", 0)
<1>1. TypeOK /\ s \in Sockets
  BY ProcessFacts DEF Typed
<1>2. /\ Noted(q) \in Control /\ Noted(q).seq = ctl[q].seq /\ a \in Datagram
  BY <1>1, NotedFacts
<1>3. a.ack = Noted(q).ack /\ a.flag = "ACK" /\ a.seq = ctl[q].seq
  BY <1>2, PacketType
<1>4. FreshNow(q, a)
  <2>1. ctl'[q] \in Control
    OBVIOUS
  <2>2. CountedIn(ctl'[q], a)
    BY <1>2, <2>1, CountedFacts
  <2> QED BY <1>3, <2>2 DEF FreshNow
<1>5. Acked(q)[s] \in {net[s], Append(net[s], a)}
  BY <1>1, AckedFacts
<1>6. net[s] \in Seq(Datagram)
  BY <1>1, TypeParts DEF NetType
<1>7. CASE Acked(q)[s] = net[s]
  BY <1>7 DEF Begins
<1>8. CASE Acked(q)[s] = Append(net[s], a)
  <2> HIDE DEF a, s
  <2>1. /\ Len(Append(net[s], a)) = Len(net[s]) + 1 /\ Len(net[s]) \in Nat
        /\ \A i \in 1..Len(net[s]) : Append(net[s], a)[i] = net[s][i]
        /\ Append(net[s], a)[Len(net[s]) + 1] = a
        /\ Append(net[s], a) \in Seq(Datagram) /\ Append(net[s], a) # <<>>
    BY <1>2, <1>6, AppendProperties, LenProperties
  <2>2. \A i \in 1..(Len(net[s]) + 1) :
            \/ \E j \in 1..Len(net[s]) : Append(net[s], a)[i] = net[s][j]
            \/ FreshNow(q, Append(net[s], a)[i])
    <3> TAKE i \in 1..(Len(net[s]) + 1)
    <3>1. CASE i \in 1..Len(net[s])
      BY <2>1, <3>1
    <3>2. CASE i = Len(net[s]) + 1
      BY <1>4, <2>1, <3>2
    <3> QED BY <2>1, <3>1, <3>2
  <2>3. net[s] # <<>> => Head(Append(net[s], a)) = Head(net[s])
    <3> SUFFICES ASSUME net[s] # <<>> PROVE Head(Append(net[s], a)) = Head(net[s])
      OBVIOUS
    <3>1. Head(net[s]) = net[s][1] /\ Len(net[s]) > 0
      BY <1>6, EmptySeq, LenProperties
    <3>2. Head(Append(net[s], a)) = Append(net[s], a)[1]
      BY <2>1, HeadTailProperties
    <3> QED BY <2>1, <3>1, <3>2
  <2>4. /\ \A i \in 1..Len(Acked(q)[s]) :
            \/ \E j \in 1..Len(net[s]) : Acked(q)[s][i] = net[s][j]
            \/ FreshNow(q, Acked(q)[s][i])
        /\ net[s] # <<>> => Acked(q)[s] # <<>> /\ Head(Acked(q)[s]) = Head(net[s])
    BY <1>8, <2>1, <2>2, <2>3
  <2>5. Begins(net[s], Acked(q)[s])
    BY <1>2, <1>6, <1>8, AppendBegins
  <2> QED BY <2>4, <2>5 DEF s
<1> QED BY <1>5, <1>7, <1>8

\* rudp_recv returns, and q calls nothing at once.
LEMMA PassesShape ==
    ASSUME Typed, NEW q \in Processes, net[Socket(q)] # <<>>, InRecv(q),
           ctl' \in [Processes -> Control], ctl'[q] = Noted(q), net' = Acked(q),
           At(q)' \notin Sending, OthersStay(q),
           q = "client" => Arrived(q).flag = "DATA" \/ At(q)' \in Ending
    PROVE  Shape(q)
<1>1. TypeOK
  BY DEF Typed
<1>2. /\ Noted(q) \in Control /\ Noted(q).seq = ctl[q].seq
      /\ Noted(q).ack = IF Arrived(q).seq = ctl[q].ack
                        THEN ctl[q].ack + Size(Arrived(q).flag)
                        ELSE ctl[q].ack
  BY <1>1, NotedFacts
<1>3. ctl'[q].seq >= ctl[q].seq
  BY <1>1, <1>2, TypeParts DEF Control
<1>4. Grown(q)
  BY <1>3, AckedShape DEF Grown
<1>5. net'[Socket(q)] = Tail(net[Socket(q)])
  BY <1>1, AckedFacts
<1>6. At(q) \notin Ending
  BY DEF InRecv, Receiving, Ending
<1> QED BY <1>2, <1>3, <1>4, <1>5, <1>6 DEF Shape, OwnControl, OwnQueue, InSend

\* rudp_recv returns, and q sends at once.
LEMMA RecvSendsShape ==
    ASSUME Typed, NEW q, NEW p, NEW flag, NEW body, net[Socket(q)] # <<>>, InRecv(q),
           CanSend(q, Noted(q), Acked(q), p, flag, body),
           Sends(q, Noted(q), Acked(q), p, flag, body), OthersStay(q),
           q = "client" => Arrived(q).flag = "DATA" \/ p = "close2"
    PROVE  Shape(q)
<1> DEFINE c == Noted(q)
           d == Packet(c, flag, body)
<1>1. TypeOK /\ q \in Processes /\ c \in Control /\ Acked(q) \in NetType
      /\ flag \in {"DATA", "ACK", "FIN"} /\ flag # "ACK" /\ body \in Nat
      /\ p \in Program[q] /\ p \in Sending
  BY DEF Typed, CanSend
<1>0. Begun(q, c, Acked(q), p, flag, body)
  BY TypedParts, SendsBegun
<1>2. /\ ctl' \in [Processes -> Control]
      /\ ctl'[q].seq = c.seq + Size(flag) /\ ctl'[q].ack = c.ack
      /\ net' = Put(Acked(q), Peer(q), d)
      /\ At(q)' \in {p, AfterFailure(q, p)}
  BY <1>0 DEF Begun
<1>3. /\ errno'[q] = "EAGAIN" => At(q)' = AfterFailure(q, p)
      /\ errno'[q] # "EAGAIN" => call'[q].pkt = d
  <2>1. /\ errno'[q] = "EAGAIN" => call'[q] = Place(AfterFailure(q, p))
        /\ errno'[q] # "EAGAIN" => call'[q] = [at |-> p, i |-> 0, pkt |-> d]
    BY <1>0 DEF Begun
  <2> QED BY <2>1 DEF Place, At
<1>4. /\ c.seq = ctl[q].seq
      /\ c.ack = IF Arrived(q).seq = ctl[q].ack
                 THEN ctl[q].ack + Size(Arrived(q).flag)
                 ELSE ctl[q].ack
  BY <1>1, NotedFacts
<1>5. d \in Datagram /\ d.flag # "ACK" /\ CountedIn(ctl'[q], d)
  <2>1. ctl'[q] \in Control /\ ctl'[q].seq >= c.seq + Size(flag)
    BY <1>1, <1>2, SizeType DEF Control
  <2>2. d \in Datagram /\ d.flag = flag
    BY <1>1, PacketType
  <2>3. CountedIn(ctl'[q], d)
    BY <1>1, <2>1, CountedFacts
  <2> QED BY <1>1, <2>2, <2>3
<1>6. ctl'[q].seq >= ctl[q].seq
  <2>1. ctl[q].seq \in Nat /\ Size(flag) \in Nat
    BY <1>1, TypeParts, SizeType DEF Control
  <2> QED BY <1>2, <1>4, <2>1
<1>7. Grown(q) /\ net'[Socket(q)] = Acked(q)[Socket(q)]
  <2>1. FreshNow(q, d)
    BY <1>5 DEF FreshNow
  <2>2. /\ Begins(net[Peer(q)], Acked(q)[Peer(q)])
        /\ \A i \in 1..Len(Acked(q)[Peer(q)]) :
              \/ \E j \in 1..Len(net[Peer(q)]) :
                    Acked(q)[Peer(q)][i] = net[Peer(q)][j]
              \/ FreshNow(q, Acked(q)[Peer(q)][i])
        /\ net[Peer(q)] # <<>> => /\ Acked(q)[Peer(q)] # <<>>
                                  /\ Head(Acked(q)[Peer(q)]) = Head(net[Peer(q)])
    BY <1>1, <1>2, <1>6, AckedShape
  <2> QED BY <1>1, <1>2, <1>5, <2>1, <2>2, PutShape
<1>8. net'[Socket(q)] = Tail(net[Socket(q)])
  BY <1>1, <1>7, AckedFacts
<1>9. InSend(q)' => CountedIn(ctl'[q], call'[q].pkt) /\ call'[q].pkt.flag # "ACK"
  BY <1>1, <1>3, <1>5, NextRests DEF InSend
<1>10. At(q) \notin Ending
  BY DEF InRecv, Receiving, Ending
<1>11. q = "client" /\ Arrived(q).flag = "ACK" => At(q)' \in Ending
  BY <1>1, <1>2, NextRests DEF Ending
<1>12. \/ ctl'[q].ack = ctl[q].ack
       \/ /\ Arrived(q).seq = ctl[q].ack
          /\ ctl'[q].ack = ctl[q].ack + Size(Arrived(q).flag)
  BY <1>2, <1>4
<1>13. OwnControl(q)
  BY <1>6, <1>9, <1>10, <1>11, <1>12 DEF OwnControl
<1> QED BY <1>7, <1>8, <1>13 DEF Shape, OwnQueue

\* A try more, or the end of the call.
LEMMA RetryShape ==
    ASSUME Typed, SendsCounted, NEW q \in Processes, InSend(q), NEW n \in NetType,
           n[Peer(q)] = net[Peer(q)],
           \/ n[Socket(q)] = net[Socket(q)]
           \/ net[Socket(q)] # <<>> /\ n[Socket(q)] = Tail(net[Socket(q)]),
           Retry(q, n), ctl' = ctl, OthersStay(q)
    PROVE  Shape(q)
<1>1. TypeOK /\ At(q) \in Program[q] /\ At(q) \in Sending
  BY DEF Typed, InProgram, InSend
<1>2. CountedIn(ctl'[q], call[q].pkt) /\ call[q].pkt.flag # "ACK"
      /\ call[q].pkt \in Datagram /\ ctl[q].seq \in Nat
  BY <1>1, TypeParts DEF SendsCounted, Call, Control
<1>3. /\ call[q].pkt.flag # "ACK"
      /\ \/ /\ At(q)' = At(q) /\ call'[q].pkt = call[q].pkt
            /\ net' = Put(n, Peer(q), call[q].pkt)
         \/ At(q)' = AfterFailure(q, At(q)) /\ net' = n
  BY <1>1, <1>2, RetryFacts
<1>4. Grown(q) /\ net'[Socket(q)] = n[Socket(q)]
  <2>1. FreshNow(q, call[q].pkt)
    BY <1>2 DEF FreshNow
  <2>2. CASE net' = Put(n, Peer(q), call[q].pkt)
    BY <1>1, <1>2, <2>1, <2>2, PutShape DEF Begins
  <2>3. CASE net' = n
    BY <1>1, <2>3, SameGrown
  <2> QED BY <1>3, <2>2, <2>3
<1>5. InSend(q)' => CountedIn(ctl'[q], call'[q].pkt) /\ call'[q].pkt.flag # "ACK"
  BY <1>1, <1>2, <1>3, NextRests DEF InSend
<1>6. q = "client" /\ At(q) \in Ending => At(q)' \in Ending
  BY <1>1, <1>3, NextRests DEF Ending, Sending
<1> QED BY <1>2, <1>4, <1>5, <1>6 DEF Shape, OwnControl, OwnQueue

-----------------------------------------------------------------------------
(* What a step of one process means for the invariant.                      *)

\* No other process is concerned.
Alone(q) ==
    \A r \in Processes :
        r # q => call'[r] = call[r] /\ ctl'[r] = ctl[r] /\ todo'[r] = todo[r]

\* The handshake's numbers, and the kid's.
InStep(q) ==
    /\ q = "server" =>
          /\ At(q)' = "recvKey" => At(q) = "recvKey" /\ ctl'[q].seq = ctl[q].seq
          /\ At(q)' = "sendKey" =>
                \/ At(q) = "sendKey" /\ ctl'[q].seq = ctl[q].seq
                \/ At(q) = "recvKey" /\ ctl'[q].seq = ctl[q].seq + Size("DATA")
          /\ At(q)' = "recvName" =>
                At(q) \in {"sendKey", "recvName"} /\ ctl'[q].seq = ctl[q].seq
    /\ q = "kid" =>
          /\ At(q) # "none" /\ At(q)' # "none"
          /\ At(q)' \in {"login", "shell"} =>
                At(q) \in {"login", "shell"} /\ ctl'[q] = ctl[q]
          /\ At(q)' \in {"close0", "close1", "drain"} => GaveUp'
          /\ net' = net \/ GaveUp'

\* What q's poll has seen.
SeenOwn(q) ==
    "socket" \in todo'[q] \/ At(q)' = "recv" =>
        \/ q = "server" /\ Taken'
        \/ /\ net'[Socket(q)] # <<>>
           /\ At(q)' # "send" \/ ~Answers(q, Arrived(q))'

Effect(q) ==
    /\ Alone(q) /\ Shape(q) /\ InStep(q) /\ SeenOwn(q)
    /\ mishaps \subseteq mishaps' /\ CrashHasCause'

IInv == TypeOK /\ CrashInv

LEMMA IInvParts ==
    IInv => /\ Typed /\ TypeOK /\ InProgram /\ KidInStep /\ SendsCounted
            /\ AcksBehind /\ SeenStays /\ CrashHasCause
  BY DEF IInv, CrashInv, Typed

LEMMA AloneStay ==
    ASSUME NEW q \in Processes, Alone(q) PROVE OthersStay(q)
  BY ProcessFacts DEF Alone, OthersStay

LEMMA KidGrows ==
    ASSUME TypeOK, NEW q \in Processes, Alone(q), OwnControl(q)
    PROVE  ctl'["kid"].seq >= ctl["kid"].seq /\ ctl["kid"].seq \in Nat
  BY ProcessFacts, TypeParts DEF Alone, OwnControl, Control

\* What is over stays so.
LEMMA GaveUpStays ==
    ASSUME TypeOK, TypeOK', ctl'["kid"].seq >= ctl["kid"].seq
    PROVE  /\ GaveUp => GaveUp'
           /\ mishaps \subseteq mishaps' => (Taken => Taken')
<1>1. GaveUp => GaveUp'
  <2>1. ctl["kid"].seq \in Nat /\ ctl'["kid"].seq \in Nat
    BY ProcessFacts DEF TypeOK, Control
  <2>2. Hdr + Size("DATA") \in Nat
    BY SizeType
  <2> QED BY <2>1, <2>2 DEF GaveUp
<1>2. ASSUME mishaps \subseteq mishaps', Taken PROVE Taken'
  BY <1>1, <1>2 DEF Taken, Mishaps
<1> QED BY <1>1, <1>2

LEMMA CrashSame ==
    ASSUME CrashHasCause, crashed' = crashed, Taken => Taken'
    PROVE  CrashHasCause'
  BY DEF CrashHasCause, Taken

LEMMA EffectKid ==
    ASSUME IInv, NEW q \in Processes, Effect(q), TypeOK'
    PROVE  KidInStep'
<1>1. TypeOK /\ KidInStep /\ Alone(q) /\ InStep(q) /\ OwnControl(q)
  BY IInvParts DEF Effect, Shape
<1>2. GaveUp => GaveUp'
  BY <1>1, KidGrows, GaveUpStays
<1>3. CASE q = "client"
  <2>1. /\ At("server")' = At("server") /\ At("kid")' = At("kid")
        /\ ctl'["server"] = ctl["server"] /\ ctl'["kid"] = ctl["kid"]
    BY <1>1, <1>3, ProcessFacts DEF Alone, At
  <2> QED BY <1>1, <2>1 DEF KidInStep, GaveUp
<1>4. CASE q = "server"
  <2>1. At("kid")' = At("kid") /\ ctl'["kid"] = ctl["kid"]
    BY <1>1, <1>4, ProcessFacts DEF Alone, At
  <2> QED BY <1>1, <1>4, <2>1 DEF KidInStep, GaveUp, InStep
<1>5. CASE q = "kid"
  <2>1. At("server")' = At("server") /\ ctl'["server"] = ctl["server"]
    BY <1>1, <1>5, ProcessFacts DEF Alone, At
  <2>2. At("server") \in {"recvKey", "sendKey", "recvName"} => At("kid") = "none"
    BY <1>1 DEF KidInStep
  <2> QED BY <1>1, <1>5, <2>1 DEF KidInStep, GaveUp, InStep
<1> QED BY <1>3, <1>4, <1>5, ProcessFacts

LEMMA EffectCounted ==
    ASSUME IInv, NEW q \in Processes, Effect(q)
    PROVE  SendsCounted'
<1>1. SendsCounted /\ Alone(q) /\ OwnControl(q)
  BY IInvParts DEF Effect, Shape
<1>2. \A r \in Processes : r # q =>
          call'[r] = call[r] /\ ctl'[r] = ctl[r] /\ (InSend(r)' <=> InSend(r))
  BY <1>1 DEF Alone, InSend, At
<1>3. ASSUME NEW r \in Processes, InSend(r)'
      PROVE  CountedIn(ctl'[r], call'[r].pkt) /\ call'[r].pkt.flag # "ACK"
  <2>1. CASE r = q
    BY <1>1, <1>3, <2>1 DEF OwnControl
  <2>2. CASE r # q
    BY <1>1, <1>2, <1>3, <2>2 DEF SendsCounted
  <2> QED BY <2>1, <2>2
<1> QED BY <1>3 DEF SendsCounted

LEMMA QueueType ==
    ASSUME TypeOK, NEW s \in Sockets
    PROVE  /\ net[s] \in Seq(Datagram) /\ Len(net[s]) \in Nat
           /\ \A i \in 1..Len(net[s]) : net[s][i] \in Datagram
           /\ net[s] # <<>> => /\ Len(net[s]) > 0 /\ Head(net[s]) = net[s][1]
                               /\ 1 \in 1..Len(net[s])
                               /\ Len(Tail(net[s])) = Len(net[s]) - 1
                               /\ \A i \in 1..Len(Tail(net[s])) :
                                     /\ i + 1 \in 1..Len(net[s])
                                     /\ Tail(net[s])[i] = net[s][i + 1]
<1>1. net[s] \in Seq(Datagram)
  BY TypeParts DEF NetType
<1>2. Len(net[s]) \in Nat /\ \A i \in 1..Len(net[s]) : net[s][i] \in Datagram
  BY <1>1, ElementOfSeq, LenProperties
<1>3. ASSUME net[s] # <<>>
      PROVE  /\ Len(net[s]) > 0 /\ Head(net[s]) = net[s][1]
             /\ 1 \in 1..Len(net[s])
             /\ Len(Tail(net[s])) = Len(net[s]) - 1
             /\ \A i \in 1..Len(Tail(net[s])) :
                   /\ i + 1 \in 1..Len(net[s])
                   /\ Tail(net[s])[i] = net[s][i + 1]
  <2>1. Len(net[s]) > 0
    BY <1>1, <1>2, <1>3, EmptySeq, LenProperties
  <2>2. /\ Len(Tail(net[s])) = Len(net[s]) - 1 /\ Head(net[s]) = net[s][1]
        /\ \A i \in 1..(Len(net[s]) - 1) : Tail(net[s])[i] = net[s][i + 1]
    BY <1>1, <1>3, HeadTailProperties
  <2> QED BY <1>2, <2>1, <2>2
<1> QED BY <1>1, <1>2, <1>3

\* What is left of a queue of its own.
LEMMA OwnQueueFrom ==
    ASSUME TypeOK, NEW q \in Processes, OwnQueue(q)
    PROVE  \A i \in 1..Len(net'[Socket(q)]) :
               \E j \in 1..Len(net[Socket(q)]) : net'[Socket(q)][i] = net[Socket(q)][j]
<1> DEFINE s == Socket(q)
<1>1. s \in Sockets
  BY ProcessFacts
<1>2. CASE net'[s] = net[s]
  BY <1>2
<1>3. CASE net[s] # <<>> /\ net'[s] = Tail(net[s])
  <2>1. \A i \in 1..Len(Tail(net[s])) :
            i + 1 \in 1..Len(net[s]) /\ Tail(net[s])[i] = net[s][i + 1]
    BY <1>1, <1>3, QueueType
  <2> QED BY <1>3, <2>1
<1> QED BY <1>2, <1>3 DEF OwnQueue

LEMMA ShapeAcks ==
    ASSUME TypeOK, TypeOK', AcksBehind, NEW q \in Processes, Shape(q),
           GaveUp => GaveUp',
           q = "kid" => net' = net \/ GaveUp'
    PROVE  AcksBehind'
<1>1. OthersStay(q) /\ OwnControl(q) /\ OwnQueue(q) /\ Grown(q)
  BY DEF Shape
<1> SUFFICES ASSUME ~GaveUp' PROVE AcksBehind'
  BY DEF AcksBehind
<1> DEFINE N == ctl["server"].seq
           C == IF At("client") \in Ending THEN Hdr ELSE 0
<1>3. /\ \A i \in 1..Len(net["client"]) : CountedIn(ctl["server"], net["client"][i])
      /\ ctl["client"].ack <= N + C
      /\ \A i \in 1..Len(net["server"]) :
            net["server"][i].flag = "ACK" => net["server"][i].ack <= N + Hdr
  BY DEF AcksBehind, Ending
<1>4. /\ ctl["server"] \in Control /\ ctl'["server"] \in Control
      /\ ctl["client"] \in Control /\ ctl'["client"] \in Control
      /\ N \in Nat /\ ctl'["server"].seq \in Nat /\ Hdr \in Nat /\ C \in Nat
      /\ ctl["client"].ack \in Nat /\ ctl'["client"].ack \in Nat
  <2>1. /\ ctl["server"] \in Control /\ ctl'["server"] \in Control
        /\ ctl["client"] \in Control /\ ctl'["client"] \in Control
    <3>1. ctl \in [Processes -> Control] /\ ctl' \in [Processes -> Control]
      BY DEF TypeOK
    <3> QED BY <3>1, ProcessFacts
  <2>2. Hdr \in Nat
    BY UdpAssumption
  <2> QED BY <2>1, <2>2 DEF Control
<1>5. SUFFICES
        /\ \A i \in 1..Len(net'["client"]) : CountedIn(ctl'["server"], net'["client"][i])
        /\ ctl'["client"].ack <= ctl'["server"].seq +
              (IF At("client")' \in Ending THEN Hdr ELSE 0)
        /\ \A i \in 1..Len(net'["server"]) :
              net'["server"][i].flag = "ACK" =>
                  net'["server"][i].ack <= ctl'["server"].seq + Hdr
  BY DEF AcksBehind, Ending
<1>6. /\ \A i \in 1..Len(net["client"]) : net["client"][i] \in Datagram
      /\ \A i \in 1..Len(net["server"]) : net["server"][i] \in Datagram
  BY <1>1, QueueType, ProcessFacts
<1>7. CASE q = "client"
  <2>1. ctl'["server"] = ctl["server"]
    BY <1>1, <1>7, ProcessFacts DEF OthersStay
  <2>2. \A i \in 1..Len(net'["client"]) : CountedIn(ctl'["server"], net'["client"][i])
    <3>1. \A i \in 1..Len(net'["client"]) :
              \E j \in 1..Len(net["client"]) : net'["client"][i] = net["client"][j]
      BY <1>1, <1>7, OwnQueueFrom, ProcessFacts
    <3> QED BY <1>3, <2>1, <3>1
  <2>3. ctl'["client"].ack <= N + (IF At("client")' \in Ending THEN Hdr ELSE 0)
    <3>1. CASE ctl'["client"].ack = ctl["client"].ack
      <4>1. At("client") \in Ending => At("client")' \in Ending
        BY <1>1, <1>7 DEF OwnControl
      <4> QED BY <1>3, <1>4, <3>1, <4>1
    <3>2. CASE /\ InRecv("client") /\ net["client"] # <<>>
               /\ Arrived("client").seq = ctl["client"].ack
               /\ ctl'["client"].ack =
                     ctl["client"].ack + Size(Arrived("client").flag)
               /\ Arrived("client").flag = "ACK" => At("client")' \in Ending
      <4> DEFINE d == net["client"][1]
      <4>1. Arrived("client") = d /\ d \in Datagram /\ 1 \in 1..Len(net["client"])
        BY <1>1, <3>2, QueueType, ProcessFacts DEF Arrived
      <4>2. CountedIn(ctl["server"], d)
        BY <1>3, <4>1
      <4>3. d.seq + (IF d.flag = "ACK" THEN 0 ELSE Size(d.flag)) <= N
        BY <4>2 DEF CountedIn
      <4>4. Size("ACK") = Hdr /\ Size(d.flag) \in Nat /\ d.seq \in Nat
        BY <4>1, SizeType DEF Size, Datagram
      <4> HIDE DEF d, N
      <4> QED BY <1>4, <3>2, <4>1, <4>3, <4>4
    <3> QED BY <1>1, <1>7, <3>1, <3>2, ProcessFacts DEF OwnControl
  <2>4. ctl'["client"].ack <= N + Hdr
    BY <1>4, <2>3
  <2>5. \A i \in 1..Len(net'["server"]) :
            net'["server"][i].flag = "ACK" => net'["server"][i].ack <= N + Hdr
    <3>1. \A i \in 1..Len(net'["server"]) :
              \/ \E j \in 1..Len(net["server"]) : net'["server"][i] = net["server"][j]
              \/ FreshNow("client", net'["server"][i])
      BY <1>1, <1>7, ProcessFacts DEF Grown
    <3> QED BY <1>3, <2>4, <3>1 DEF FreshNow
  <2> QED BY <2>1, <2>2, <2>3, <2>5
<1>8. CASE q = "server"
  <2>1. ctl'["client"] = ctl["client"] /\ At("client")' = At("client")
    BY <1>1, <1>8, ProcessFacts DEF OthersStay, At
  <2>2. ctl'["server"].seq >= N
    BY <1>1, <1>8 DEF OwnControl
  <2>3. \A i \in 1..Len(net'["client"]) : CountedIn(ctl'["server"], net'["client"][i])
    <3>1. \A i \in 1..Len(net'["client"]) :
              \/ \E j \in 1..Len(net["client"]) : net'["client"][i] = net["client"][j]
              \/ FreshNow("server", net'["client"][i])
      BY <1>1, <1>8, ProcessFacts DEF Grown
    <3>2. \A j \in 1..Len(net["client"]) : CountedIn(ctl'["server"], net["client"][j])
      BY <1>3, <1>4, <1>6, <2>2, CountedStays
    <3> QED BY <3>1, <3>2 DEF FreshNow
  <2>4. \A i \in 1..Len(net'["server"]) :
            net'["server"][i].flag = "ACK" =>
                net'["server"][i].ack <= ctl'["server"].seq + Hdr
    <3>1. \A i \in 1..Len(net'["server"]) :
              \E j \in 1..Len(net["server"]) : net'["server"][i] = net["server"][j]
      BY <1>1, <1>8, OwnQueueFrom, ProcessFacts
    <3>2. \A j \in 1..Len(net["server"]) : net["server"][j].ack \in Nat
      BY <1>6 DEF Datagram
    <3> HIDE DEF N
    <3>3. \A j \in 1..Len(net["server"]) :
              net["server"][j].flag = "ACK" =>
                  net["server"][j].ack <= ctl'["server"].seq + Hdr
      BY <1>3, <1>4, <2>2, <3>2
    <3> QED BY <3>1, <3>3
  <2>5. ctl'["client"].ack <= ctl'["server"].seq +
            (IF At("client")' \in Ending THEN Hdr ELSE 0)
    <3> HIDE DEF N
    <3> QED BY <1>3, <1>4, <2>1, <2>2
  <2> QED BY <2>3, <2>4, <2>5
<1>9. CASE q = "kid"
  <2>1. net' = net
    BY <1>9
  <2>2. /\ ctl'["client"] = ctl["client"] /\ At("client")' = At("client")
        /\ ctl'["server"] = ctl["server"]
    BY <1>1, <1>9, ProcessFacts DEF OthersStay, At
  <2> QED BY <1>3, <2>1, <2>2
<1> QED BY <1>7, <1>8, <1>9, ProcessFacts

LEMMA EffectAcks ==
    ASSUME IInv, NEW q \in Processes, Effect(q), TypeOK'
    PROVE  AcksBehind'
<1>1. TypeOK /\ AcksBehind /\ Alone(q) /\ InStep(q) /\ Shape(q)
  BY IInvParts DEF Effect
<1>2. GaveUp => GaveUp'
  BY <1>1, KidGrows, GaveUpStays DEF Shape
<1>3. q = "kid" => net' = net \/ GaveUp'
  BY <1>1 DEF InStep
<1> QED BY <1>1, <1>2, <1>3, ShapeAcks

LEMMA EffectSeen ==
    ASSUME IInv, NEW q \in Processes, Effect(q), TypeOK'
    PROVE  SeenStays'
<1>1. TypeOK /\ InProgram /\ SeenStays /\ Alone(q) /\ InStep(q) /\ OwnControl(q)
      /\ Grown(q) /\ SeenOwn(q)
  BY IInvParts DEF Effect, Shape
<1>2. Taken => Taken'
  BY <1>1, KidGrows, GaveUpStays DEF Effect
<1>3. CASE q = "client"
  <2>1. /\ At("server")' = At("server") /\ todo'["server"] = todo["server"]
        /\ ctl'["server"] = ctl["server"]
    BY <1>1, <1>3, ProcessFacts DEF Alone, At
  <2>2. net["server"] # <<>> => /\ net'["server"] # <<>>
                                /\ Head(net'["server"]) = Head(net["server"])
    BY <1>1, <1>3, ProcessFacts DEF Grown
  <2>3. "socket" \in todo'["client"] \/ At("client")' = "recv" =>
            net'["client"] # <<>>
    BY <1>1, <1>3, ProcessFacts DEF SeenOwn
  <2>4. /\ Arrived("server") = Head(net["server"])
        /\ Arrived("server")' = Head(net'["server"])
    BY ProcessFacts DEF Arrived
  <2>5. "socket" \in todo'["server"] /\ At("server")' = "send" =>
            Taken' \/ ~Answers("server", Arrived("server"))'
    BY <1>1, <1>2, <2>1, <2>2, <2>4 DEF SeenStays, Answers
  <2> QED BY <1>1, <1>2, <2>1, <2>2, <2>3, <2>5 DEF SeenStays
<1>4. CASE q = "server"
  <2>1. At("client")' = At("client") /\ todo'["client"] = todo["client"]
    BY <1>1, <1>4, ProcessFacts DEF Alone, At
  <2>2. net["client"] # <<>> => net'["client"] # <<>>
    BY <1>1, <1>4, ProcessFacts DEF Grown
  <2>3. "socket" \in todo'["server"] \/ At("server")' = "recv" =>
            \/ Taken'
            \/ /\ net'["server"] # <<>>
               /\ At("server")' # "send" \/ ~Answers("server", Arrived("server"))'
    BY <1>1, <1>4, ProcessFacts DEF SeenOwn
  <2> QED BY <1>1, <2>1, <2>2, <2>3 DEF SeenStays
<1>5. CASE q = "kid"
  <2>1. /\ At("server")' = At("server") /\ todo'["server"] = todo["server"]
        /\ At("client")' = At("client") /\ todo'["client"] = todo["client"]
        /\ ctl'["server"] = ctl["server"]
    BY <1>1, <1>5, ProcessFacts DEF Alone, At
  <2>2. net["client"] # <<>> => net'["client"] # <<>>
    BY <1>1, <1>5, ProcessFacts DEF Grown
  <2>3. net' = net \/ Taken'
    BY <1>1, <1>5 DEF InStep, Taken
  <2>4. net' = net => Arrived("server")' = Arrived("server")
    BY DEF Arrived
  <2> QED BY <1>1, <1>2, <2>1, <2>2, <2>3, <2>4 DEF SeenStays, Answers
<1> QED BY <1>3, <1>4, <1>5, ProcessFacts

LEMMA EffectKeeps ==
    ASSUME IInv, NEW q \in Processes, Effect(q), Typed'
    PROVE  IInv'
<1>1. TypeOK' /\ InProgram'
  BY DEF Typed
<1>2. KidInStep' /\ SendsCounted' /\ AcksBehind' /\ SeenStays'
  BY <1>1, EffectKid, EffectCounted, EffectAcks, EffectSeen
<1>3. CrashHasCause'
  BY DEF Effect
<1> QED BY <1>1, <1>2, <1>3 DEF IInv, CrashInv

-----------------------------------------------------------------------------
(* The steps of rudp.c.                                                     *)

\* A step that sends nothing.
LEMMA TakesShape ==
    ASSUME Typed, NEW q \in Processes, OthersStay(q), ctl'[q] = ctl[q],
           net'[Peer(q)] = net[Peer(q)], OwnQueue(q), At(q)' \notin Sending,
           q = "client" /\ At(q) \in Ending => At(q)' \in Ending
    PROVE  Shape(q)
<1>1. Grown(q)
  BY SameGrown DEF Typed
<1>2. ctl[q].seq \in Nat
  BY TypeParts DEF Typed, Control
<1> QED BY <1>1, <1>2 DEF Shape, OwnControl, InSend

\* Who sends or receives for the kid has given up.
LEMMA KidBusy ==
    ASSUME IInv, InSend("kid") \/ InRecv("kid")
    PROVE  GaveUp /\ At("kid") \in {"close0", "close1", "drain"}
<1>1. At("kid") \in Program["kid"] /\ KidInStep
  BY IInvParts, ProcessFacts DEF InProgram
<1>2. At("kid") \in {"close0", "close1", "drain"}
  BY <1>1, ProgramFacts DEF InSend, InRecv, Sending, Receiving
<1> QED BY <1>1, <1>2 DEF KidInStep

LEMMA ShapeKeeps ==
    ASSUME IInv, TypeOK', NEW q \in Processes, Alone(q), Shape(q),
           mishaps \subseteq mishaps'
    PROVE  (GaveUp => GaveUp') /\ (Taken => Taken')
<1>1. ctl'["kid"].seq >= ctl["kid"].seq
  BY IInvParts, KidGrows DEF Shape
<1> QED BY <1>1, GaveUpStays, IInvParts

\* A step inside a call that sends.
LEMMA SendingEffect ==
    ASSUME IInv, TypeOK', NEW q \in Processes, InSend(q),
           At(q)' \in {At(q), Then[q][At(q)], AfterFailure(q, At(q))},
           Alone(q), Shape(q), ctl' = ctl, todo' = todo,
           mishaps \subseteq mishaps', crashed' = crashed,
           q = "server" /\ "socket" \in todo[q] =>
               \/ Taken'
               \/ At(q)' # "send" /\ net'[Socket(q)] # <<>>
    PROVE  Effect(q)
<1>1. (GaveUp => GaveUp') /\ (Taken => Taken')
  BY ShapeKeeps
<1>2. InProgram /\ At(q) \in Program[q] /\ At(q) \in Sending /\ CrashHasCause
  BY IInvParts DEF InProgram, InSend
<1>3. CrashHasCause'
  BY <1>1, <1>2, CrashSame
<1>4. SeenOwn(q)
  <2>1. At(q)' # "recv"
    BY <1>2, NextRests DEF Sending
  <2>2. q = "client" => "socket" \notin todo'[q]
    BY <1>2 DEF InProgram, Sending
  <2>3. q = "kid" => "socket" \notin todo'[q]
    BY <1>2 DEF InProgram
  <2> QED BY <2>1, <2>2, <2>3, ProcessFacts DEF SeenOwn
<1>5. InStep(q)
  <2>1. CASE q = "client"
    BY <2>1 DEF InStep
  <2>2. CASE q = "server"
    <3>1. At(q) \in {"sendKey", "send", "close1", "close2"}
      BY <1>2, <2>2, NextPlaces
    <3>2. AfterFailure("server", "sendKey") = "exit"
          /\ AfterFailure("server", "send") = "loop"
          /\ AfterFailure("server", "close1") = "drain"
          /\ AfterFailure("server", "close2") = "kill"
      BY ThenFacts DEF AfterFailure
    <3>3. /\ At(q)' # "recvKey"
          /\ At(q)' = "sendKey" => At(q) = "sendKey"
          /\ At(q)' = "recvName" => At(q) = "sendKey"
      BY <2>2, <3>1, <3>2, ThenFacts
    <3> QED BY <2>2, <3>3 DEF InStep
  <2>3. CASE q = "kid"
    <3>1. GaveUp /\ At(q) \in {"close0", "close1", "drain"}
      BY <2>3, KidBusy
    <3>2. AfterFailure("kid", "close1") = "drain" /\ AfterFailure("kid", "close0") = "exit"
      BY ThenFacts DEF AfterFailure
    <3>3. At(q)' \in {"close0", "close1", "drain", "exit"}
      BY <1>2, <2>3, <3>1, <3>2, ThenFacts DEF Sending
    <3> QED BY <1>1, <2>3, <3>1, <3>3 DEF InStep
  <2> QED BY <2>1, <2>2, <2>3, ProcessFacts
<1> QED BY <1>3, <1>4, <1>5 DEF Effect

LEMMA AnswerEffect ==
    ASSUME IInv, Typed', NEW q \in Processes, Answer(q) PROVE Effect(q)
<1>1. /\ Typed /\ TypeOK /\ TypeOK' /\ SendsCounted /\ SeenStays
      /\ InSend(q) /\ net[Socket(q)] # <<>>
      /\ At(q) \in Program[q] /\ At(q) \in Sending
  BY IInvParts DEF Typed, Answer, InProgram, InSend
<1>2. /\ Then[q][At(q)] \in Places /\ Then[q][At(q)] \notin Sending
  BY <1>1, NextPlaces, ProgramPlaces, NextRests
<1>3. UNCHANGED <<ctl, errno, todo, chld, pty, cipher, crashed, faults>>
  BY DEF Answer
<1>4. /\ Rest(q) \in NetType /\ Arrived(q) \in Datagram
      /\ Rest(q)[Socket(q)] = Tail(net[Socket(q)])
      /\ Rest(q)[Peer(q)] = net[Peer(q)]
  BY <1>1, ArrivedFacts
<1>5. CASE Answers(q, Arrived(q))
  <2>1. Goto(q, Then[q][At(q)]) /\ net' = Rest(q) /\ UNCHANGED mishaps
    BY <1>5 DEF Answer
  <2>2. /\ At(q)' = Then[q][At(q)]
        /\ \A r \in Processes : r # q => call'[r] = call[r]
    BY <1>1, <1>2, <2>1, GotoFacts
  <2>3. Alone(q)
    BY <1>3, <2>2 DEF Alone
  <2>4. q = "client" /\ At(q) \in Ending => At(q)' \in Ending
    BY <1>1, <2>2, NextRests DEF Ending, Sending
  <2>5. Shape(q)
    BY <1>1, <1>2, <1>3, <1>4, <2>1, <2>2, <2>3, <2>4, AloneStay, TakesShape
       DEF OwnQueue
  <2>6. q = "server" /\ "socket" \in todo[q] => Taken'
    <3> SUFFICES ASSUME q = "server", "socket" \in todo[q] PROVE Taken'
      OBVIOUS
    <3>1. At(q) = "send"
      BY <1>1, IInvParts DEF InProgram, Sending
    <3>2. Taken
      BY <1>1, <1>5, <3>1 DEF SeenStays
    <3> QED BY <1>1, <2>1, <2>3, <2>5, <3>2, ShapeKeeps
  <2> QED BY <1>1, <1>3, <2>1, <2>2, <2>3, <2>5, <2>6, SendingEffect
<1>6. CASE ~Answers(q, Arrived(q))
  <2>1. Retry(q, Rest(q)) /\ Mishap(q, Arrived(q).flag)
    BY <1>6 DEF Answer
  <2>2. /\ \A r \in Processes : r # q => call'[r] = call[r]
        /\ At(q)' \in {At(q), AfterFailure(q, At(q))}
    BY <1>1, <1>4, <2>1, RetryFacts
  <2>3. Alone(q)
    BY <1>3, <2>2 DEF Alone
  <2>4. Shape(q)
    BY <1>1, <1>3, <1>4, <2>1, <2>3, AloneStay, RetryShape
  <2>5. mishaps' = mishaps \cup {<<q, Arrived(q).flag>>}
    BY <2>1 DEF Mishap
  <2>6. Arrived(q).flag \in {"DATA", "ACK", "FIN"}
    BY <1>4 DEF Datagram
  <2>7. q = "server" => Taken'
    <3> SUFFICES ASSUME q = "server" PROVE Taken'
      OBVIOUS
    <3>1. <<q, Arrived(q).flag>> \in mishaps' \cap ({"server"} \X {"DATA", "ACK", "FIN"})
      BY <2>5, <2>6
    <3> QED BY <3>1 DEF Taken, Mishaps
  <2> QED BY <1>1, <1>3, <2>2, <2>3, <2>4, <2>5, <2>7, SendingEffect
<1> QED BY <1>5, <1>6

LEMMA ExpiresMore ==
    ASSUME NEW q, Expires(q) PROVE mishaps \subseteq mishaps'
  BY DEF Expires, Fault, Mishap

\* What poll has seen does not come late.
LEMMA ExpiresEmpty ==
    ASSUME NEW q \in Processes, Expires(q), At(q) = "recv"
    PROVE  net[Socket(q)] = <<>>
  BY DEF Expires, Quiet, Seen

LEMMA SendTimeoutEffect ==
    ASSUME IInv, Typed', NEW q \in Processes, SendTimeout(q) PROVE Effect(q)
<1>1. /\ Typed /\ TypeOK /\ TypeOK' /\ SeenStays
      /\ InSend(q) /\ Fail(q)
      /\ At(q) \in Program[q] /\ At(q) \in Sending
      /\ UNCHANGED <<ctl, net, todo, chld, pty, cipher, crashed>>
  BY IInvParts DEF Typed, SendTimeout, InProgram, InSend
<1>2. /\ \A r \in Processes : r # q => call'[r] = call[r]
      /\ At(q)' = AfterFailure(q, At(q))
  BY <1>1, FailFacts
<1>3. Alone(q)
  BY <1>1, <1>2 DEF Alone
<1>4. AfterFailure(q, At(q)) \notin Sending
  BY <1>1, NextRests
<1>5. q = "client" /\ At(q) \in Ending => At(q)' \in Ending
  BY <1>1, <1>2, NextRests DEF Ending, Sending
<1>6. Shape(q)
  BY <1>1, <1>2, <1>3, <1>4, <1>5, AloneStay, IdleShape
<1>7. mishaps \subseteq mishaps' /\ crashed' = crashed
  BY <1>1, ExpiresMore DEF SendTimeout
<1>8. q = "server" /\ "socket" \in todo[q] =>
          \/ Taken'
          \/ At(q)' # "send" /\ net'[Socket(q)] # <<>>
  <2>1. q = "server" /\ "socket" \in todo[q] => Taken \/ net[Socket(q)] # <<>>
    BY <1>1, ProcessFacts DEF SeenStays
  <2>2. Taken => Taken'
    BY <1>1, <1>3, <1>6, <1>7, ShapeKeeps
  <2>3. At(q)' # "send"
    <3>1. "send" \in Sending
      BY DEF Sending
    <3> QED BY <1>2, <1>4, <3>1
  <2>4. net'[Socket(q)] = net[Socket(q)]
    BY <1>1
  <2> QED BY <2>1, <2>2, <2>3, <2>4
<1> QED BY <1>1, <1>2, <1>3, <1>6, <1>7, <1>8, SendingEffect

\* rudp_recv returns.
LEMMA ReceivingEffect ==
    ASSUME IInv, TypeOK', NEW q \in Processes, InRecv(q),
           Alone(q), Shape(q), todo' = todo, At(q)' # "recv",
           mishaps \subseteq mishaps', CrashHasCause',
           q = "kid" => At(q)' = "exit",
           q = "server" =>
              /\ At(q)' \notin {"recvKey", "recvName"}
              /\ At(q)' = "sendKey" =>
                    At(q) = "recvKey" /\ ctl'[q].seq = ctl[q].seq + Size("DATA")
    PROVE  Effect(q)
<1>1. (GaveUp => GaveUp')
  BY ShapeKeeps
<1>2. SeenOwn(q)
  <2>1. InProgram /\ At(q) \notin {"loop", "send"}
    BY IInvParts DEF InRecv, Receiving
  <2>2. "socket" \notin todo[q]
    BY <2>1, ProcessFacts DEF InProgram
  <2> QED BY <2>2 DEF SeenOwn
<1>3. InStep(q)
  <2>1. q = "kid" => GaveUp /\ At(q) # "none"
    BY KidBusy
  <2> QED BY <1>1, <2>1, ProcessFacts DEF InStep
<1> QED BY <1>2, <1>3 DEF Effect

\* What was seen is there, or was taken.
LEMMA SeenAt ==
    ASSUME IInv, NEW q \in Processes, "socket" \in todo[q] \/ At(q) = "recv"
    PROVE  /\ q \in {"client", "server"}
           /\ \/ net[Socket(q)] # <<>>
              \/ q = "server" /\ Taken
<1>1. InProgram /\ SeenStays /\ At(q) \in Program[q]
  BY IInvParts DEF InProgram
<1>2. q # "kid"
  BY <1>1, ProgramFacts DEF InProgram
<1> QED BY <1>1, <1>2, ProcessFacts DEF SeenStays

\* Nothing comes, or the call gives up.
LEMMA FailsEffect ==
    ASSUME IInv, Typed', NEW q \in Processes, InRecv(q),
           At(q) = "recv" => net[Socket(q)] = <<>>,
           RecvFails(q), UNCHANGED <<ctl, net, todo>>, mishaps \subseteq mishaps'
    PROVE  Effect(q)
<1>1. Typed /\ TypeOK /\ TypeOK' /\ CrashHasCause
  BY IInvParts DEF Typed
<1>2. /\ \A r \in Processes : r # q => call'[r] = call[r]
      /\ At(q)' = "exit"
  BY <1>1, RecvFailsFacts
<1>3. Alone(q)
  BY <1>2 DEF Alone
<1>4. Shape(q)
  BY <1>1, <1>2, <1>3, AloneStay, IdleShape DEF Sending, Ending
<1>5. Taken => Taken'
  BY <1>1, <1>3, <1>4, ShapeKeeps
<1>6. CrashHasCause'
  <2>1. CASE At(q) = "recv"
    <3>1. q = "server" /\ Taken
      BY <2>1, SeenAt
    <3>2. crashed' = crashed \cup {"server"}
      BY <2>1, <3>1 DEF RecvFails
    <3> QED BY <1>1, <1>5, <3>1, <3>2 DEF CrashHasCause, Taken
  <2>2. CASE At(q) # "recv"
    BY <1>1, <1>5, <2>2, CrashSame DEF RecvFails
  <2> QED BY <2>1, <2>2
<1> QED BY <1>1, <1>2, <1>3, <1>4, <1>6, ReceivingEffect

LEMMA RecvTimeoutEffect ==
    ASSUME IInv, Typed', NEW q \in Processes, RecvTimeout(q) PROVE Effect(q)
  BY FailsEffect, ExpiresMore, ExpiresEmpty DEF RecvTimeout

\* rudp_recv passes something to q, which goes on at place.
LEMMA PassesEffect ==
    ASSUME IInv, Typed', NEW q \in Processes, InRecv(q), net[Socket(q)] # <<>>,
           NEW place \in {"loop", "exit"}, Passes(q, place),
           q = "client" => Arrived(q).flag = "DATA" \/ place = "exit",
           q = "kid" => place = "exit",
           UNCHANGED <<todo, crashed>>, mishaps \subseteq mishaps'
    PROVE  Effect(q)
<1>1. Typed /\ TypeOK /\ TypeOK' /\ CrashHasCause /\ place \in Places
  BY IInvParts DEF Typed, Places, Resting
<1>2. /\ At(q)' = place
      /\ \A r \in Processes : r # q => call'[r] = call[r]
      /\ ctl' \in [Processes -> Control] /\ ctl'[q] = Noted(q)
      /\ \A r \in Processes : r # q => ctl'[r] = ctl[r]
      /\ net' = Acked(q)
  BY <1>1, PassesFacts
<1>3. Alone(q)
  BY <1>2 DEF Alone
<1>4. Shape(q)
  BY <1>1, <1>2, <1>3, AloneStay, PassesShape DEF Sending, Ending
<1>6. CrashHasCause'
  BY <1>1, <1>3, <1>4, ShapeKeeps, CrashSame
<1> QED BY <1>1, <1>2, <1>3, <1>4, <1>6, ReceivingEffect

LEMMA RecvTextEffect ==
    ASSUME IInv, Typed', NEW q \in Processes, RecvText(q) PROVE Effect(q)
<1>1. net[Socket(q)] # <<>> /\ At(q) = "recv" /\ At(q) \in Program[q]
  BY IInvParts DEF RecvText, Takes, InProgram
<1>2. InRecv(q) /\ q # "kid"
  BY <1>1, ProgramFacts DEF InRecv, Receiving
<1> QED BY <1>1, <1>2, PassesEffect DEF RecvText, past

LEMMA ServerWriteFailsEffect ==
    ASSUME IInv, Typed', ServerWriteFails PROVE Effect("server")
<1>1. /\ net[Socket("server")] # <<>> /\ InRecv("server") /\ "server" \in Processes
      /\ Passes("server", "exit") /\ UNCHANGED <<todo, crashed>>
  BY ProcessFacts DEF ServerWriteFails, Takes, InRecv, Receiving
<1>2. mishaps \subseteq mishaps'
  BY DEF ServerWriteFails, Mishap
<1> QED BY <1>1, <1>2, PassesEffect

LEMMA DrainEffect ==
    ASSUME IInv, Typed', NEW q \in Processes, Drain(q) PROVE Effect(q)
<1>1. net[Socket(q)] # <<>> /\ InRecv(q)
  BY DEF Drain, Takes, InRecv, Receiving
<1> QED BY <1>1, PassesEffect DEF Drain, past

\* rudp_recv returns and q sends at once.
LEMMA RecvSendsEffect ==
    ASSUME IInv, Typed', NEW q \in {"client", "server"}, NEW p, NEW flag, NEW body,
           net[Socket(q)] # <<>>, InRecv(q),
           CanSend(q, Noted(q), Acked(q), p, flag, body),
           Sends(q, Noted(q), Acked(q), p, flag, body),
           todo' = todo, mishaps \subseteq mishaps', crashed' = crashed,
           q = "client" => Arrived(q).flag = "DATA" \/ p = "close2",
           q = "server" => \/ p = "sendKey" /\ flag = "DATA" /\ At(q) = "recvKey"
                           \/ p = "close2"
    PROVE  Effect(q)
<1>1. /\ Typed /\ TypeOK /\ TypeOK' /\ CrashHasCause /\ q \in Processes /\ q # "kid"
  BY IInvParts, ProcessFacts DEF Typed
<1>2. p \in Program[q] /\ p \in Sending
  BY DEF CanSend
<1>3. Begun(q, Noted(q), Acked(q), p, flag, body)
  BY <1>1, SendsBegun
<1>4. /\ \A r \in Processes : r # q => call'[r] = call[r]
      /\ \A r \in Processes : r # q => ctl'[r] = ctl[r]
      /\ At(q)' \in {p, AfterFailure(q, p)}
      /\ ctl'[q].seq = Noted(q).seq + Size(flag)
  BY <1>3 DEF Begun
<1>5. Alone(q)
  BY <1>4 DEF Alone
<1>6. Shape(q)
  BY <1>1, <1>5, AloneStay, RecvSendsShape
<1>7. CrashHasCause'
  BY <1>1, <1>5, <1>6, ShapeKeeps, CrashSame
<1>8. At(q)' # "recv"
  BY <1>1, <1>2, <1>4, NextRests DEF Sending
<1>9. q = "server" =>
         /\ At(q)' \notin {"recvKey", "recvName"}
         /\ At(q)' = "sendKey" =>
               At(q) = "recvKey" /\ ctl'[q].seq = ctl[q].seq + Size("DATA")
  <2> SUFFICES ASSUME q = "server"
               PROVE  /\ At(q)' \notin {"recvKey", "recvName"}
                      /\ At(q)' = "sendKey" => /\ At(q) = "recvKey"
                                               /\ ctl'[q].seq = ctl[q].seq + Size("DATA")
    OBVIOUS
  <2>1. AfterFailure("server", "sendKey") = "exit"
        /\ AfterFailure("server", "close2") = "kill"
    BY ThenFacts DEF AfterFailure
  <2>2. Noted(q).seq = ctl[q].seq
    BY <1>1, NotedFacts
  <2>3. CASE p = "close2"
    BY <1>4, <2>1, <2>3
  <2>4. CASE p = "sendKey" /\ flag = "DATA" /\ At(q) = "recvKey"
    BY <1>4, <2>1, <2>2, <2>4
  <2> QED BY <2>3, <2>4
<1> QED BY <1>1, <1>5, <1>6, <1>7, <1>8, <1>9, ReceivingEffect

LEMMA RecvEndEffect ==
    ASSUME IInv, Typed', NEW q \in Processes, RecvEnd(q) PROVE Effect(q)
<1>1. /\ TypeOK /\ net[Socket(q)] # <<>> /\ At(q) = "recv" /\ At(q) \in Program[q]
  BY IInvParts DEF RecvEnd, Takes, InProgram
<1>2. /\ InRecv(q) /\ q \in {"client", "server"} /\ "close2" \in Program[q]
      /\ "close2" \in Sending
  BY <1>1, ProcessFacts, ProgramFacts DEF InRecv, Receiving, Sending
<1>3. CanSend(q, Noted(q), Acked(q), "close2", "FIN", 0)
  BY <1>1, <1>2, NotedFacts, AckedFacts DEF CanSend
<1>4. /\ Sends(q, Noted(q), Acked(q), "close2", "FIN", 0)
      /\ UNCHANGED <<errno, todo, chld, pty, cipher, crashed, faults>>
      /\ mishaps \subseteq mishaps'
  BY DEF RecvEnd, Mishap
<1> QED BY <1>1, <1>2, <1>3, <1>4, RecvSendsEffect

LEMMA ServerRecvKeyEffect ==
    ASSUME IInv, Typed', ServerRecvKey PROVE Effect("server")
<1>1. TypeOK /\ net[Socket("server")] # <<>> /\ At("server") = "recvKey"
      /\ "server" \in Processes /\ InRecv("server")
  BY IInvParts, ProcessFacts DEF ServerRecvKey, Takes, InRecv, Receiving
<1>2. UNCHANGED <<todo, past>> /\ mishaps' = mishaps /\ crashed' = crashed
  BY DEF ServerRecvKey, past
<1>3. CASE Sends("server", Noted("server"), Acked("server"), "sendKey", "DATA", 0)
  <2>1. CanSend("server", Noted("server"), Acked("server"), "sendKey", "DATA", 0)
    BY <1>1, NotedFacts, AckedFacts, ProgramFacts DEF CanSend, Sending
  <2> QED BY <1>1, <1>2, <1>3, <2>1, RecvSendsEffect
<1>4. CASE Passes("server", "exit")
  BY <1>1, <1>2, <1>4, PassesEffect
<1> QED BY <1>3, <1>4 DEF ServerRecvKey

LEMMA ClientRecvKeyEffect ==
    ASSUME IInv, Typed', ClientRecvKey PROVE Effect("client")
<1>1. TypeOK /\ net[Socket("client")] # <<>> /\ At("client") = "recvKey"
      /\ "client" \in Processes /\ InRecv("client")
  BY IInvParts, ProcessFacts DEF ClientRecvKey, Takes, InRecv, Receiving
<1>2. UNCHANGED <<todo, past>> /\ mishaps' = mishaps /\ crashed' = crashed
  BY DEF ClientRecvKey, past
<1>3. CASE /\ IsKey("client")
           /\ Sends("client", Noted("client"), Acked("client"), "sendName", "DATA",
                    pos["client"] + 1)
  <2>1. pos["client"] + 1 \in Nat
    BY <1>1 DEF TypeOK
  <2>2. CanSend("client", Noted("client"), Acked("client"), "sendName", "DATA",
                pos["client"] + 1)
    BY <1>1, <2>1, NotedFacts, AckedFacts, ProgramFacts DEF CanSend, Sending
  <2>3. Arrived("client").flag = "DATA"
    BY <1>3 DEF IsKey
  <2> QED BY <1>1, <1>2, <1>3, <2>2, <2>3, RecvSendsEffect
<1>4. CASE Passes("client", "exit")
  BY <1>1, <1>2, <1>4, PassesEffect
<1> QED BY <1>3, <1>4 DEF ClientRecvKey

-----------------------------------------------------------------------------
(* The steps of the loops.                                                  *)

\* A process only goes on to another place.
LEMMA GoesEffect ==
    ASSUME IInv, Typed', NEW q \in Processes, NEW p \in Places, p \notin Sending,
           Goto(q, p), UNCHANGED <<ctl, net, crashed>>, mishaps \subseteq mishaps',
           \A r \in Processes : r # q => todo'[r] = todo[r],
           q = "client" => At(q) \notin Ending,
           q = "server" => p \notin {"recvKey", "recvName"},
           q = "kid" => /\ At(q) # "none" /\ p \notin {"none", "drain"}
                        /\ p \in {"login", "shell"} => At(q) \in {"login", "shell"},
           SeenOwn(q)
    PROVE  Effect(q)
<1>1. Typed /\ TypeOK /\ TypeOK' /\ CrashHasCause
  BY IInvParts DEF Typed
<1>2. /\ At(q)' = p
      /\ \A r \in Processes : r # q => call'[r] = call[r]
  BY <1>1, GotoFacts
<1>3. Alone(q)
  BY <1>2 DEF Alone
<1>4. Shape(q)
  BY <1>1, <1>2, <1>3, AloneStay, IdleShape
<1>5. CrashHasCause'
  BY <1>1, <1>3, <1>4, ShapeKeeps, CrashSame
<1>6. InStep(q)
  BY <1>2 DEF InStep, Sending
<1> QED BY <1>3, <1>4, <1>5, <1>6 DEF Effect

\* A process begins to send.
LEMMA BeginsEffect ==
    ASSUME IInv, Typed', NEW q \in Processes, NEW p, NEW flag, NEW body,
           CanSend(q, ctl[q], net, p, flag, body),
           Sends(q, ctl[q], net, p, flag, body),
           mishaps' = mishaps, crashed' = crashed,
           \A r \in Processes : r # q => todo'[r] = todo[r],
           q = "client" => At(q) \notin Ending,
           q = "server" => p \in {"send", "close1"},
           q = "kid" => At(q) = "login",
           SeenOwn(q)
    PROVE  Effect(q)
<1>1. Typed /\ TypeOK /\ TypeOK' /\ CrashHasCause /\ KidInStep
  BY IInvParts DEF Typed
<1>2. p \in Program[q] /\ p \in Sending
  BY DEF CanSend
<1>3. Begun(q, ctl[q], net, p, flag, body)
  BY <1>1, SendsBegun
<1>4. /\ \A r \in Processes : r # q => call'[r] = call[r]
      /\ \A r \in Processes : r # q => ctl'[r] = ctl[r]
      /\ At(q)' \in {p, AfterFailure(q, p)}
      /\ ctl'[q].seq = ctl[q].seq + Size(flag)
  BY <1>3 DEF Begun
<1>5. Alone(q)
  BY <1>4 DEF Alone
<1>6. Shape(q)
  BY <1>1, <1>5, AloneStay, SendsShape
<1>7. CrashHasCause'
  BY <1>1, <1>5, <1>6, ShapeKeeps, CrashSame
<1>8. InStep(q)
  <2>1. CASE q = "client"
    BY <2>1 DEF InStep
  <2>2. CASE q = "server"
    <3>1. AfterFailure("server", "send") = "loop"
          /\ AfterFailure("server", "close1") = "drain"
      BY ThenFacts DEF AfterFailure
    <3> QED BY <1>4, <2>2, <3>1 DEF InStep
  <2>3. CASE q = "kid"
    <3>1. ctl[q].seq = Hdr + Size("DATA")
      BY <1>1, <2>3 DEF KidInStep
    <3>2. GaveUp'
      <4>1. Hdr + Size("DATA") \in Nat /\ Size(flag) \in Nat /\ Size(flag) > 0
        BY SizeType
      <4>2. ctl'["kid"].seq > Hdr + Size("DATA")
        BY <1>4, <2>3, <3>1, <4>1
      <4> QED BY <4>2 DEF GaveUp
    <3>3. p \in {"close0", "close1"}
      BY <1>2, <2>3, NextPlaces, ProcessFacts
    <3>4. AfterFailure("kid", "close1") = "drain" /\ AfterFailure("kid", "close0") = "exit"
      BY ThenFacts DEF AfterFailure
    <3>5. At(q)' \in {"close0", "close1", "drain", "exit"}
      BY <1>4, <2>3, <3>3, <3>4
    <3> QED BY <2>3, <3>2, <3>5 DEF InStep
  <2> QED BY <2>1, <2>2, <2>3, ProcessFacts
<1> QED BY <1>5, <1>6, <1>7, <1>8 DEF Effect

LEMMA ClientSendKeyEffect ==
    ASSUME IInv, Typed', ClientSendKey PROVE Effect("client")
<1>1. TypeOK /\ InProgram /\ "client" \in Processes /\ At("client") = "start"
  BY IInvParts, ProcessFacts DEF ClientSendKey
<1>2. UNCHANGED todo /\ mishaps' = mishaps /\ crashed' = crashed
      /\ Sends("client", ctl["client"], net, "sendKey", "DATA", 0)
  BY DEF ClientSendKey, past
<1>3. CanSend("client", ctl["client"], net, "sendKey", "DATA", 0)
  BY <1>1, TypeParts, ProgramFacts DEF CanSend, Sending
<1>4. SeenOwn("client")
  <2>1. At("client")' # "recv"
    BY <1>1, <1>2, <1>3, SendsFacts, NextRests DEF CanSend, Sending
  <2> QED BY <1>1, <1>2, <2>1 DEF SeenOwn, InProgram
<1> QED BY <1>1, <1>2, <1>3, <1>4, BeginsEffect DEF Ending

\* What q sends from its loop leaves what its poll saw.
LEMMA LoopSeen ==
    ASSUME TypeOK, NEW q \in Processes, NEW p, NEW flag, NEW body,
           CanSend(q, ctl[q], net, p, flag, body),
           Sends(q, ctl[q], net, p, flag, body), "socket" \notin todo'[q]
    PROVE  SeenOwn(q)
<1>1. At(q)' \in {p, AfterFailure(q, p)} /\ p \in Program[q] /\ p \in Sending
  BY SendsFacts DEF CanSend
<1>2. At(q)' # "recv"
  BY <1>1, NextRests DEF Sending
<1> QED BY <1>2 DEF SeenOwn

LEMMA ClientKeysEffect ==
    ASSUME IInv, Typed', ClientKeys PROVE Effect("client")
<1>1. TypeOK /\ "client" \in Processes /\ At("client") = "loop"
      /\ todo["client"] = {"tty"}
  BY IInvParts, ProcessFacts DEF ClientKeys
<1>2. Served("client", "tty") /\ mishaps' = mishaps /\ crashed' = crashed
      /\ Sends("client", ctl["client"], net, "send", "DATA", pos["client"] + 1)
  BY DEF ClientKeys, past
<1>3. pos["client"] + 1 \in Nat
  BY <1>1 DEF TypeOK
<1>4. CanSend("client", ctl["client"], net, "send", "DATA", pos["client"] + 1)
  BY <1>1, <1>3, TypeParts, ProgramFacts DEF CanSend, Sending
<1>5. /\ "socket" \notin todo'["client"]
      /\ \A r \in Processes : r # "client" => todo'[r] = todo[r]
  BY <1>1, <1>2, ServedType
<1>6. SeenOwn("client")
  BY <1>1, <1>2, <1>4, <1>5, LoopSeen
<1> QED BY <1>1, <1>2, <1>4, <1>5, <1>6, BeginsEffect DEF Ending

LEMMA ClientLeavesEffect ==
    ASSUME IInv, Typed', ClientLeaves PROVE Effect("client")
<1>1. TypeOK /\ "client" \in Processes /\ At("client") = "loop"
      /\ todo["client"] = {"tty"}
  BY IInvParts, ProcessFacts DEF ClientLeaves
<1>2. Served("client", "tty") /\ mishaps' = mishaps /\ crashed' = crashed
      /\ Sends("client", ctl["client"], net, "close1", "FIN", 0)
  BY DEF ClientLeaves, past
<1>3. CanSend("client", ctl["client"], net, "close1", "FIN", 0)
  BY <1>1, TypeParts, ProgramFacts DEF CanSend, Sending
<1>4. /\ "socket" \notin todo'["client"]
      /\ \A r \in Processes : r # "client" => todo'[r] = todo[r]
  BY <1>1, <1>2, ServedType
<1>5. SeenOwn("client")
  BY <1>1, <1>2, <1>3, <1>4, LoopSeen
<1> QED BY <1>1, <1>2, <1>3, <1>4, <1>5, BeginsEffect DEF Ending

\* The server shuts the association down from its loop.
LEMMA ServerClosesEffect ==
    ASSUME IInv, Typed', todo["server"] = {}, UNCHANGED <<todo, past>>,
           Sends("server", ctl["server"], net, "close1", "FIN", 0)
    PROVE  Effect("server")
<1>1. TypeOK /\ "server" \in Processes
  BY IInvParts, ProcessFacts
<1>2. mishaps' = mishaps /\ crashed' = crashed /\ "socket" \notin todo'["server"]
  BY DEF past
<1>3. CanSend("server", ctl["server"], net, "close1", "FIN", 0)
  BY <1>1, TypeParts, ProgramFacts DEF CanSend, Sending
<1>4. SeenOwn("server")
  BY <1>1, <1>2, <1>3, LoopSeen
<1> QED BY <1>1, <1>2, <1>3, <1>4, BeginsEffect

LEMMA ServerLeavesEffect ==
    ASSUME IInv, Typed', ServerLeaves PROVE Effect("server")
  BY ServerClosesEffect DEF ServerLeaves

LEMMA PollInterruptedEffect ==
    ASSUME IInv, Typed', PollInterrupted PROVE Effect("server")
  BY ServerClosesEffect DEF PollInterrupted, Polls

\* The server serves its pseudo terminal before the socket: what poll saw
\* there cannot be the answer to what it sends now.
LEMMA ServerOutputEffect ==
    ASSUME IInv, Typed', ServerOutput PROVE Effect("server")
<1>1. /\ TypeOK /\ TypeOK' /\ AcksBehind /\ "server" \in Processes
      /\ At("server") = "loop"
  BY IInvParts, ProcessFacts DEF ServerOutput, Typed
<1>2. Served("server", "pty") /\ mishaps' = mishaps /\ crashed' = crashed
      /\ Sends("server", ctl["server"], net, "send", "DATA", pos["server"] + 1)
  BY DEF ServerOutput, past
<1>3. pos["server"] + 1 \in Nat
  BY <1>1 DEF TypeOK
<1>4. CanSend("server", ctl["server"], net, "send", "DATA", pos["server"] + 1)
  BY <1>1, <1>3, TypeParts, ProgramFacts DEF CanSend, Sending
<1>5. /\ todo'["server"] \subseteq todo["server"]
      /\ \A r \in Processes : r # "server" => todo'[r] = todo[r]
  BY <1>1, <1>2, ServedType
<1>6. /\ ctl'["server"].seq = ctl["server"].seq + Size("DATA")
      /\ ctl'["kid"] = ctl["kid"]
      /\ net' = Put(net, "client", Packet(ctl["server"], "DATA", pos["server"] + 1))
      /\ At("server")' \in {"send", AfterFailure("server", "send")}
  <2>1. Begun("server", ctl["server"], net, "send", "DATA", pos["server"] + 1)
    BY <1>1, <1>2, <1>4, SendsBegun
  <2> QED BY <2>1, ProcessFacts DEF Begun
<1>7. net'["server"] = net["server"]
  <2>1. Packet(ctl["server"], "DATA", pos["server"] + 1) \in Datagram
    BY <1>1, <1>3, TypeParts, PacketType
  <2> QED BY <1>1, <1>6, <2>1, TypeParts, PutFacts, ProcessFacts
<1>8. SeenOwn("server")
  <2>1. At("server")' # "recv"
    BY <1>6, ThenFacts DEF AfterFailure
  <2> SUFFICES ASSUME "socket" \in todo'["server"], ~Taken'
               PROVE  net'["server"] # <<>> /\ ~Answers("server", Arrived("server"))'
    BY <2>1, ProcessFacts DEF SeenOwn
  <2>2. ~GaveUp /\ ~Taken
    BY <1>1, <1>2, <1>6 DEF GaveUp, Taken, Mishaps
  <2>3. "socket" \in todo["server"]
    BY <1>5
  <2>4. net["server"] # <<>>
    BY <1>1, <2>2, <2>3, SeenAt, ProcessFacts
  <2> DEFINE d == net["server"][1]
  <2>5. /\ 1 \in 1..Len(net["server"]) /\ d \in Datagram
        /\ Arrived("server")' = d
    BY <1>1, <1>7, <2>4, QueueType, ProcessFacts DEF Arrived
  <2>6. d.flag = "ACK" => d.ack <= ctl["server"].seq + Hdr
    BY <1>1, <2>2, <2>5 DEF AcksBehind
  <2>7. Size("DATA") = Payload + Hdr /\ Payload \in Nat /\ Payload > 0 /\ Hdr \in Nat
        /\ ctl["server"].seq \in Nat /\ d.ack \in Nat
    BY <1>1, <2>5, UdpAssumption, TypeParts DEF Size, Control, Datagram
  <2>8. d.flag = "ACK" => d.ack # ctl'["server"].seq
    <3> HIDE DEF d
    <3> QED BY <1>6, <2>6, <2>7
  <2> QED BY <1>7, <2>4, <2>5, <2>8 DEF Answers
<1> QED BY <1>1, <1>2, <1>4, <1>5, <1>8, BeginsEffect

LEMMA PollEffect ==
    ASSUME IInv, Typed', NEW q \in Processes, Poll(q) PROVE Effect(q)
<1>1. /\ TypeOK /\ At(q) \in Program[q] /\ Polls(q) /\ Goto(q, "loop")
      /\ UNCHANGED <<ctl, net, past>>
      /\ todo' = [todo EXCEPT ![q] = Ready(q)]
  BY IInvParts DEF Poll, InProgram
<1>2. q # "kid" /\ At(q) \notin Ending
  BY <1>1, ProgramFacts DEF Polls, Ending
<1>3. /\ \A r \in Processes : r # q => todo'[r] = todo[r]
      /\ todo'[q] = Ready(q)
  BY <1>1, TypeParts
<1>4. At(q)' = "loop" /\ "loop" \in Places /\ "loop" \notin Sending
  BY <1>1, GotoFacts DEF Places, Resting, Sending
<1>5. SeenOwn(q)
  BY <1>1, <1>3, <1>4 DEF SeenOwn, Ready
<1> QED BY <1>1, <1>2, <1>3, <1>4, <1>5, GoesEffect DEF past

LEMMA RecvCallEffect ==
    ASSUME IInv, Typed', NEW q \in Processes, RecvCall(q) PROVE Effect(q)
<1>1. /\ TypeOK /\ TypeOK' /\ At(q) = "loop" /\ "socket" \in todo[q] /\ Goto(q, "recv")
      /\ UNCHANGED <<ctl, net, past>> /\ Served(q, "socket")
  BY IInvParts DEF RecvCall, Typed
<1>2. \A r \in Processes : r # q => todo'[r] = todo[r]
  BY <1>1, ServedType
<1>3. At(q)' = "recv" /\ "recv" \in Places /\ "recv" \notin Sending
  BY <1>1, GotoFacts DEF Places, Receiving, Sending
<1>4. /\ q \in {"client", "server"}
      /\ \/ net[Socket(q)] # <<>>
         \/ q = "server" /\ Taken
  BY <1>1, SeenAt
<1>5. Taken => Taken'
  BY <1>1 DEF Taken, GaveUp, Mishaps, past
<1>6. SeenOwn(q)
  BY <1>1, <1>3, <1>4, <1>5 DEF SeenOwn
<1> QED BY <1>1, <1>2, <1>3, <1>4, <1>6, GoesEffect DEF Ending, past

\* A step of a process that its poll does not bear on.
LEMMA RestsEffect ==
    ASSUME IInv, Typed', NEW q \in Processes, NEW p \in Places,
           p \notin Sending, p # "recv",
           Goto(q, p), UNCHANGED <<ctl, net, todo, past>>,
           todo[q] = {} \/ At(q) \notin {"loop", "send"},
           q = "client" => At(q) \notin Ending,
           q = "server" => p \notin {"recvKey", "recvName"},
           q = "kid" => /\ At(q) # "none" /\ p \notin {"none", "drain"}
                        /\ p \in {"login", "shell"} => At(q) \in {"login", "shell"}
    PROVE  Effect(q)
<1>1. InProgram /\ At(q)' = p
  BY IInvParts, GotoFacts
<1>2. "socket" \notin todo'[q]
  BY <1>1, ProcessFacts DEF InProgram
<1>3. SeenOwn(q)
  BY <1>1, <1>2 DEF SeenOwn
<1>4. \A r \in Processes : r # q => todo'[r] = todo[r]
  OBVIOUS
<1> QED BY <1>3, <1>4, GoesEffect DEF past

LEMMA ServerTestEffect ==
    ASSUME IInv, Typed', ServerTest PROVE Effect("server")
<1>1. "server" \in Processes /\ "poll" \in Places /\ "poll" \notin Sending
  BY ProcessFacts DEF Places, Resting, Sending
<1> QED BY <1>1, RestsEffect DEF ServerTest

LEMMA PollTimeoutEffect ==
    ASSUME IInv, Typed', PollTimeout PROVE Effect("server")
<1>1. "server" \in Processes /\ "loop" \in Places /\ "loop" \notin Sending
  BY ProcessFacts DEF Places, Resting, Sending
<1> QED BY <1>1, RestsEffect DEF PollTimeout, Polls

LEMMA KeyFailsEffect ==
    ASSUME IInv, Typed', NEW q \in {"client", "server"}, KeyFails(q) PROVE Effect(q)
<1>1. q \in Processes /\ "exit" \in Places /\ "exit" \notin Sending
  BY ProcessFacts DEF Places, Resting, Sending
<1> QED BY <1>1, RestsEffect DEF KeyFails, Ending

LEMMA ClientBreaksEffect ==
    ASSUME IInv, Typed', ClientBreaks PROVE Effect("client")
<1>1. /\ TypeOK /\ "client" \in Processes /\ At("client") = "loop"
      /\ Goto("client", "exit") /\ UNCHANGED <<ctl, net, crashed>>
      /\ todo' = [todo EXCEPT !["client"] = {}]
  BY IInvParts, ProcessFacts DEF ClientBreaks
<1>2. /\ \A r \in Processes : r # "client" => todo'[r] = todo[r]
      /\ todo'["client"] = {}
  BY <1>1, TypeParts
<1>3. "exit" \in Places /\ "exit" \notin Sending /\ mishaps \subseteq mishaps'
  BY DEF Places, Resting, Sending, ClientBreaks, Fault, Mishap
<1>4. At("client")' = "exit"
  BY <1>1, <1>3, GotoFacts
<1>5. SeenOwn("client")
  BY <1>2, <1>4 DEF SeenOwn
<1> QED BY <1>1, <1>2, <1>3, <1>5, GoesEffect DEF Ending

LEMMA LoginSucceedsEffect ==
    ASSUME IInv, Typed', LoginSucceeds PROVE Effect("kid")
<1>1. "kid" \in Processes /\ "shell" \in Places /\ "shell" \notin Sending
  BY ProcessFacts DEF Places, Resting, Sending
<1> QED BY <1>1, RestsEffect DEF LoginSucceeds

LEMMA ShellExitsEffect ==
    ASSUME IInv, Typed', ShellExits PROVE Effect("kid")
<1>1. "kid" \in Processes /\ "exit" \in Places /\ "exit" \notin Sending
  BY ProcessFacts DEF Places, Resting, Sending
<1> QED BY <1>1, RestsEffect DEF ShellExits

LEMMA LoginFailsEffect ==
    ASSUME IInv, Typed', LoginFails PROVE Effect("kid")
<1>1. PICK p \in {"close1", "close0"} :
          Sends("kid", ctl["kid"], net, p, "FIN", 0)
  BY DEF LoginFails
<1>2. TypeOK /\ InProgram /\ "kid" \in Processes /\ At("kid") = "login"
  BY IInvParts, ProcessFacts DEF LoginFails
<1>3. UNCHANGED todo /\ mishaps' = mishaps /\ crashed' = crashed
  BY DEF LoginFails, past
<1>4. CanSend("kid", ctl["kid"], net, p, "FIN", 0)
  BY <1>2, TypeParts, ProgramFacts DEF CanSend, Sending
<1>5. "socket" \notin todo'["kid"]
  BY <1>2, <1>3 DEF InProgram
<1>6. SeenOwn("kid")
  BY <1>1, <1>2, <1>4, <1>5, LoopSeen
<1> QED BY <1>1, <1>2, <1>3, <1>4, <1>6, BeginsEffect

-----------------------------------------------------------------------------
(* The signal.                                                              *)

LEMMA SendInterruptedEffect ==
    ASSUME IInv, Typed', SendInterrupted PROVE Effect("server")
<1>1. /\ Typed /\ TypeOK /\ TypeOK' /\ SendsCounted /\ "server" \in Processes
      /\ InSend("server") /\ At("server") \in Program["server"]
      /\ net \in NetType /\ net["server"] = <<>> /\ Socket("server") = "server"
  BY IInvParts, TypeParts, ProcessFacts
     DEF Typed, SendInterrupted, Interrupted, InProgram
<1>2. /\ Retry("server", net) /\ Mishap("server", "signal")
      /\ UNCHANGED <<ctl, todo, crashed>>
  BY DEF SendInterrupted
<1>3. /\ \A r \in Processes : r # "server" => call'[r] = call[r]
      /\ At("server")' \in {At("server"), AfterFailure("server", At("server"))}
  BY <1>1, <1>2, RetryFacts
<1>4. Alone("server")
  BY <1>2, <1>3 DEF Alone
<1>5. Shape("server")
  BY <1>1, <1>2, <1>4, AloneStay, RetryShape
<1>6. mishaps \subseteq mishaps'
  BY <1>2 DEF Mishap
<1>7. "socket" \in todo["server"] => Taken'
  <2>1. "socket" \in todo["server"] => Taken
    BY <1>1, SeenAt
  <2> QED BY <1>1, <1>4, <1>5, <1>6, <2>1, ShapeKeeps
<1> QED BY <1>1, <1>2, <1>3, <1>4, <1>5, <1>6, <1>7, SendingEffect

LEMMA RecvInterruptedEffect ==
    ASSUME IInv, Typed', RecvInterrupted PROVE Effect("server")
<1>1. /\ Typed /\ TypeOK /\ TypeOK' /\ InProgram /\ CrashHasCause
      /\ "server" \in Processes /\ InRecv("server") /\ net["server"] = <<>>
      /\ Socket("server") = "server"
      /\ UNCHANGED <<ctl, net, todo, mishaps>>
  BY IInvParts, ProcessFacts DEF Typed, RecvInterrupted, Interrupted
<1>2. CASE RecvFails("server")
  BY <1>1, <1>2, FailsEffect
<1>3. CASE call' = [call EXCEPT !["server"].i = @ + 1] /\ UNCHANGED crashed
  <2>1. /\ \A r \in Processes : r # "server" => call'[r] = call[r]
        /\ At("server")' = At("server")
    <3>1. call["server"] \in Call
      BY <1>1, TypeParts
    <3>2. [call["server"] EXCEPT !.i = call["server"].i + 1].at = call["server"].at
      BY <3>1 DEF Call
    <3>3. call' = [call EXCEPT !["server"] =
                     [call["server"] EXCEPT !.i = call["server"].i + 1]]
      BY <1>3
    <3> QED BY <1>1, <3>2, <3>3, TypeParts DEF At
  <2>2. Alone("server")
    BY <1>1, <2>1 DEF Alone
  <2>3. Shape("server")
    BY <1>1, <2>1, <2>2, AloneStay, IdleShape DEF InRecv, Receiving, Sending
  <2>4. Taken => Taken'
    BY <1>1, <2>2, <2>3, ShapeKeeps
  <2>5. CrashHasCause'
    BY <1>1, <1>3, <2>4, CrashSame
  <2>6. "socket" \notin todo'["server"]
    BY <1>1 DEF InProgram, InRecv, Receiving
  <2>7. SeenOwn("server")
    <3>1. At("server") = "recv" => Taken
      BY <1>1, SeenAt
    <3> QED BY <2>1, <2>4, <2>6, <3>1 DEF SeenOwn
  <2>8. InStep("server")
    BY <1>1, <2>1 DEF InStep, InRecv, Receiving
  <2> QED BY <1>1, <2>2, <2>3, <2>5, <2>7, <2>8 DEF Effect
<1> QED BY <1>2, <1>3 DEF RecvInterrupted

-----------------------------------------------------------------------------
(* What concerns more than one process, or none.                            *)

\* Nothing that the invariant speaks of changes.
LEMMA SameKeeps ==
    ASSUME IInv, Typed', UNCHANGED <<call, ctl, net, todo, crashed>>,
           mishaps \subseteq mishaps'
    PROVE  IInv'
<1>1. GaveUp' = GaveUp /\ (Taken => Taken')
  BY DEF Taken, GaveUp, Mishaps
<1>2. CrashHasCause'
  BY <1>1, CrashSame DEF IInv, CrashInv
<1>3. KidInStep' /\ SendsCounted' /\ AcksBehind'
  BY <1>1 DEF IInv, CrashInv, KidInStep, SendsCounted, AcksBehind, At, InSend
<1>4. SeenStays'
  BY <1>1 DEF IInv, CrashInv, SeenStays, At, Arrived, Answers
<1> QED BY <1>2, <1>3, <1>4 DEF IInv, CrashInv, Typed

LEMMA RecvNameKeeps ==
    ASSUME IInv, Typed', RecvName PROVE IInv'
<1>1. /\ Typed /\ TypeOK /\ TypeOK' /\ InProgram /\ InProgram' /\ KidInStep
      /\ SendsCounted /\ AcksBehind /\ SeenStays /\ CrashHasCause
      /\ "server" \in Processes /\ At("server") = "recvName"
      /\ InRecv("server") /\ net[Socket("server")] # <<>>
      /\ net' = Acked("server")
  BY IInvParts, ProcessFacts DEF Typed, RecvName, Takes, InRecv, Receiving
<1>2. /\ ctl' \in [Processes -> Control]
      /\ At("server")' = "loop" /\ At("kid")' = "login"
      /\ call'["client"] = call["client"]
      /\ ctl'["server"] = Noted("server") /\ ctl'["kid"] = Noted("server")
      /\ ctl'["client"] = ctl["client"]
  BY <1>1, RecvNameFacts
<1>3. UNCHANGED todo /\ mishaps' = mishaps /\ crashed' = crashed
  BY DEF RecvName, past
<1>4. OthersStay("server")
  BY <1>2, <1>3 DEF OthersStay
<1>5. Shape("server")
  BY <1>1, <1>2, <1>4, PassesShape DEF Sending
<1>6. /\ ~GaveUp /\ ctl'["kid"].seq = Hdr + Size("DATA")
  <2>1. ctl["kid"].seq = Hdr /\ ctl["server"].seq = Hdr + Size("DATA")
    BY <1>1 DEF KidInStep
  <2>2. Size("DATA") \in Nat /\ Hdr \in Nat
    BY SizeType
  <2>3. Noted("server").seq = ctl["server"].seq
    BY <1>1, NotedFacts
  <2> QED BY <1>2, <2>1, <2>2, <2>3 DEF GaveUp
<1>7. Taken => Taken'
  BY <1>3, <1>6 DEF Taken, Mishaps
<1>8. KidInStep'
  BY <1>2, <1>6 DEF KidInStep
<1>9. SendsCounted'
  <2>1. SendsCounted /\ ctl'["client"] = ctl["client"]
        /\ (InSend("client")' <=> InSend("client"))
        /\ ~InSend("server")' /\ ~InSend("kid")'
    BY <1>1, <1>2 DEF InSend, At, Sending
  <2> QED BY <1>2, <2>1, ProcessFacts DEF SendsCounted
<1>10. AcksBehind'
  BY <1>1, <1>5, <1>6, ShapeAcks
<1>11. SeenStays'
  <2>1. At("client")' = At("client")
    BY <1>2 DEF At
  <2>2. net["client"] # <<>> => net'["client"] # <<>>
    BY <1>5, ProcessFacts DEF Shape, Grown
  <2>3. todo["server"] = {}
    BY <1>1 DEF InProgram
  <2> QED BY <1>1, <1>2, <1>3, <2>1, <2>2, <2>3 DEF SeenStays
<1>12. CrashHasCause'
  BY <1>1, <1>3, <1>7, CrashSame
<1> QED BY <1>1, <1>8, <1>9, <1>10, <1>11, <1>12 DEF IInv, CrashInv

\* Some processes end, the client only after its shutdown.
LEMMA EndsKeeps ==
    ASSUME IInv, Typed', NEW qs \in SUBSET Processes, Ends(qs),
           "client" \in qs => At("client") = "exit",
           "kid" \in qs => At("kid") = "exit" \/ "server" \in qs,
           UNCHANGED <<ctl, past>>
    PROVE  IInv'
<1>1. /\ TypeOK /\ TypeOK' /\ InProgram /\ InProgram' /\ KidInStep
      /\ SendsCounted /\ AcksBehind /\ SeenStays /\ CrashHasCause
  BY IInvParts DEF Typed
<1>2. /\ \A q \in Processes : At(q)' = IF q \in qs THEN "gone" ELSE At(q)
      /\ \A q \in Processes : q \notin qs => call'[q] = call[q]
      /\ \A q \in Processes : todo'[q] = IF q \in qs THEN {} ELSE todo[q]
      /\ \A s \in Sockets : net'[s] \in {<<>>, net[s]}
  BY <1>1, EndsFacts
<1>3. mishaps' = mishaps /\ crashed' = crashed /\ ctl' = ctl
  BY DEF past
<1>4. KidInStep'
  <2>1. /\ At("server")' \in {"gone", At("server")}
        /\ At("kid")' \in {"gone", At("kid")}
        /\ At("kid")' # At("kid") => At("kid") = "exit" \/ At("server")' = "gone"
    BY <1>2, ProcessFacts
  <2> QED BY <1>1, <1>3, <2>1 DEF KidInStep, GaveUp
<1>5. SendsCounted'
  <2>1. \A q \in Processes : InSend(q)' => InSend(q) /\ call'[q] = call[q]
    BY <1>2 DEF InSend, Sending
  <2> QED BY <1>1, <1>3, <2>1 DEF SendsCounted
<1>6. (GaveUp' <=> GaveUp) /\ (Taken' <=> Taken)
  BY <1>3 DEF Taken, GaveUp, Mishaps
<1>7. AcksBehind'
  <2>1. /\ net'["client"] \in {<<>>, net["client"]}
        /\ net'["server"] \in {<<>>, net["server"]}
    BY <1>2, ProcessFacts
  <2>2. At("client")' \in Ending <=> At("client") \in Ending
    BY <1>2, ProcessFacts DEF Ending
  <2>3. Len(<<>>) = 0
    OBVIOUS
  <2> QED BY <1>1, <1>3, <1>6, <2>1, <2>2, <2>3 DEF AcksBehind, Ending
<1>8. SeenStays'
  <2>1. ASSUME NEW q \in {"client", "server"}, q \notin qs,
               At(q) \in {"loop", "recv", "send"}
        PROVE  net'[q] = net[q]
    <3>1. q \in Processes /\ q \in Sockets /\ Socket(q) = q
      BY ProcessFacts
    <3>2. net' = [s \in Sockets |->
                 IF \A r \in Processes : Socket(r) = s =>
                       r \in qs \/ At(r) \in {"none", "shell", "gone"}
                 THEN <<>> ELSE net[s]]
      BY DEF Ends
    <3> QED BY <2>1, <3>1, <3>2
  <2>2. "socket" \in todo'["client"] \/ At("client")' = "recv" => net'["client"] # <<>>
    <3> SUFFICES ASSUME "socket" \in todo'["client"] \/ At("client")' = "recv"
                 PROVE  net'["client"] # <<>>
      OBVIOUS
    <3>1. "client" \notin qs /\ ("socket" \in todo["client"] \/ At("client") = "recv")
      BY <1>2, ProcessFacts
    <3>2. At("client") \in {"loop", "recv", "send"}
      BY <1>1, <3>1 DEF InProgram
    <3> QED BY <1>1, <2>1, <3>1, <3>2 DEF SeenStays
  <2>3. "socket" \in todo'["server"] \/ At("server")' = "recv" =>
            Taken' \/ /\ net'["server"] = net["server"] /\ net["server"] # <<>>
                      /\ At("server")' = At("server")
                      /\ todo'["server"] = todo["server"]
    <3> SUFFICES ASSUME "socket" \in todo'["server"] \/ At("server")' = "recv"
                 PROVE  \/ Taken'
                        \/ /\ net'["server"] = net["server"] /\ net["server"] # <<>>
                           /\ At("server")' = At("server")
                           /\ todo'["server"] = todo["server"]
      OBVIOUS
    <3>1. "server" \notin qs /\ ("socket" \in todo["server"] \/ At("server") = "recv")
      BY <1>2, ProcessFacts
    <3>2. At("server") \in {"loop", "recv", "send"}
      BY <1>1, <3>1 DEF InProgram
    <3>3. net'["server"] = net["server"]
      BY <2>1, <3>1, <3>2
    <3>4. Taken \/ net["server"] # <<>>
      BY <1>1, <3>1 DEF SeenStays
    <3> QED BY <1>2, <1>6, <3>1, <3>3, <3>4, ProcessFacts
  <2>4. net'["server"] = net["server"] => Arrived("server")' = Arrived("server")
    BY ProcessFacts DEF Arrived
  <2> QED BY <1>1, <1>3, <1>6, <2>2, <2>3, <2>4 DEF SeenStays, Answers
<1>9. CrashHasCause'
  BY <1>1, <1>3, <1>6, CrashSame
<1> QED BY <1>1, <1>4, <1>5, <1>7, <1>8, <1>9 DEF IInv, CrashInv

LEMMA ExitKeeps ==
    ASSUME IInv, Typed', NEW q \in Processes, Exit(q) PROVE IInv'
<1>1. {q} \in SUBSET Processes /\ Ends({q}) /\ UNCHANGED <<ctl, past>> /\ At(q) = "exit"
  BY DEF Exit
<1> QED BY <1>1, EndsKeeps

LEMMA ServerKillsKeeps ==
    ASSUME IInv, Typed', ServerKills PROVE IInv'
<1>1. /\ {"server", "kid"} \in SUBSET Processes /\ Ends({"server", "kid"})
      /\ UNCHANGED <<ctl, past>>
  BY ProcessFacts DEF ServerKills
<1> QED BY <1>1, EndsKeeps

\* The network loses a datagram, but none that a poll has seen.
LEMMA DropKeeps ==
    ASSUME IInv, Typed', NEW s \in Sockets, Drop(s) PROVE IInv'
<1>1. /\ TypeOK /\ TypeOK' /\ InProgram /\ InProgram' /\ KidInStep
      /\ SendsCounted /\ AcksBehind /\ SeenStays /\ CrashHasCause
  BY IInvParts DEF Typed
<1>2. /\ UNCHANGED <<call, ctl, todo, crashed>> /\ mishaps \subseteq mishaps'
  BY DEF Drop, Fault, Mishap
<1>3. PICK i \in DOMAIN net[s] :
         LET n == SubSeq(net[s], 1, i - 1) \o SubSeq(net[s], i + 1, Len(net[s]))
         IN  /\ i > 1 \/ ~Seen(s)
             /\ net' = [net EXCEPT ![s] = n]
             /\ n \in Seq(Datagram)
             /\ \A j \in 1..Len(n) : \E k \in 1..Len(net[s]) : n[j] = net[s][k]
             /\ i > 1 => Len(n) > 0 /\ n[1] = net[s][1]
  BY <1>1, DropFacts
<1> DEFINE n == SubSeq(net[s], 1, i - 1) \o SubSeq(net[s], i + 1, Len(net[s]))
<1>4. /\ i > 1 \/ ~Seen(s)
      /\ net' = [net EXCEPT ![s] = n]
      /\ n \in Seq(Datagram)
      /\ \A j \in 1..Len(n) : \E k \in 1..Len(net[s]) : n[j] = net[s][k]
      /\ i > 1 => Len(n) > 0 /\ n[1] = net[s][1]
  BY <1>3
<1>5. net[s] # <<>> /\ Head(net[s]) = net[s][1]
  <2>1. net[s] \in Seq(Datagram)
    BY <1>1, QueueType
  <2>2. net[s] # <<>>
    BY <1>3, <2>1
  <2> QED BY <1>1, <2>2, QueueType
<1> HIDE DEF n
<1>6. net'[s] = n /\ \A t \in Sockets : t # s => net'[t] = net[t]
  BY <1>1, <1>4, TypeParts DEF NetType
<1>7. /\ \A t \in Sockets : \A j \in 1..Len(net'[t]) :
             \E k \in 1..Len(net[t]) : net'[t][j] = net[t][k]
  BY <1>4, <1>6
<1>8. \A t \in Sockets : Seen(t) /\ net[t] # <<>> =>
          net'[t] # <<>> /\ Head(net'[t]) = Head(net[t])
  <2> TAKE t \in Sockets
  <2>1. CASE t = s
    <3>1. i > 1 => n # <<>> /\ Head(n) = n[1]
      BY <1>4, EmptySeq
    <3> QED BY <1>4, <1>5, <1>6, <2>1, <3>1
  <2>2. CASE t # s
    BY <1>6, <2>2
  <2> QED BY <2>1, <2>2
<1>9. \A q \in Processes : At(q)' = At(q) /\ (InSend(q)' <=> InSend(q))
  BY <1>2 DEF At, InSend
<1>10. (GaveUp' <=> GaveUp) /\ (Taken => Taken')
  BY <1>2 DEF Taken, GaveUp, Mishaps
<1>11. KidInStep'
  BY <1>1, <1>2, <1>9, <1>10, ProcessFacts DEF KidInStep
<1>12. SendsCounted'
  BY <1>1, <1>2, <1>9 DEF SendsCounted
<1>13. AcksBehind'
  BY <1>1, <1>2, <1>7, <1>9, <1>10, ProcessFacts DEF AcksBehind
<1>14. SeenStays'
  <2>1. Arrived("server") = Head(net["server"]) /\ Arrived("server")' = Head(net'["server"])
    BY ProcessFacts DEF Arrived
  <2>2. /\ "socket" \in todo["client"] \/ At("client") = "recv" => Seen("client")
        /\ "socket" \in todo["server"] \/ At("server") = "recv" => Seen("server")
    BY ProcessFacts DEF Seen
  <2> QED BY <1>1, <1>2, <1>8, <1>9, <1>10, <2>1, <2>2, ProcessFacts DEF SeenStays, Answers
<1>15. CrashHasCause'
  BY <1>1, <1>2, <1>10, CrashSame
<1> QED BY <1>1, <1>11, <1>12, <1>13, <1>14, <1>15 DEF IInv, CrashInv

-----------------------------------------------------------------------------
(* Only the server crashes.                                                 *)

LEMMA StepKeeps ==
    ASSUME IInv, Typed', NEW q \in Processes, Step(q) PROVE IInv'
<1>1. CASE Exit(q)
  BY <1>1, ExitKeeps
<1>2. CASE ~Exit(q)
  <2>1. Effect(q)
    BY <1>2, AnswerEffect, SendTimeoutEffect, RecvTextEffect, RecvEndEffect,
       DrainEffect, RecvTimeoutEffect, PollEffect, RecvCallEffect DEF Step
  <2> QED BY <2>1, EffectKeeps
<1> QED BY <1>1, <1>2

LEMMA ClientStepKeeps ==
    ASSUME IInv, Typed', ClientStep PROVE IInv'
<1>1. CASE Step("client")
  BY <1>1, StepKeeps, ProcessFacts
<1>2. CASE ClientSendKey \/ ClientRecvKey \/ ClientKeys \/ ClientLeaves
  <2>1. Effect("client")
    BY <1>2, ClientSendKeyEffect, ClientRecvKeyEffect, ClientKeysEffect,
       ClientLeavesEffect
  <2> QED BY <2>1, EffectKeeps, ProcessFacts
<1> QED BY <1>1, <1>2 DEF ClientStep

LEMMA ServerStepKeeps ==
    ASSUME IInv, Typed', ServerStep PROVE IInv'
<1>1. CASE Step("server")
  BY <1>1, StepKeeps, ProcessFacts
<1>2. CASE \/ ServerRecvKey \/ ServerTest \/ ServerLeaves \/ PollTimeout
           \/ ServerOutput \/ PollInterrupted \/ SendInterrupted \/ RecvInterrupted
           \/ ServerWriteFails
  <2>1. Effect("server")
    BY <1>2, ServerRecvKeyEffect, ServerTestEffect, ServerLeavesEffect,
       PollTimeoutEffect, ServerOutputEffect, PollInterruptedEffect,
       SendInterruptedEffect, RecvInterruptedEffect, ServerWriteFailsEffect
  <2> QED BY <2>1, EffectKeeps, ProcessFacts
<1>3. CASE RecvName
  BY <1>3, RecvNameKeeps
<1>4. CASE ServerKills
  BY <1>4, ServerKillsKeeps
<1> QED BY <1>1, <1>2, <1>3, <1>4 DEF ServerStep

LEMMA SurroundingsKeep ==
    ASSUME IInv, Typed', Surroundings PROVE IInv'
<1>1. CASE UserTypes
  BY <1>1, SameKeeps DEF UserTypes, rudp, past
<1>2. CASE ShellWrites
  BY <1>2, SameKeeps DEF ShellWrites, rudp, past
<1>3. CASE KeyFails("client") \/ KeyFails("server")
  BY <1>3, KeyFailsEffect, EffectKeeps, ProcessFacts
<1>4. CASE LoginSucceeds \/ LoginFails \/ ShellExits
  BY <1>4, LoginSucceedsEffect, LoginFailsEffect, ShellExitsEffect, EffectKeeps,
     ProcessFacts
<1>5. CASE ShellStops
  BY <1>5, SameKeeps DEF ShellStops, Fault, Mishap, rudp
<1>6. CASE ClientBreaks
  BY <1>6, ClientBreaksEffect, EffectKeeps, ProcessFacts
<1> QED BY <1>1, <1>2, <1>3, <1>4, <1>5, <1>6 DEF Surroundings

LEMMA IInvStep == IInv /\ [Next]_vars => IInv'
<1> SUFFICES ASSUME IInv, [Next]_vars PROVE IInv'
  OBVIOUS
<1>1. Typed'
  BY IInvParts, NextTyped
<1>2. CASE ClientStep
  BY <1>1, <1>2, ClientStepKeeps
<1>3. CASE ServerStep
  BY <1>1, <1>3, ServerStepKeeps
<1>4. CASE KidStep
  BY <1>1, <1>4, StepKeeps, ProcessFacts DEF KidStep
<1>5. CASE Surroundings
  BY <1>1, <1>5, SurroundingsKeep
<1>6. CASE Network
  BY <1>1, <1>6, DropKeeps DEF Network
<1>7. CASE SigChld
  BY <1>1, <1>7, SameKeeps DEF SigChld, rudp, past
<1>8. CASE UNCHANGED vars
  BY <1>1, <1>8, SameKeeps DEF vars, rudp, past
<1> QED BY <1>2, <1>3, <1>4, <1>5, <1>6, <1>7, <1>8 DEF Next

LEMMA IInvInit == Init => IInv
<1> SUFFICES ASSUME Init PROVE IInv
  OBVIOUS
<1>1. Typed
  BY InitTyped
<1>2. /\ Place("start").at = "start" /\ Place("recvKey").at = "recvKey"
      /\ Place("none").at = "none"
  BY DEF Place
<1>3. At("client") = "start" /\ At("server") = "recvKey" /\ At("kid") = "none"
  BY <1>2 DEF Init, At
<1>4. /\ \A q \in Processes : ctl[q].seq = Hdr /\ ctl[q].ack = Hdr /\ todo[q] = {}
      /\ net["client"] = <<>> /\ net["server"] = <<>> /\ crashed = {}
  BY ProcessFacts DEF Init
<1>5. Hdr \in Nat
  BY UdpAssumption
<1>6. KidInStep
  BY <1>3, <1>4, ProcessFacts DEF KidInStep
<1>7. SendsCounted
  BY <1>3, ProcessFacts DEF SendsCounted, InSend, Sending
<1>8. AcksBehind
  BY <1>3, <1>4, <1>5, ProcessFacts DEF AcksBehind
<1>9. SeenStays
  BY <1>3, <1>4, ProcessFacts DEF SeenStays
<1>10. CrashHasCause
  BY <1>4 DEF CrashHasCause
<1> QED BY <1>1, <1>6, <1>7, <1>8, <1>9, <1>10 DEF IInv, CrashInv, Typed

\* Only the server ever takes an error code of rudp_recv for a length, and
\* only after the kid has given up, or its own rudp_send has consumed what was
\* not an answer.
THEOREM OnlyServerCrashes == Spec => []CrashHasCause
<1>1. IInv => CrashHasCause
  BY DEF IInv, CrashInv
<1> QED BY <1>1, IInvInit, IInvStep, PTL DEF Spec

-----------------------------------------------------------------------------
(* When text is garbled.  Until something meddles the two ends run in       *)
(* lockstep, or both wait in calls that will take the other's text, or one  *)
(* is over.                                                                 *)

\* q will neither decrypt nor encrypt any more.
Over(q) == At(q) \in {"close1", "close2", "drain", "kill", "exit", "gone"}

NoData(s) == \A i \in 1..Len(net[s]) : net[s][i].flag # "DATA"

\* What p sends and the other end has not received; what it has.
OnItsWay(p) == InSend(p) /\ ctl[Peer(p)].ack # ctl[p].seq
Heard(p) == InSend(p) /\ ctl[Peer(p)].ack = ctl[p].seq
TextOnItsWay(p) == OnItsWay(p) /\ At(p) # "sendKey"

Coming(p) == IF OnItsWay(Peer(p)) THEN <<call[Peer(p)].pkt>> ELSE <<>>

\* Nothing is in the network but what one end sends, and behind or without it
\* the acknowledgement of what the other has sent.
WireInStep ==
    \A p \in Sockets :
        /\ Heard(p) => /\ net[p] # <<>>
                       /\ Answers(p, Head(net[p]))
                       /\ Tail(net[p]) = Coming(p)
        /\ ~Heard(p) => net[p] = Coming(p)
        /\ ~(OnItsWay(p) /\ OnItsWay(Peer(p)))
        /\ ~(Heard(p) /\ Heard(Peer(p)))

\* Each control expects what the other end sends next.
ControlsInStep ==
    \A p \in Sockets :
        /\ InSend(p) => /\ call[p].i = 0 /\ call[p].pkt.flag = "DATA"
                        /\ ctl[p].seq = call[p].pkt.seq + Size("DATA")
        /\ ctl[Peer(p)].ack = IF OnItsWay(p) THEN call[p].pkt.seq ELSE ctl[p].seq

\* Each key is where the next text was, or will be, encrypted.
KeysInStep ==
    \A p \in Sockets :
        IF TextOnItsWay(p)
        THEN call[p].pkt.body = pos[p] /\ pos[p] = pos[Peer(p)] + 1
        ELSE ~TextOnItsWay(Peer(p)) => pos[p] = pos[Peer(p)]

\* How far each end can be when the other is at a place.
PlacesInStep ==
    /\ At("server") = "recvKey" =>
           At("client") = "start" \/ (At("client") = "sendKey" /\ OnItsWay("client"))
    /\ At("server") = "sendKey" =>
           \/ At("client") = "sendKey" /\ Heard("client") /\ OnItsWay("server")
           \/ At("client") = "recvKey" /\ OnItsWay("server")
           \/ At("client") = "sendName" /\ OnItsWay("client") /\ Heard("server")
    /\ At("server") = "recvName" => At("client") = "sendName" /\ OnItsWay("client")
    /\ At("server") \in {"loop", "poll", "recv", "send"} =>
           \/ At("client") = "sendName" /\ Heard("client")
           \/ At("client") \in {"loop", "recv", "send"}

SeenInStep ==
    \A p \in Sockets :
        "socket" \in todo[p] \/ At(p) = "recv" => ~InSend(p) /\ OnItsWay(Peer(p))

\* The two ends are in step ...
InLockstep ==
    /\ \A p \in Sockets : ~Over(p) /\ errno[p] = "other"
    /\ WireInStep /\ ControlsInStep /\ KeysInStep /\ PlacesInStep /\ SeenInStep

\* p waits for an acknowledgement and will get the other's text.
Stuck(p) == InSend(p) /\ net[p] # <<>> /\ Head(net[p]).flag = "DATA"

\* ... or both are ...
AboutToCross == \A p \in Sockets : Stuck(p)

\* ... or one of them will send no more text, and none of its is on the way.
OneIsOver ==
    \E p \in Sockets :
        /\ Over(p)
        /\ InSend(p) => call[p].pkt.flag = "FIN"
        /\ NoData(Peer(p))

\* The causes that GarbledHasCause allows.
Meddled ==
    Crossed \/ Lost \/ Late \/ GaveUp \/ Mishaps({"server"}, {"signal"})

\* With CrashInv, the invariant behind GarbledHasCause.
GarbleInv ==
    Meddled \/ (~garbled /\ (InLockstep \/ AboutToCross \/ OneIsOver))

\* For EarlyEndHasCause, below: how one of them leaves.

\* SIGCHLD has been raised, once, and handled: it is of the kid's end.
SignalSpent == Gone("kid") /\ ~chld.raised /\ chld.exit
SignalIsKids ==
    /\ chld.raised \/ chld.exit => Gone("kid")
    /\ ~(chld.raised /\ chld.exit)

\* The acknowledgement that p waits for, alone.
NoStray(p) ==
    \A i \in 1..Len(net[p]) :
        net[p][i].flag = "ACK" => i = 1 /\ InSend(p) /\ Answers(p, net[p][1])

\* p has sent its FIN, which the other end will receive as the next.
Waiting(p) ==
    LET o == Peer(p)
    IN  /\ At(p) = "close1" /\ call[p].pkt.flag = "FIN" /\ net[p] = <<>>
        /\ At(o) \notin {"start", "sendKey", "recvKey", "recvName"} /\ ~Over(o)
        /\ net[o] # <<>>
        /\ InSend(o) => Answers(o, Head(net[o])) /\ Tail(net[o]) # <<>>
        /\ \A i \in 1..Len(net[o]) :
              net[o][i].flag = "FIN" \/ (i = 1 /\ InSend(o))
        /\ p = "server" => SignalSpent

\* p waits and will get text, perhaps after one late acknowledgement.
TextNext(p) ==
    \/ Stuck(p)
    \/ /\ call[p].i = 0 /\ Len(net[p]) > 1 /\ net[p][2].flag = "DATA"
       /\ net[p][1].flag = "ACK" /\ ~Answers(p, net[p][1])

Trapped(p) ==
    At(p) = "close1" /\ call[p].pkt.flag = "FIN" /\ TextNext(p) /\ NoStray(Peer(p))

Departed(p) == At(p) \in {"exit", "gone"} /\ NoStray(Peer(p))

OneLeaves == \E p \in Sockets : Waiting(p) \/ Trapped(p) \/ Departed(p)

-----------------------------------------------------------------------------
(* Queues, and who is there to read them.                                   *)

LEMMA OtherSocket ==
    ASSUME NEW q \in Sockets
    PROVE  /\ q \in Processes /\ q # "kid" /\ Socket(q) = q
           /\ Peer(q) \in Sockets /\ Peer(q) \in Processes /\ Peer(q) # "kid"
           /\ Peer(q) # q /\ Peer(Peer(q)) = q /\ Socket(Peer(q)) = Peer(q)
           /\ \A p \in Sockets : p = q \/ p = Peer(q)
           /\ q = "client" => Peer(q) = "server"
           /\ q = "server" => Peer(q) = "client"
           /\ q = "client" \/ q = "server"
  BY ProcessFacts

LEMMA OneLonger ==
    ASSUME NEW S, NEW s \in Seq(S), NEW d \in S
    PROVE  /\ Append(s, d) \in Seq(S) /\ Append(s, d) # <<>>
           /\ Len(Append(s, d)) = Len(s) + 1
           /\ s = <<>> => Append(s, d) = <<d>>
           /\ s # <<>> => /\ Head(Append(s, d)) = Head(s)
                          /\ Tail(Append(s, d)) = Append(Tail(s), d)
           /\ Head(<<d>>) = d /\ Tail(<<d>>) = <<>> /\ <<d>> # <<>>
           /\ <<d>> \in Seq(S) /\ Len(<<d>>) = 1 /\ <<d>>[1] = d
           /\ \A i \in 1..Len(Append(s, d)) :
                 Append(s, d)[i] = IF i <= Len(s) THEN s[i] ELSE d
<1>1. /\ Append(s, d) \in Seq(S) /\ Append(s, d) # <<>>
      /\ Len(Append(s, d)) = Len(s) + 1
      /\ \A i \in 1..Len(s) : Append(s, d)[i] = s[i]
      /\ Append(s, d)[Len(s) + 1] = d /\ Len(s) \in Nat
  BY AppendProperties, LenProperties
<1>2. s = <<>> => Append(s, d) = <<d>>
  OBVIOUS
<1>3. /\ Head(<<d>>) = d /\ Tail(<<d>>) = <<>> /\ <<d>> # <<>>
      /\ <<d>> \in Seq(S) /\ Len(<<d>>) = 1 /\ <<d>>[1] = d
  OBVIOUS
<1>4. ASSUME s # <<>>
      PROVE  /\ Head(Append(s, d)) = Head(s)
             /\ Tail(Append(s, d)) = Append(Tail(s), d)
  <2>1. Len(s) > 0
    BY <1>1, <1>4, EmptySeq
  <2>2. /\ Tail(s) \in Seq(S) /\ Len(Tail(s)) = Len(s) - 1
        /\ \A i \in 1..Len(Tail(s)) : Tail(s)[i] = s[i + 1]
        /\ Head(s) = s[1]
    BY <1>4, HeadTailProperties
  <2>3. /\ Tail(Append(s, d)) \in Seq(S) /\ Len(Tail(Append(s, d))) = Len(s)
        /\ \A i \in 1..Len(s) : Tail(Append(s, d))[i] = Append(s, d)[i + 1]
        /\ Head(Append(s, d)) = Append(s, d)[1]
    BY <1>1, HeadTailProperties
  <2>4. /\ Append(Tail(s), d) \in Seq(S) /\ Len(Append(Tail(s), d)) = Len(s)
        /\ \A i \in 1..Len(Tail(s)) : Append(Tail(s), d)[i] = Tail(s)[i]
        /\ Append(Tail(s), d)[Len(s)] = d
    <3>1. /\ Append(Tail(s), d) \in Seq(S)
          /\ Len(Append(Tail(s), d)) = Len(Tail(s)) + 1
          /\ \A i \in 1..Len(Tail(s)) : Append(Tail(s), d)[i] = Tail(s)[i]
          /\ Append(Tail(s), d)[Len(Tail(s)) + 1] = d
      BY <2>2, AppendProperties
    <3> QED BY <1>1, <2>2, <3>1
  <2>5. \A i \in 1..Len(s) : Tail(Append(s, d))[i] = Append(Tail(s), d)[i]
    <3> TAKE i \in 1..Len(s)
    <3>1. CASE i < Len(s)
      <4>1. i \in 1..Len(Tail(s)) /\ i + 1 \in 1..Len(s)
        BY <1>1, <2>2, <3>1
      <4>2. Append(Tail(s), d)[i] = Tail(s)[i] /\ Tail(s)[i] = s[i + 1]
        BY <2>2, <2>4, <4>1
      <4>3. Tail(Append(s, d))[i] = Append(s, d)[i + 1] /\ Append(s, d)[i + 1] = s[i + 1]
        BY <1>1, <2>3, <4>1
      <4> QED BY <4>2, <4>3
    <3>2. CASE i = Len(s)
      BY <1>1, <2>3, <2>4, <3>2
    <3> QED BY <1>1, <3>1, <3>2
  <2>6. Tail(Append(s, d)) = Append(Tail(s), d)
    BY <2>3, <2>4, <2>5, SeqEqual
  <2> QED BY <1>1, <2>1, <2>3, <2>6
<1>5. \A i \in 1..Len(Append(s, d)) :
          Append(s, d)[i] = IF i <= Len(s) THEN s[i] ELSE d
  BY <1>1
<1> QED BY <1>1, <1>2, <1>3, <1>4, <1>5

LEMMA PutAlive ==
    ASSUME NEW s \in Sockets, At(s) \notin {"none", "shell", "gone"},
           NEW n \in NetType, NEW d \in Datagram
    PROVE  /\ Put(n, s, d)[s] = Append(n[s], d)
           /\ Put(n, s, d)[Peer(s)] = n[Peer(s)]
           /\ Put(n, s, d) \in NetType
<1>1. ~Dead(s)
  BY OtherSocket DEF Dead
<1>2. Put(n, s, d) = [n EXCEPT ![s] = Append(@, d)]
  BY <1>1 DEF Put
<1> QED BY <1>2, OtherSocket, PutFacts DEF NetType

LEMMA NotQuiet ==
    ASSUME NEW s \in Sockets, net[s] # <<>>,
           At(s) \notin {"none", "login", "shell", "gone"}
    PROVE  ~Quiet
  BY OtherSocket DEF Quiet

-----------------------------------------------------------------------------
(* In step: what there is.                                                  *)

\* The other end does nothing.
Still(q) ==
    /\ call'[Peer(q)] = call[Peer(q)] /\ ctl'[Peer(q)] = ctl[Peer(q)]
    /\ todo'[Peer(q)] = todo[Peer(q)] /\ errno'[Peer(q)] = errno[Peer(q)]
    /\ pos'[Peer(q)] = pos[Peer(q)]

\* The parts of InLockstep that the two programs have no part in.
InStepOnWire == WireInStep /\ ControlsInStep

LEMMA StillWay ==
    ASSUME NEW q \in Sockets, Still(q)
    PROVE  /\ InSend(Peer(q))' <=> InSend(Peer(q))
           /\ At(Peer(q))' = At(Peer(q))
           /\ ctl'[q].ack = ctl[q].ack =>
                  /\ OnItsWay(Peer(q))' <=> OnItsWay(Peer(q))
                  /\ Heard(Peer(q))' <=> Heard(Peer(q))
  BY OtherSocket DEF Still, InSend, At, OnItsWay, Heard

\* What each end finds.
LEMMA WireFacts ==
    ASSUME TypeOK, WireInStep, ControlsInStep, NEW q \in Sockets
    PROVE  /\ net[q] \in Seq(Datagram) /\ ctl[q] \in Control /\ call[q] \in Call
           /\ ~InSend(q) => ~OnItsWay(q) /\ ~Heard(q)
           /\ InSend(q) => (OnItsWay(q) \/ Heard(q)) /\ ~(OnItsWay(q) /\ Heard(q))
           /\ ~OnItsWay(q) => ctl[Peer(q)].ack = ctl[q].seq
           /\ OnItsWay(q) => ctl[Peer(q)].ack = call[q].pkt.seq
           /\ InSend(q) => /\ call[q].pkt.flag = "DATA" /\ call[q].i = 0
                           /\ ctl[q].seq = call[q].pkt.seq + Size("DATA")
           /\ Heard(q) => /\ net[q] # <<>> /\ Answers(q, Head(net[q]))
                          /\ Tail(net[q]) = Coming(q)
           /\ ~Heard(q) => net[q] = Coming(q)
           /\ ~(OnItsWay(q) /\ OnItsWay(Peer(q)))
           /\ ~(Heard(q) /\ Heard(Peer(q)))
           /\ OnItsWay(Peer(q)) => Coming(q) = <<call[Peer(q)].pkt>>
           /\ ~OnItsWay(Peer(q)) => Coming(q) = <<>>
<1>1. net[q] \in Seq(Datagram) /\ ctl[q] \in Control /\ call[q] \in Call
  BY OtherSocket, TypeParts DEF NetType
<1>2. (~InSend(q) => ~OnItsWay(q) /\ ~Heard(q))
      /\ (InSend(q) => (OnItsWay(q) \/ Heard(q)) /\ ~(OnItsWay(q) /\ Heard(q)))
  BY DEF OnItsWay, Heard
<1>3. /\ ~OnItsWay(q) => ctl[Peer(q)].ack = ctl[q].seq
      /\ OnItsWay(q) => ctl[Peer(q)].ack = call[q].pkt.seq
      /\ InSend(q) => /\ call[q].pkt.flag = "DATA" /\ call[q].i = 0
                      /\ ctl[q].seq = call[q].pkt.seq + Size("DATA")
  BY DEF ControlsInStep
<1>4. /\ Heard(q) => /\ net[q] # <<>> /\ Answers(q, Head(net[q]))
                     /\ Tail(net[q]) = Coming(q)
      /\ ~Heard(q) => net[q] = Coming(q)
      /\ ~(OnItsWay(q) /\ OnItsWay(Peer(q)))
      /\ ~(Heard(q) /\ Heard(Peer(q)))
  BY DEF WireInStep
<1>5. /\ OnItsWay(Peer(q)) => Coming(q) = <<call[Peer(q)].pkt>>
      /\ ~OnItsWay(Peer(q)) => Coming(q) = <<>>
  BY DEF Coming
<1> QED BY <1>1, <1>2, <1>3, <1>4, <1>5

\* The two ends' sides of the wire make the whole.
WireAt(p) ==
    /\ Heard(p) => /\ net[p] # <<>>
                   /\ Answers(p, Head(net[p]))
                   /\ Tail(net[p]) = Coming(p)
    /\ ~Heard(p) => net[p] = Coming(p)
    /\ InSend(p) => /\ call[p].i = 0 /\ call[p].pkt.flag = "DATA"
                    /\ ctl[p].seq = call[p].pkt.seq + Size("DATA")
    /\ OnItsWay(p) => ctl[Peer(p)].ack = call[p].pkt.seq
    /\ ~OnItsWay(p) => ctl[Peer(p)].ack = ctl[p].seq

LEMMA WireFrom ==
    ASSUME NEW q \in Sockets, NEW o, o = Peer(q), WireAt(q)', WireAt(o)',
           ~(OnItsWay(q)' /\ OnItsWay(o)'), ~(Heard(q)' /\ Heard(o)')
    PROVE  InStepOnWire'
<1>1. \A p \in Sockets : (p = q /\ Peer(p) = o) \/ (p = o /\ Peer(p) = q)
  BY OtherSocket
<1>2. WireInStep'
  BY <1>1 DEF WireInStep, WireAt
<1>3. ControlsInStep'
  BY <1>1 DEF ControlsInStep, WireAt
<1> QED BY <1>2, <1>3 DEF InStepOnWire

\* q goes to another place, and does not send there or before.
LEMMA GoesOnWire ==
    ASSUME TypeOK, WireInStep, ControlsInStep, NEW q \in Sockets,
           Still(q), net' = net, ctl' = ctl, ~InSend(q), ~InSend(q)'
    PROVE  InStepOnWire' /\ (OnItsWay(Peer(q))' <=> OnItsWay(Peer(q)))
           /\ (Heard(Peer(q))' <=> Heard(Peer(q)))
<1> DEFINE o == Peer(q)
<1>1. /\ o \in Sockets /\ Peer(o) = q /\ Peer(q) = o
  BY OtherSocket
<1>2. (OnItsWay(o)' <=> OnItsWay(o)) /\ (Heard(o)' <=> Heard(o))
      /\ (InSend(o)' <=> InSend(o)) /\ call'[o] = call[o]
  BY StillWay DEF Still
<1>3. ~OnItsWay(q)' /\ ~Heard(q)' /\ ~OnItsWay(q) /\ ~Heard(q)
  BY DEF OnItsWay, Heard
<1>4. Coming(q)' = Coming(q) /\ Coming(o)' = Coming(o)
  BY <1>1, <1>2, <1>3 DEF Coming
<1>5. Answers(o, Head(net[o]))' = Answers(o, Head(net[o]))
  BY DEF Answers
<1> HIDE DEF o
<1>6. WireAt(q)' /\ WireAt(o)'
  BY <1>1, <1>2, <1>3, <1>4, <1>5, WireFacts DEF WireAt
<1>7. InStepOnWire'
  BY <1>1, <1>3, <1>6, WireFrom
<1> QED BY <1>2, <1>7 DEF o

\* q sends a text.
LEMMA SendsOnWire ==
    ASSUME TypeOK, WireInStep, ControlsInStep, NEW q \in Sockets, Still(q),
           ~InSend(q), InSend(q)', NEW d \in Datagram, d.flag = "DATA",
           d.seq = ctl[q].seq, call'[q].pkt = d, call'[q].i = 0,
           ctl'[q].seq = ctl[q].seq + Size("DATA"), ctl'[q].ack = ctl[q].ack,
           net'[q] = net[q], net'[Peer(q)] = Append(net[Peer(q)], d)
    PROVE  /\ OnItsWay(Peer(q)) => AboutToCross'
           /\ ~OnItsWay(Peer(q)) =>
                 /\ InStepOnWire' /\ OnItsWay(q)' /\ ~OnItsWay(Peer(q))'
                 /\ (Heard(Peer(q))' <=> Heard(Peer(q)))
<1> DEFINE o == Peer(q)
<1>1. /\ o \in Sockets /\ Peer(o) = q /\ Peer(q) = o
      /\ \A p \in Sockets : p = q \/ p = o
      /\ net'[o] = Append(net[o], d)
  BY OtherSocket
<1>2. (OnItsWay(o)' <=> OnItsWay(o)) /\ (Heard(o)' <=> Heard(o))
      /\ (InSend(o)' <=> InSend(o)) /\ call'[o] = call[o] /\ ctl'[o] = ctl[o]
  BY StillWay DEF Still
<1>3. ~OnItsWay(q) /\ ~Heard(q) /\ ctl[o].ack = ctl[q].seq /\ ctl[q] \in Control
      /\ net[o] \in Seq(Datagram)
  BY <1>1, WireFacts
<1>4. Size("DATA") \in Nat /\ Size("DATA") > 0
  BY SizeType
<1>5. OnItsWay(q)' /\ ~Heard(q)'
  <2>1. ctl'[o].ack # ctl'[q].seq
    BY <1>2, <1>3, <1>4 DEF Control
  <2> QED BY <2>1 DEF OnItsWay, Heard
<1>6. Coming(q)' = Coming(q) /\ Coming(o)' = <<d>> /\ Coming(o) = <<>>
  BY <1>1, <1>2, <1>3, <1>5 DEF Coming
<1> HIDE DEF o
<1>8. ASSUME OnItsWay(o) PROVE AboutToCross'
  <2>1. ~Heard(o) /\ InSend(o) /\ call[o].pkt.flag = "DATA"
    BY <1>1, <1>8, WireFacts DEF OnItsWay, Heard
  <2>2. net[o] = <<>> /\ net[q] = <<call[o].pkt>>
    BY <1>1, <1>3, <1>6, <1>8, <2>1, WireFacts
  <2>3. net'[o] = <<d>> /\ net'[q] = <<call[o].pkt>>
    BY <1>1, <1>3, <2>2, OneLonger
  <2>4. Stuck(q)' /\ Stuck(o)'
    BY <1>2, <2>1, <2>3 DEF Stuck
  <2> QED BY <1>1, <2>4 DEF AboutToCross
<1>9. ASSUME ~OnItsWay(o) PROVE InStepOnWire'
  <2>1. net'[q] = Coming(q)'
    BY <1>3, <1>6, WireFacts
  <2>2. Heard(o)' => /\ net'[o] # <<>> /\ Answers(o, Head(net[o]))'
                     /\ Tail(net'[o]) = Coming(o)'
    <3> SUFFICES ASSUME Heard(o)
                 PROVE  /\ net'[o] # <<>> /\ Answers(o, Head(net[o]))'
                        /\ Tail(net'[o]) = <<d>>
      BY <1>2, <1>6
    <3>1. net[o] # <<>> /\ Answers(o, Head(net[o])) /\ Tail(net[o]) = <<>>
      BY <1>1, <1>6, WireFacts
    <3>2. /\ Append(net[o], d) # <<>> /\ Head(Append(net[o], d)) = Head(net[o])
          /\ Tail(Append(net[o], d)) = Append(Tail(net[o]), d)
      BY <1>3, <3>1, OneLonger
    <3>3. Append(<<>>, d) = <<d>>
      OBVIOUS
    <3>4. net'[o] # <<>> /\ Head(net'[o]) = Head(net[o]) /\ Tail(net'[o]) = <<d>>
      BY <1>1, <3>1, <3>2, <3>3
    <3> QED BY <1>2, <3>1, <3>4 DEF Answers
  <2>3. ~Heard(o)' => net'[o] = Coming(o)'
    <3>1. ~Heard(o) => net[o] = <<>>
      BY <1>1, <1>6, WireFacts
    <3> QED BY <1>1, <1>2, <1>3, <1>6, <3>1, OneLonger
  <2>4. /\ InSend(o)' => /\ call'[o].i = 0 /\ call'[o].pkt.flag = "DATA"
                         /\ ctl'[o].seq = call'[o].pkt.seq + Size("DATA")
        /\ ctl'[q].ack = ctl'[o].seq
    BY <1>1, <1>2, <1>9, WireFacts
  <2>5. /\ call'[q].i = 0 /\ call'[q].pkt.flag = "DATA"
        /\ ctl'[q].seq = call'[q].pkt.seq + Size("DATA")
        /\ ctl'[o].ack = call'[q].pkt.seq
    BY <1>2, <1>3
  <2>6. ~OnItsWay(o)'
    BY <1>2, <1>9
  <2>7. WireAt(q)' /\ WireAt(o)'
    BY <1>1, <1>5, <2>1, <2>2, <2>3, <2>4, <2>5, <2>6 DEF WireAt
  <2> QED BY <1>1, <1>5, <2>6, <2>7, WireFrom
<1> QED BY <1>2, <1>5, <1>8, <1>9 DEF o

\* What q receives is what the other end waits with; and it is acknowledged.
LEMMA Comes ==
    ASSUME TypeOK, WireInStep, ControlsInStep, NEW q \in Sockets, ~InSend(q),
           net[q] # <<>>
    PROVE  /\ OnItsWay(Peer(q)) /\ Arrived(q) = call[Peer(q)].pkt
           /\ Arrived(q).flag = "DATA" /\ Arrived(q) \in Datagram
           /\ net[q] = <<Arrived(q)>> /\ net[Peer(q)] = <<>>
           /\ Noted(q) \in Control /\ Noted(q).seq = ctl[q].seq
           /\ Noted(q).ack = ctl[Peer(q)].seq
<1> DEFINE o == Peer(q)
<1>1. /\ o \in Sockets /\ Peer(o) = q /\ Peer(q) = o /\ q \in Processes
      /\ Socket(q) = q
  BY OtherSocket
<1>2. ~Heard(q) /\ net[q] = Coming(q) /\ OnItsWay(o) /\ Coming(q) = <<call[o].pkt>>
  BY <1>1, WireFacts
<1>3. InSend(o) /\ ~Heard(o) /\ ~OnItsWay(q)
  BY <1>2 DEF OnItsWay, Heard
<1>4. /\ call[o].pkt.flag = "DATA" /\ ctl[o].seq = call[o].pkt.seq + Size("DATA")
      /\ ctl[q].ack = call[o].pkt.seq /\ net[o] = <<>>
  BY <1>1, <1>2, <1>3, WireFacts
<1>5. Arrived(q) = call[o].pkt
  BY <1>1, <1>2 DEF Arrived
<1>6. /\ Noted(q) \in Control /\ Noted(q).seq = ctl[q].seq
      /\ Noted(q).ack = IF Arrived(q).seq = ctl[q].ack
                        THEN ctl[q].ack + Size(Arrived(q).flag)
                        ELSE ctl[q].ack
      /\ Arrived(q) \in Datagram
  BY <1>1, NotedFacts, ArrivedFacts
<1> QED BY <1>2, <1>4, <1>5, <1>6

LEMMA AckSent ==
    ASSUME TypeOK, WireInStep, ControlsInStep, NEW q \in Sockets, ~InSend(q),
           net[q] # <<>>, At(Peer(q)) \notin {"none", "shell", "gone"}
    PROVE  /\ Acked(q) \in NetType /\ Acked(q)[q] = <<>>
           /\ Acked(q)[Peer(q)] = <<Packet(Noted(q), "ACK", 0)>>
           /\ Packet(Noted(q), "ACK", 0) \in Datagram
           /\ Packet(Noted(q), "ACK", 0).flag = "ACK"
           /\ Packet(Noted(q), "ACK", 0).ack = ctl[Peer(q)].seq
<1> DEFINE o == Peer(q)
           a == Packet(Noted(q), "ACK", 0)
<1>1. /\ o \in Sockets /\ Peer(o) = q /\ Peer(q) = o /\ q \in Processes
      /\ Socket(q) = q
  BY OtherSocket
<1>2. /\ Noted(q) \in Control /\ Noted(q).ack = ctl[o].seq
      /\ net[q] = <<Arrived(q)>> /\ net[o] = <<>>
  BY <1>1, Comes
<1>3. a \in Datagram /\ a.flag = "ACK" /\ a.ack = ctl[o].seq
  BY <1>2, PacketType
<1> HIDE DEF a
<1>4. Rest(q) \in NetType /\ Rest(q)[q] = <<>> /\ Rest(q)[o] = <<>>
  <2>1. Tail(<<Arrived(q)>>) = <<>> /\ net[q] # <<>>
    BY <1>2
  <2>2. Tail(net[q]) = <<>>
    BY <1>2, <2>1
  <2>3. /\ Rest(q) \in NetType /\ Rest(q)[q] = Tail(net[q])
        /\ Rest(q)[o] = net[o]
    BY <1>1, <2>1, ArrivedFacts, TypeParts DEF Rest, NetType
  <2> QED BY <1>2, <2>2, <2>3
<1>5. Append(<<>>, a) = <<a>>
  OBVIOUS
<1>6. /\ Put(Rest(q), o, a)[o] = Append(Rest(q)[o], a)
      /\ Put(Rest(q), o, a)[q] = Rest(q)[q] /\ Put(Rest(q), o, a) \in NetType
  BY <1>1, <1>3, <1>4, PutAlive
<1> QED BY <1>1, <1>3, <1>4, <1>5, <1>6 DEF Acked, a

\* q has received the other end's text.
LEMMA PassesOnWire ==
    ASSUME TypeOK, WireInStep, ControlsInStep, NEW q \in Sockets, Still(q),
           ~InSend(q), ~InSend(q)', net[q] # <<>>,
           At(Peer(q)) \notin {"none", "shell", "gone"},
           net' = Acked(q), ctl'[q] = Noted(q)
    PROVE  InStepOnWire' /\ Heard(Peer(q))' /\ ~OnItsWay(Peer(q))'
<1> DEFINE o == Peer(q)
<1>1. /\ o \in Sockets /\ Peer(o) = q /\ Peer(q) = o
  BY OtherSocket
<1>2. /\ OnItsWay(o) /\ ctl'[q].seq = ctl[q].seq /\ ctl'[q].ack = ctl[o].seq
  BY <1>1, Comes
<1>3. /\ (InSend(o)' <=> InSend(o)) /\ call'[o] = call[o] /\ ctl'[o] = ctl[o]
  BY StillWay DEF Still
<1>4. /\ net'[q] = <<>> /\ net'[o] # <<>> /\ Tail(net'[o]) = <<>>
      /\ Answers(o, Head(net[o]))'
  <2> DEFINE a == Packet(Noted(q), "ACK", 0)
  <2>1. net'[q] = <<>> /\ net'[o] = <<a>> /\ a.flag = "ACK" /\ a.ack = ctl[o].seq
    BY <1>1, AckSent
  <2> HIDE DEF a
  <2>2. <<a>> # <<>> /\ Tail(<<a>>) = <<>> /\ Head(<<a>>) = a
    OBVIOUS
  <2>3. net'[o] # <<>> /\ Tail(net'[o]) = <<>> /\ Head(net'[o]) = a
    BY <2>1, <2>2
  <2> QED BY <1>3, <2>1, <2>3 DEF Answers
<1>5. Heard(o)' /\ ~OnItsWay(o)' /\ ~Heard(q)' /\ ~OnItsWay(q)' /\ ~OnItsWay(q)
  BY <1>1, <1>2, <1>3 DEF Heard, OnItsWay
<1>6. Coming(q)' = <<>> /\ Coming(o)' = <<>>
  BY <1>1, <1>5 DEF Coming
<1>7. /\ call[o].i = 0 /\ call[o].pkt.flag = "DATA"
      /\ ctl[o].seq = call[o].pkt.seq + Size("DATA")
      /\ ctl[o].ack = ctl[q].seq
  BY <1>1, <1>2, <1>5, WireFacts DEF OnItsWay
<1> HIDE DEF o
<1>8. WireAt(q)' /\ WireAt(o)'
  BY <1>1, <1>2, <1>3, <1>4, <1>5, <1>6, <1>7 DEF WireAt
<1>9. InStepOnWire'
  BY <1>1, <1>5, <1>8, WireFrom
<1> QED BY <1>5, <1>9 DEF o

\* q has received the other end's text, and sends its own.
LEMMA RepliesOnWire ==
    ASSUME TypeOK, WireInStep, ControlsInStep, NEW q \in Sockets, Still(q),
           ~InSend(q), InSend(q)', net[q] # <<>>,
           At(Peer(q)) \notin {"none", "shell", "gone"},
           NEW d \in Datagram, d.flag = "DATA", d.seq = ctl[q].seq,
           call'[q].pkt = d, call'[q].i = 0,
           ctl'[q].seq = ctl[q].seq + Size("DATA"), ctl'[q].ack = Noted(q).ack,
           net' = Put(Acked(q), Peer(q), d)
    PROVE  /\ InStepOnWire' /\ OnItsWay(q)'
           /\ Heard(Peer(q))' /\ ~OnItsWay(Peer(q))'
<1> DEFINE o == Peer(q)
           a == Packet(Noted(q), "ACK", 0)
<1>1. /\ o \in Sockets /\ Peer(o) = q /\ Peer(q) = o
  BY OtherSocket
<1>2. /\ OnItsWay(o) /\ ctl'[q].ack = ctl[o].seq
  BY <1>1, Comes
<1>3. /\ (InSend(o)' <=> InSend(o)) /\ call'[o] = call[o] /\ ctl'[o] = ctl[o]
  BY StillWay DEF Still
<1>4. /\ Acked(q) \in NetType /\ Acked(q)[q] = <<>> /\ Acked(q)[o] = <<a>>
      /\ a \in Datagram /\ a.flag = "ACK" /\ a.ack = ctl[o].seq
  BY <1>1, AckSent
<1> HIDE DEF a
<1>5. net'[o] = Append(<<a>>, d) /\ net'[q] = <<>>
  <2> DEFINE n == Acked(q)
  <2>1. n \in NetType /\ net' = Put(n, o, d) /\ At(o) \notin {"none", "shell", "gone"}
    BY <1>4
  <2> HIDE DEF n
  <2>2. Put(n, o, d)[o] = Append(n[o], d) /\ Put(n, o, d)[Peer(o)] = n[Peer(o)]
    BY <1>1, <2>1, PutAlive
  <2> QED BY <1>1, <1>4, <2>1, <2>2 DEF n
<1>6. <<a>> \in Seq(Datagram) /\ <<a>> # <<>> /\ Head(<<a>>) = a /\ Tail(<<a>>) = <<>>
  BY <1>4
<1>7. Append(<<>>, d) = <<d>>
  OBVIOUS
<1>8. net'[o] # <<>> /\ Head(net'[o]) = a /\ Tail(net'[o]) = <<d>>
  <2>1. /\ Append(<<a>>, d) # <<>> /\ Head(Append(<<a>>, d)) = Head(<<a>>)
        /\ Tail(Append(<<a>>, d)) = Append(Tail(<<a>>), d)
    BY <1>6, OneLonger
  <2> QED BY <1>5, <1>6, <1>7, <2>1
<1>9. ~OnItsWay(q) /\ ctl[o].ack = ctl[q].seq /\ ctl[q].seq \in Nat
  BY <1>1, WireFacts DEF OnItsWay, Control
<1>10. Size("DATA") \in Nat /\ Size("DATA") > 0
  BY SizeType
<1>11. OnItsWay(q)' /\ ~Heard(q)'
  <2>1. ctl'[o].ack # ctl'[q].seq
    BY <1>3, <1>9, <1>10
  <2> QED BY <2>1 DEF OnItsWay, Heard
<1>12. Heard(o)' /\ ~OnItsWay(o)'
  BY <1>1, <1>2, <1>3 DEF Heard, OnItsWay
<1>13. Coming(q)' = <<>> /\ Coming(o)' = <<d>>
  BY <1>1, <1>11, <1>12 DEF Coming
<1>14. Answers(o, Head(net[o]))'
  BY <1>3, <1>4, <1>8 DEF Answers
<1>15. /\ call[o].i = 0 /\ call[o].pkt.flag = "DATA"
       /\ ctl[o].seq = call[o].pkt.seq + Size("DATA")
  BY <1>1, <1>2, WireFacts DEF OnItsWay
<1> HIDE DEF o
<1>16. WireAt(q)' /\ WireAt(o)'
  BY <1>1, <1>2, <1>3, <1>5, <1>8, <1>9, <1>11, <1>12, <1>13, <1>14, <1>15 DEF WireAt
<1>17. InStepOnWire'
  BY <1>1, <1>11, <1>12, <1>16, WireFrom
<1> QED BY <1>11, <1>12, <1>17 DEF o

\* q gets the answer it waits for.
LEMMA AnswerOnWire ==
    ASSUME TypeOK, WireInStep, ControlsInStep, NEW q \in Sockets, Still(q),
           InSend(q), ~InSend(q)', net[q] # <<>>, ctl' = ctl, net' = Rest(q)
    PROVE  /\ InStepOnWire' /\ (OnItsWay(Peer(q))' <=> OnItsWay(Peer(q)))
           /\ Heard(q) /\ Answers(q, Arrived(q)) /\ ~OnItsWay(q)
           /\ ~Heard(Peer(q))'
<1> DEFINE o == Peer(q)
<1>1. /\ o \in Sockets /\ Peer(o) = q /\ Peer(q) = o /\ q \in Processes
      /\ Socket(q) = q
  BY OtherSocket
<1>2. Heard(q) /\ ~OnItsWay(q) /\ Answers(q, Arrived(q)) /\ Tail(net[q]) = Coming(q)
  <2>1. OnItsWay(q) => net[q] = <<>>
    BY <1>1, WireFacts
  <2> QED BY <1>1, <2>1, WireFacts DEF Arrived
<1>3. net'[q] = Coming(q) /\ net'[o] = net[o]
  BY <1>1, <1>2, ArrivedFacts
<1>4. /\ (InSend(o)' <=> InSend(o)) /\ call'[o] = call[o]
      /\ (OnItsWay(o)' <=> OnItsWay(o)) /\ (Heard(o)' <=> Heard(o))
  BY StillWay DEF Still
<1>5. ~OnItsWay(q)' /\ ~Heard(q)' /\ ~Heard(o)
  BY <1>1, <1>2, WireFacts DEF OnItsWay, Heard
<1>6. Coming(q)' = Coming(q) /\ Coming(o)' = Coming(o)
  BY <1>1, <1>2, <1>4, <1>5 DEF Coming
<1> HIDE DEF o
<1>7. /\ ctl[o].ack = ctl[q].seq /\ net[o] = Coming(o)
      /\ OnItsWay(o) => ctl[q].ack = call[o].pkt.seq
      /\ ~OnItsWay(o) => ctl[q].ack = ctl[o].seq
      /\ InSend(o) => /\ call[o].i = 0 /\ call[o].pkt.flag = "DATA"
                      /\ ctl[o].seq = call[o].pkt.seq + Size("DATA")
  BY <1>1, <1>2, <1>5, WireFacts
<1>8. Answers(o, Head(net[o]))' = Answers(o, Head(net[o]))
  BY <1>3 DEF Answers
<1>9. WireAt(q)' /\ WireAt(o)'
  BY <1>1, <1>3, <1>4, <1>5, <1>6, <1>7 DEF WireAt
<1>10. InStepOnWire'
  BY <1>1, <1>5, <1>9, WireFrom
<1> QED BY <1>2, <1>4, <1>5, <1>10 DEF o

-----------------------------------------------------------------------------
(* In step: where the two ends are, and what they find.                     *)

LEMMA LockFacts ==
    ASSUME IInv, InLockstep
    PROVE  /\ Typed /\ TypeOK /\ InProgram /\ WireInStep /\ ControlsInStep
           /\ KeysInStep /\ PlacesInStep /\ SeenInStep
           /\ errno["client"] = "other" /\ errno["server"] = "other"
           /\ At("client") \in {"start", "sendKey", "recvKey", "sendName", "loop",
                                "recv", "send"}
           /\ At("server") \in {"recvKey", "sendKey", "recvName", "loop", "poll",
                                "recv", "send"}
           /\ InSend("client") <=> At("client") \in {"sendKey", "sendName", "send"}
           /\ InSend("server") <=> At("server") \in {"sendKey", "send"}
           /\ OnItsWay("client") => InSend("client")
           /\ OnItsWay("server") => InSend("server")
           /\ Heard("client") => InSend("client") /\ ~OnItsWay("client")
           /\ Heard("server") => InSend("server") /\ ~OnItsWay("server")
<1>1. Typed /\ TypeOK /\ InProgram
  BY IInvParts
<1>2. /\ WireInStep /\ ControlsInStep
      /\ KeysInStep /\ PlacesInStep /\ SeenInStep
      /\ errno["client"] = "other" /\ errno["server"] = "other"
      /\ ~Over("client") /\ ~Over("server")
  BY ProcessFacts DEF InLockstep
<1>3. At("client") \in Program["client"] /\ At("server") \in Program["server"]
  BY <1>1, ProcessFacts DEF InProgram
<1>4. /\ At("client") \in {"start", "sendKey", "recvKey", "sendName", "loop",
                           "recv", "send"}
      /\ At("server") \in {"recvKey", "sendKey", "recvName", "loop", "poll",
                           "recv", "send"}
  BY <1>2, <1>3, ProgramFacts DEF Over
<1>5. /\ InSend("client") <=> At("client") \in {"sendKey", "sendName", "send"}
      /\ InSend("server") <=> At("server") \in {"sendKey", "send"}
  BY <1>4 DEF InSend, Sending
<1>6. /\ OnItsWay("client") => InSend("client")
      /\ OnItsWay("server") => InSend("server")
      /\ Heard("client") => InSend("client") /\ ~OnItsWay("client")
      /\ Heard("server") => InSend("server") /\ ~OnItsWay("server")
  BY DEF OnItsWay, Heard
<1> QED BY <1>1, <1>2, <1>4, <1>5, <1>6

LEMMA LockFrom ==
    ASSUME InStepOnWire', KeysInStep', PlacesInStep', SeenInStep',
           ~Over("client")', ~Over("server")',
           errno'["client"] = "other", errno'["server"] = "other"
    PROVE  InLockstep'
  BY ProcessFacts DEF InLockstep, InStepOnWire

LEMMA SeqLess ==
    ASSUME NEW s, NEW d, s = <<d>> \/ s = <<>>, d.flag # "DATA"
    PROVE  \A i \in 1..Len(s) : s[i].flag # "DATA"
<1>1. Len(<<d>>) = 1 /\ <<d>>[1] = d /\ Len(<<>>) = 0
  OBVIOUS
<1>2. CASE s = <<d>>
  BY <1>1, <1>2
<1>3. CASE s = <<>>
  BY <1>1, <1>3
<1> QED BY <1>2, <1>3

\* Who sends nothing has no text on its way.
LEMMA NothingSent ==
    ASSUME TypeOK, WireInStep, ControlsInStep, NEW q \in Sockets, ~InSend(q)
    PROVE  /\ NoData(Peer(q))
           /\ net[Peer(q)] = <<>> \/ net[Peer(q)] = <<Head(net[Peer(q)])>>
           /\ net[Peer(q)] # <<>> => Head(net[Peer(q)]).flag = "ACK"
<1> DEFINE o == Peer(q)
<1>1. /\ o \in Sockets /\ Peer(o) = q
  BY OtherSocket
<1>2. net[o] \in Seq(Datagram) /\ ~OnItsWay(q) /\ ~Heard(q) /\ Coming(o) = <<>>
  BY <1>1, WireFacts
<1>3. /\ Heard(o) => /\ net[o] # <<>> /\ Answers(o, Head(net[o]))
                     /\ Tail(net[o]) = <<>>
      /\ ~Heard(o) => net[o] = <<>>
  BY <1>1, <1>2, WireFacts
<1> HIDE DEF o
<1>4. ASSUME Heard(o) PROVE net[o] = <<Head(net[o])>>
  <2>1. net[o] # <<>> /\ Tail(net[o]) = <<>>
    BY <1>3, <1>4
  <2>2. /\ Len(Tail(net[o])) = Len(net[o]) - 1 /\ Head(net[o]) = net[o][1]
        /\ Len(net[o]) \in Nat
    BY <1>2, <2>1, HeadTailProperties, LenProperties
  <2>3. Len(net[o]) = 1
    <3>1. Len(<<>>) = 0
      OBVIOUS
    <3>2. Len(Tail(net[o])) = 0
      BY <2>1, <3>1
    <3> QED BY <2>2, <3>2
  <2> QED BY <1>2, <2>2, <2>3
<1>5. net[o] # <<>> => Head(net[o]).flag = "ACK"
  BY <1>3 DEF Answers
<1>6. NoData(o)
  <2>1. CASE Heard(o)
    BY <1>3, <1>4, <1>5, <2>1, SeqLess DEF NoData
  <2>2. CASE ~Heard(o)
    BY <1>3, <2>2 DEF NoData
  <2> QED BY <2>1, <2>2
<1> QED BY <1>3, <1>4, <1>5, <1>6 DEF o

\* What a sender's queue begins with is the answer.
LEMMA Expected ==
    ASSUME TypeOK, WireInStep, ControlsInStep, NEW q \in Sockets, InSend(q)
    PROVE  /\ net[q] # <<>> => Answers(q, Arrived(q)) /\ Heard(q)
           /\ net[q] = <<>> => OnItsWay(q) /\ net[Peer(q)] # <<>>
<1> DEFINE o == Peer(q)
<1>1. /\ o \in Sockets /\ Peer(o) = q /\ Socket(q) = q
  BY OtherSocket
<1>2. OnItsWay(q) => net[q] = <<>> /\ net[o] # <<>>
  <2> SUFFICES ASSUME OnItsWay(q) PROVE net[q] = <<>> /\ net[o] # <<>>
    OBVIOUS
  <2>1. ~Heard(q) /\ ~OnItsWay(o) /\ Coming(o) = <<call[q].pkt>>
    BY <1>1, WireFacts
  <2>2. net[q] = <<>> /\ (Heard(o) => net[o] # <<>>)
        /\ (~Heard(o) => net[o] = <<call[q].pkt>>)
    BY <1>1, <2>1, WireFacts
  <2> HIDE DEF o
  <2>3. <<call[q].pkt>> # <<>>
    OBVIOUS
  <2>4. net[o] # <<>>
    BY <2>2, <2>3
  <2> QED BY <2>2, <2>4
<1>3. OnItsWay(q) \/ (Heard(q) /\ net[q] # <<>> /\ Answers(q, Head(net[q])))
  BY WireFacts
<1> QED BY <1>1, <1>2, <1>3 DEF Arrived

LEMMA PosFacts ==
    ASSUME TypeOK
    PROVE  /\ pos["client"] \in Nat /\ pos["server"] \in Nat
           /\ DOMAIN pos = {"client", "server"}
           /\ garbled \in BOOLEAN
           /\ \A q \in Sockets : Encrypt(q) =>
                 /\ pos'[q] = pos[q] + 1 /\ pos'[Peer(q)] = pos[Peer(q)]
                 /\ garbled' = garbled
           /\ \A q \in Sockets : \A b \in Nat : Decrypt(q, b) =>
                 /\ pos'[q] = pos[q] + 1 /\ pos'[Peer(q)] = pos[Peer(q)]
                 /\ b = pos[q] + 1 /\ ~garbled => ~garbled'
<1>1. pos \in [{"client", "server"} -> Nat] /\ garbled \in BOOLEAN
  BY DEF TypeOK
<1>2. \A q \in Sockets : q \in {"client", "server"} /\ Peer(q) \in {"client", "server"}
                         /\ Peer(q) # q
  BY ProcessFacts
<1> QED BY <1>1, <1>2 DEF Encrypt, Decrypt

\* A call that sends is begun where no EAGAIN is left.
LEMMA SendsAtOnce ==
    ASSUME TypeOK, NEW q \in Sockets, NEW c, NEW n, NEW p, NEW flag, NEW body,
           CanSend(q, c, n, p, flag, body), Sends(q, c, n, p, flag, body),
           errno'[q] = "other"
    PROVE  /\ At(q)' = p /\ InSend(q)'
           /\ call'[q].pkt = Packet(c, flag, body) /\ call'[q].i = 0
           /\ Packet(c, flag, body) \in Datagram
           /\ Packet(c, flag, body).flag = flag /\ Packet(c, flag, body).seq = c.seq
           /\ Packet(c, flag, body).body = body
           /\ ctl'[q].seq = c.seq + Size(flag) /\ ctl'[q].ack = c.ack
           /\ net' = Put(n, Peer(q), Packet(c, flag, body))
           /\ call'[Peer(q)] = call[Peer(q)] /\ ctl'[Peer(q)] = ctl[Peer(q)]
<1>1. Begun(q, c, n, p, flag, body)
  BY SendsBegun
<1>2. call'[q] = [at |-> p, i |-> 0, pkt |-> Packet(c, flag, body)]
  BY <1>1 DEF Begun
<1>3. At(q)' = p /\ InSend(q)' /\ call'[q].pkt = Packet(c, flag, body)
      /\ call'[q].i = 0
  BY <1>2 DEF At, InSend, CanSend
<1>4. /\ Packet(c, flag, body) \in Datagram
      /\ Packet(c, flag, body).flag = flag /\ Packet(c, flag, body).seq = c.seq
      /\ Packet(c, flag, body).body = body
  BY PacketType DEF CanSend
<1>5. /\ ctl'[q].seq = c.seq + Size(flag) /\ ctl'[q].ack = c.ack
      /\ net' = Put(n, Peer(q), Packet(c, flag, body))
      /\ call'[Peer(q)] = call[Peer(q)] /\ ctl'[Peer(q)] = ctl[Peer(q)]
  BY <1>1, OtherSocket DEF Begun
<1> QED BY <1>3, <1>4, <1>5

-----------------------------------------------------------------------------
(* In step: the steps.                                                      *)

\* The places at which an end takes what comes, or will.
LEMMA LockAlive ==
    ASSUME IInv, InLockstep, NEW q \in Sockets
    PROVE  At(q) \notin {"none", "login", "shell", "gone"} /\ errno[q] = "other"
  BY LockFacts, ProcessFacts

LEMMA TextSent ==
    ASSUME IInv, InLockstep, NEW q \in Sockets, NEW p, NEW body,
           CanSend(q, ctl[q], net, p, "DATA", body), ~InSend(q),
           Sends(q, ctl[q], net, p, "DATA", body), errno' = errno,
           todo'[Peer(q)] = todo[Peer(q)], pos'[Peer(q)] = pos[Peer(q)]
    PROVE  /\ At(q)' = p /\ At(Peer(q))' = At(Peer(q))
           /\ call'[q].pkt.body = body /\ call'[Peer(q)] = call[Peer(q)]
           /\ OnItsWay(Peer(q)) => AboutToCross'
           /\ ~OnItsWay(Peer(q)) =>
                 /\ InStepOnWire' /\ OnItsWay(q)' /\ ~OnItsWay(Peer(q))'
                 /\ (Heard(Peer(q))' <=> Heard(Peer(q)))
<1> DEFINE d == Packet(ctl[q], "DATA", body)
<1>1. TypeOK /\ WireInStep /\ ControlsInStep /\ errno[q] = "other"
  BY LockFacts, LockAlive
<1>2. /\ At(q)' = p /\ InSend(q)' /\ call'[q].pkt = d /\ call'[q].i = 0
      /\ d \in Datagram /\ d.flag = "DATA" /\ d.seq = ctl[q].seq /\ d.body = body
      /\ ctl'[q].seq = ctl[q].seq + Size("DATA") /\ ctl'[q].ack = ctl[q].ack
      /\ net' = Put(net, Peer(q), d)
      /\ call'[Peer(q)] = call[Peer(q)] /\ ctl'[Peer(q)] = ctl[Peer(q)]
  BY <1>1, SendsAtOnce
<1> HIDE DEF d
<1>3. net'[q] = net[q] /\ net'[Peer(q)] = Append(net[Peer(q)], d)
  <2>1. net \in NetType /\ At(Peer(q)) \notin {"none", "shell", "gone"}
        /\ Peer(q) \in Sockets /\ Peer(Peer(q)) = q
    BY <1>1, TypeParts, OtherSocket, LockAlive
  <2>2. /\ Put(net, Peer(q), d)[Peer(q)] = Append(net[Peer(q)], d)
        /\ Put(net, Peer(q), d)[Peer(Peer(q))] = net[Peer(Peer(q))]
    BY <1>2, <2>1, PutAlive
  <2> QED BY <1>2, <2>1, <2>2
<1>4. Still(q)
  BY <1>2 DEF Still
<1>5. At(Peer(q))' = At(Peer(q))
  BY <1>4, StillWay
<1> QED BY <1>1, <1>2, <1>3, <1>4, <1>5, SendsOnWire

LEMMA ClientSendKeyLocks ==
    ASSUME IInv, IInv', InLockstep, ClientSendKey
    PROVE  InLockstep' /\ garbled' = garbled
<1>1. /\ At("client") = "start" /\ UNCHANGED <<errno, todo, pos, garbled>>
      /\ Sends("client", ctl["client"], net, "sendKey", "DATA", 0)
  BY DEF ClientSendKey, cipher
<1>2. /\ TypeOK /\ InProgram /\ KeysInStep /\ PlacesInStep /\ InProgram'
  BY LockFacts, IInvParts DEF IInv, CrashInv
<1>3. At("server") = "recvKey" /\ ~OnItsWay("client") /\ ~OnItsWay("server")
      /\ ~InSend("client") /\ errno["client"] = "other" /\ errno["server"] = "other"
  BY <1>1, LockFacts DEF PlacesInStep
<1>4. CanSend("client", ctl["client"], net, "sendKey", "DATA", 0)
  BY <1>2, ProcessFacts, ProgramFacts, TypeParts DEF CanSend, Sending
<1>5. /\ At("client")' = "sendKey" /\ At("server")' = "recvKey"
      /\ InStepOnWire' /\ OnItsWay("client")' /\ ~OnItsWay("server")'
  BY <1>1, <1>3, <1>4, TextSent, ProcessFacts
<1>6. KeysInStep'
  <2>1. pos["client"] = pos["server"]
    BY <1>2, <1>3, ProcessFacts DEF KeysInStep, TextOnItsWay
  <2> QED BY <1>1, <1>5, <2>1, ProcessFacts DEF KeysInStep, TextOnItsWay
<1>7. PlacesInStep'
  BY <1>5 DEF PlacesInStep
<1>8. SeenInStep'
  BY <1>1, <1>2, <1>5, ProcessFacts DEF SeenInStep, InProgram
<1> QED BY <1>1, <1>3, <1>5, <1>6, <1>7, <1>8, LockFrom DEF Over

LEMMA ClientKeysLocks ==
    ASSUME IInv, IInv', InLockstep, ClientKeys
    PROVE  (InLockstep' \/ AboutToCross') /\ garbled' = garbled
<1>1. /\ At("client") = "loop" /\ todo["client"] = {"tty"}
      /\ Served("client", "tty") /\ Encrypt("client") /\ UNCHANGED <<errno>>
      /\ Sends("client", ctl["client"], net, "send", "DATA", pos["client"] + 1)
  BY DEF ClientKeys
<1>2. /\ TypeOK /\ InProgram /\ KeysInStep /\ PlacesInStep /\ SeenInStep
  BY LockFacts
<1>3. /\ pos["client"] \in Nat /\ pos["server"] \in Nat
      /\ pos'["client"] = pos["client"] + 1 /\ pos'["server"] = pos["server"]
      /\ garbled' = garbled
  BY <1>1, <1>2, PosFacts, ProcessFacts
<1>4. todo'["client"] = {} /\ todo'["server"] = todo["server"]
  BY <1>1, <1>2, TypeParts, ProcessFacts DEF Served
<1>5. CanSend("client", ctl["client"], net, "send", "DATA", pos["client"] + 1)
  BY <1>2, <1>3, ProcessFacts, ProgramFacts, TypeParts DEF CanSend, Sending
<1>6. ~InSend("client") /\ ~OnItsWay("client")
      /\ errno["client"] = "other" /\ errno["server"] = "other"
      /\ At("server") \in {"loop", "poll", "recv", "send"}
  BY <1>1, LockFacts DEF PlacesInStep
<1>7. /\ At("client")' = "send" /\ At("server")' = At("server")
      /\ call'["client"].pkt.body = pos["client"] + 1
      /\ OnItsWay("server") => AboutToCross'
      /\ ~OnItsWay("server") =>
            InStepOnWire' /\ OnItsWay("client")' /\ ~OnItsWay("server")'
  BY <1>1, <1>3, <1>4, <1>5, <1>6, TextSent, ProcessFacts
<1>8. ASSUME ~OnItsWay("server") PROVE InLockstep'
  <2>1. KeysInStep'
    <3>1. pos["client"] = pos["server"]
      BY <1>2, <1>6, <1>8, ProcessFacts DEF KeysInStep, TextOnItsWay
    <3> QED BY <1>3, <1>7, <1>8, <3>1, ProcessFacts DEF KeysInStep, TextOnItsWay
  <2>2. PlacesInStep'
    BY <1>6, <1>7 DEF PlacesInStep
  <2>3. SeenInStep'
    <3>1. "socket" \notin todo["server"] /\ At("server") # "recv"
      BY <1>2, <1>6, ProcessFacts DEF SeenInStep
    <3> QED BY <1>4, <1>7, <3>1, ProcessFacts DEF SeenInStep
  <2> QED BY <1>1, <1>6, <1>7, <1>8, <2>1, <2>2, <2>3, LockFrom DEF Over
<1> QED BY <1>3, <1>7, <1>8

LEMMA ServerOutputLocks ==
    ASSUME IInv, IInv', InLockstep, ServerOutput
    PROVE  (InLockstep' \/ AboutToCross') /\ garbled' = garbled
<1>1. /\ At("server") = "loop"
      /\ Served("server", "pty") /\ Encrypt("server") /\ UNCHANGED <<errno>>
      /\ Sends("server", ctl["server"], net, "send", "DATA", pos["server"] + 1)
  BY DEF ServerOutput
<1>2. /\ TypeOK /\ InProgram /\ KeysInStep /\ PlacesInStep /\ SeenInStep
  BY LockFacts
<1>3. /\ pos["client"] \in Nat /\ pos["server"] \in Nat
      /\ pos'["server"] = pos["server"] + 1 /\ pos'["client"] = pos["client"]
      /\ garbled' = garbled
  BY <1>1, <1>2, PosFacts, ProcessFacts
<1>4. todo'["server"] \subseteq todo["server"] /\ todo'["client"] = todo["client"]
  BY <1>1, <1>2, TypeParts, ProcessFacts DEF Served
<1>5. CanSend("server", ctl["server"], net, "send", "DATA", pos["server"] + 1)
  BY <1>2, <1>3, ProcessFacts, ProgramFacts, TypeParts DEF CanSend, Sending
<1>6. ~InSend("server") /\ ~OnItsWay("server")
      /\ errno["client"] = "other" /\ errno["server"] = "other"
      /\ \/ At("client") = "sendName" /\ Heard("client")
         \/ At("client") \in {"loop", "recv", "send"}
  BY <1>1, LockFacts DEF PlacesInStep
<1>7. /\ At("server")' = "send" /\ At("client")' = At("client")
      /\ call'["server"].pkt.body = pos["server"] + 1
      /\ OnItsWay("client") => AboutToCross'
      /\ ~OnItsWay("client") =>
            /\ InStepOnWire' /\ OnItsWay("server")' /\ ~OnItsWay("client")'
            /\ (Heard("client")' <=> Heard("client"))
  BY <1>1, <1>3, <1>4, <1>5, <1>6, TextSent, ProcessFacts
<1>8. ASSUME ~OnItsWay("client") PROVE InLockstep'
  <2>1. KeysInStep'
    <3>1. pos["client"] = pos["server"]
      BY <1>2, <1>6, <1>8, ProcessFacts DEF KeysInStep, TextOnItsWay
    <3> QED BY <1>3, <1>7, <1>8, <3>1, ProcessFacts DEF KeysInStep, TextOnItsWay
  <2>2. PlacesInStep'
    BY <1>6, <1>7, <1>8 DEF PlacesInStep
  <2>3. SeenInStep'
    <3>1. /\ "socket" \notin todo["server"] /\ "socket" \notin todo["client"]
          /\ At("client") # "recv"
      BY <1>2, <1>6, <1>8, ProcessFacts DEF SeenInStep
    <3> QED BY <1>4, <1>7, <3>1, ProcessFacts DEF SeenInStep
  <2> QED BY <1>1, <1>6, <1>7, <1>8, <2>1, <2>2, <2>3, LockFrom DEF Over
<1> QED BY <1>3, <1>7, <1>8

\* An end that will not send text again, and of which none is on the way.
LEMMA OverFrom ==
    ASSUME NEW q \in Sockets, Over(q)', InSend(q)' => call'[q].pkt.flag = "FIN",
           NoData(Peer(q))'
    PROVE  OneIsOver'
  BY DEF OneIsOver

\* A queue in which no acknowledgement strays.
LEMMA NoneStrays ==
    ASSUME NEW p, net'[p] = <<>> PROVE NoStray(p)'
<1>1. Len(<<>>) = 0
  OBVIOUS
<1> QED BY <1>1 DEF NoStray

LEMMA OneAnswer ==
    ASSUME NEW p, NEW a, net'[p] = <<a>>,
           a.flag = "ACK" => InSend(p)' /\ a.ack = ctl'[p].seq
    PROVE  NoStray(p)'
<1>1. Len(<<a>>) = 1 /\ <<a>>[1] = a
  OBVIOUS
<1>2. \A i \in 1..Len(net'[p]) : i = 1 /\ net'[p][i] = a /\ net'[p][1] = a
  BY <1>1
<1> QED BY <1>2 DEF NoStray, Answers

\* An end that gives up what it has received.
LEMMA PassesOver ==
    ASSUME IInv, InLockstep, NEW q \in Sockets, ~InSend(q), net[q] # <<>>,
           Passes(q, "exit")
    PROVE  OneIsOver' /\ OneLeaves'
<1> DEFINE a == Packet(Noted(q), "ACK", 0)
<1>1. TypeOK /\ WireInStep /\ ControlsInStep /\ q \in Processes
      /\ At(Peer(q)) \notin {"none", "shell", "gone"}
  BY LockFacts, LockAlive, OtherSocket
<1>2. net'[Peer(q)] = <<a>> /\ a.flag = "ACK"
  BY <1>1, AckSent DEF Passes
<1>3. NoData(Peer(q))'
  <2> HIDE DEF a
  <2>1. \A i \in 1..Len(net'[Peer(q)]) : net'[Peer(q)][i].flag # "DATA"
    BY <1>2, SeqLess
  <2> QED BY <2>1 DEF NoData
<1>4. NoStray(Peer(q))'
  <2>1. /\ InSend(Peer(q)) /\ a.ack = ctl[Peer(q)].seq
    BY <1>1, AckSent, Comes, WireFacts DEF OnItsWay
  <2>2. ctl'[Peer(q)] = ctl[Peer(q)] /\ call'[Peer(q)] = call[Peer(q)]
    BY <1>1, OtherSocket, GotoFacts, TypeParts DEF Passes, Places, Resting
  <2>3. InSend(Peer(q))'
    BY <2>1, <2>2 DEF InSend, At
  <2> HIDE DEF a
  <2> QED BY <1>2, <2>1, <2>2, <2>3, OneAnswer
<1>5. At(q)' = "exit"
  BY <1>1, GotoFacts DEF Passes, Places, Resting
<1> QED BY <1>3, <1>4, <1>5, OverFrom DEF Over, InSend, Sending, Departed, OneLeaves

\* An end that replies.
LEMMA TextReplied ==
    ASSUME IInv, InLockstep, NEW q \in Sockets, NEW p, NEW body,
           CanSend(q, Noted(q), Acked(q), p, "DATA", body), ~InSend(q),
           net[q] # <<>>,
           Sends(q, Noted(q), Acked(q), p, "DATA", body), errno' = errno,
           todo'[Peer(q)] = todo[Peer(q)], pos'[Peer(q)] = pos[Peer(q)]
    PROVE  /\ At(q)' = p /\ At(Peer(q))' = At(Peer(q))
           /\ call'[q].pkt.body = body
           /\ InStepOnWire' /\ OnItsWay(q)'
           /\ Heard(Peer(q))' /\ ~OnItsWay(Peer(q))'
<1> DEFINE d == Packet(Noted(q), "DATA", body)
<1>1. TypeOK /\ WireInStep /\ ControlsInStep /\ errno[q] = "other" /\ q \in Processes
      /\ At(Peer(q)) \notin {"none", "shell", "gone"} /\ Socket(q) = q
  BY LockFacts, LockAlive, OtherSocket
<1>2. /\ At(q)' = p /\ InSend(q)' /\ call'[q].pkt = d /\ call'[q].i = 0
      /\ d \in Datagram /\ d.flag = "DATA" /\ d.seq = Noted(q).seq /\ d.body = body
      /\ ctl'[q].seq = Noted(q).seq + Size("DATA") /\ ctl'[q].ack = Noted(q).ack
      /\ net' = Put(Acked(q), Peer(q), d)
      /\ call'[Peer(q)] = call[Peer(q)] /\ ctl'[Peer(q)] = ctl[Peer(q)]
  BY <1>1, SendsAtOnce
<1>3. Noted(q).seq = ctl[q].seq
  BY <1>1, NotedFacts
<1> HIDE DEF d
<1>4. Still(q)
  BY <1>2 DEF Still
<1>5. At(Peer(q))' = At(Peer(q))
  BY <1>4, StillWay
<1> QED BY <1>1, <1>2, <1>3, <1>4, <1>5, RepliesOnWire

LEMMA ServerRecvKeyLocks ==
    ASSUME IInv, InLockstep, ServerRecvKey
    PROVE  (InLockstep' \/ (OneIsOver' /\ OneLeaves')) /\ garbled' = garbled
<1>1. /\ At("server") = "recvKey" /\ net["server"] # <<>>
      /\ UNCHANGED <<errno, todo, pos, garbled>>
  BY ProcessFacts DEF ServerRecvKey, Takes, cipher
<1>2. /\ TypeOK /\ WireInStep /\ ControlsInStep
      /\ InProgram /\ KeysInStep /\ PlacesInStep
      /\ ~InSend("server") /\ "server" \in Sockets
      /\ errno["client"] = "other" /\ errno["server"] = "other"
  BY <1>1, LockFacts, ProcessFacts
<1>3. OnItsWay("client") /\ At("client") = "sendKey" /\ ~OnItsWay("server")
  <2>1. OnItsWay("client")
    BY <1>1, <1>2, Comes, ProcessFacts
  <2> QED BY <1>1, <1>2, <2>1, LockFacts DEF PlacesInStep
<1>4. CASE Sends("server", Noted("server"), Acked("server"), "sendKey", "DATA", 0)
  <2>1. CanSend("server", Noted("server"), Acked("server"), "sendKey", "DATA", 0)
    BY <1>1, <1>2, NotedFacts, AckedFacts, ProcessFacts, ProgramFacts
       DEF CanSend, Sending
  <2>2. /\ At("server")' = "sendKey" /\ At("client")' = "sendKey"
        /\ InStepOnWire' /\ OnItsWay("server")' /\ ~OnItsWay("client")'
        /\ Heard("client")'
    BY <1>1, <1>2, <1>3, <1>4, <2>1, TextReplied, ProcessFacts
  <2>3. KeysInStep'
    <3>1. pos["client"] = pos["server"]
      BY <1>2, <1>3, ProcessFacts DEF KeysInStep, TextOnItsWay
    <3> QED BY <1>1, <2>2, <3>1, ProcessFacts DEF KeysInStep, TextOnItsWay
  <2>4. PlacesInStep'
    BY <2>2 DEF PlacesInStep
  <2>5. SeenInStep'
    BY <1>1, <1>2, <1>3, <2>2, ProcessFacts DEF SeenInStep, InProgram
  <2> QED BY <1>1, <1>2, <2>2, <2>3, <2>4, <2>5, LockFrom DEF Over
<1>5. CASE Passes("server", "exit")
  BY <1>1, <1>2, <1>5, PassesOver
<1> QED BY <1>1, <1>4, <1>5 DEF ServerRecvKey

LEMMA ClientRecvKeyLocks ==
    ASSUME IInv, InLockstep, ClientRecvKey
    PROVE  (InLockstep' \/ (OneIsOver' /\ OneLeaves')) /\ garbled' = garbled
<1>1. /\ At("client") = "recvKey" /\ net["client"] # <<>>
      /\ UNCHANGED <<errno, todo>>
  BY ProcessFacts DEF ClientRecvKey, Takes
<1>2. /\ TypeOK /\ WireInStep /\ ControlsInStep
      /\ InProgram /\ KeysInStep /\ PlacesInStep
      /\ ~InSend("client") /\ "client" \in Sockets
      /\ errno["client"] = "other" /\ errno["server"] = "other"
  BY <1>1, LockFacts, ProcessFacts
<1>3. OnItsWay("server") /\ At("server") = "sendKey" /\ ~OnItsWay("client")
  <2>1. OnItsWay("server")
    BY <1>1, <1>2, Comes, ProcessFacts
  <2> QED BY <1>1, <1>2, <2>1, LockFacts DEF PlacesInStep
<1>4. CASE /\ Sends("client", Noted("client"), Acked("client"),
                    "sendName", "DATA", pos["client"] + 1)
           /\ Encrypt("client")
  <2>0. /\ pos["client"] \in Nat /\ pos["server"] \in Nat
        /\ pos'["client"] = pos["client"] + 1 /\ pos'["server"] = pos["server"]
        /\ garbled' = garbled
    BY <1>2, <1>4, PosFacts, ProcessFacts
  <2>1. CanSend("client", Noted("client"), Acked("client"), "sendName", "DATA",
                pos["client"] + 1)
    BY <1>1, <1>2, <2>0, NotedFacts, AckedFacts, ProcessFacts, ProgramFacts
       DEF CanSend, Sending
  <2>2. /\ At("client")' = "sendName" /\ At("server")' = "sendKey"
        /\ call'["client"].pkt.body = pos["client"] + 1
        /\ InStepOnWire' /\ OnItsWay("client")' /\ ~OnItsWay("server")'
        /\ Heard("server")'
    BY <1>1, <1>2, <1>3, <1>4, <2>0, <2>1, TextReplied, ProcessFacts
  <2>3. KeysInStep'
    <3>1. pos["client"] = pos["server"]
      BY <1>2, <1>3, ProcessFacts DEF KeysInStep, TextOnItsWay
    <3> QED BY <1>1, <2>0, <2>2, <3>1, ProcessFacts DEF KeysInStep, TextOnItsWay
  <2>4. PlacesInStep'
    BY <2>2 DEF PlacesInStep
  <2>5. SeenInStep'
    BY <1>1, <1>2, <1>3, <2>2, ProcessFacts DEF SeenInStep, InProgram
  <2> QED BY <1>1, <1>2, <2>0, <2>2, <2>3, <2>4, <2>5, LockFrom DEF Over
<1>5. CASE Passes("client", "exit") /\ UNCHANGED cipher
  <2>1. OneIsOver' /\ OneLeaves'
    BY <1>1, <1>2, <1>5, PassesOver
  <2> QED BY <1>5, <2>1 DEF cipher
<1> QED BY <1>4, <1>5 DEF ClientRecvKey

\* An end that has received text.
LEMMA TextPassed ==
    ASSUME IInv, InLockstep, NEW q \in Sockets, ~InSend(q), ~InSend(q)', net[q] # <<>>,
           net' = Acked(q), ctl'[q] = Noted(q),
           call'[Peer(q)] = call[Peer(q)], ctl'[Peer(q)] = ctl[Peer(q)],
           errno' = errno, todo' = todo, At(Peer(q)) # "sendKey",
           Decrypt(q, Arrived(q).body)
    PROVE  /\ InStepOnWire' /\ Heard(Peer(q))' /\ ~OnItsWay(Peer(q))' /\ ~OnItsWay(q)'
           /\ At(Peer(q))' = At(Peer(q)) /\ KeysInStep' /\ (~garbled => ~garbled')
           /\ OnItsWay(Peer(q))
<1> DEFINE o == Peer(q)
<1>1. TypeOK /\ WireInStep /\ ControlsInStep /\ q \in Processes /\ KeysInStep
      /\ At(o) \notin {"none", "shell", "gone"} /\ Socket(q) = q
      /\ o \in Sockets /\ Peer(o) = q
      /\ \A p \in Sockets : p = q \/ p = o
  BY LockFacts, LockAlive, OtherSocket
<1>2. OnItsWay(o) /\ Arrived(q) = call[o].pkt /\ Arrived(q) \in Datagram
  BY <1>1, Comes
<1>3. Arrived(q).body = pos[o] /\ pos[o] = pos[q] + 1 /\ pos[o] \in Nat
  <2>1. TextOnItsWay(o)
    BY <1>2 DEF TextOnItsWay
  <2> QED BY <1>1, <1>2, <2>1, PosFacts, ProcessFacts DEF KeysInStep
<1>4. /\ pos'[q] = pos[q] + 1 /\ pos'[o] = pos[o] /\ (~garbled => ~garbled')
  BY <1>1, <1>3, PosFacts
<1>5. Still(q)
  BY <1>4 DEF Still
<1>6. InStepOnWire' /\ Heard(o)' /\ ~OnItsWay(o)' /\ At(o)' = At(o)
  BY <1>1, <1>5, PassesOnWire, StillWay
<1>7. ~OnItsWay(q)'
  BY DEF OnItsWay
<1>8. KeysInStep'
  <2> HIDE DEF o
  <2>1. ~TextOnItsWay(q)' /\ ~TextOnItsWay(o)' /\ pos'[q] = pos'[o]
    BY <1>3, <1>4, <1>6, <1>7 DEF TextOnItsWay
  <2>2. Peer(q) = o
    BY DEF o
  <2>3. \A p \in Sockets : ~TextOnItsWay(p)' /\ pos'[p] = pos'[Peer(p)]
    BY <1>1, <2>1, <2>2
  <2> QED BY <2>3 DEF KeysInStep
<1> QED BY <1>2, <1>4, <1>6, <1>7, <1>8

LEMMA RecvNameLocks ==
    ASSUME IInv, InLockstep, RecvName
    PROVE  InLockstep' /\ (~garbled => ~garbled')
<1>1. /\ At("server") = "recvName" /\ net["server"] # <<>>
      /\ net' = Acked("server") /\ UNCHANGED <<errno, todo>>
  BY ProcessFacts DEF RecvName, Takes
<1>2. /\ TypeOK /\ WireInStep /\ ControlsInStep
      /\ InProgram /\ KeysInStep /\ PlacesInStep /\ SeenInStep
      /\ ~InSend("server") /\ "server" \in Sockets /\ Peer("server") = "client"
      /\ errno["client"] = "other" /\ errno["server"] = "other"
      /\ At("client") = "sendName" /\ OnItsWay("client")
  BY <1>1, LockFacts, ProcessFacts DEF PlacesInStep
<1>3. Decrypt("server", Arrived("server").body)
  <2>1. Arrived("server").flag = "DATA"
    BY <1>1, <1>2, Comes
  <2> QED BY <2>1 DEF RecvName
<1>4. /\ At("server")' = "loop" /\ call'["client"] = call["client"]
      /\ ctl'["client"] = ctl["client"] /\ ctl'["server"] = Noted("server")
  BY <1>2, RecvNameFacts
<1>5. ~InSend("server")'
  BY <1>4 DEF InSend, Sending
<1>6. /\ InStepOnWire' /\ Heard("client")' /\ ~OnItsWay("client")' /\ ~OnItsWay("server")'
      /\ At("client")' = "sendName" /\ KeysInStep' /\ (~garbled => ~garbled')
  BY <1>1, <1>2, <1>3, <1>4, <1>5, TextPassed
<1>7. PlacesInStep'
  BY <1>4, <1>6 DEF PlacesInStep
<1>8. SeenInStep'
  BY <1>1, <1>2, <1>4, <1>6, ProcessFacts DEF SeenInStep, InProgram
<1> QED BY <1>1, <1>2, <1>4, <1>6, <1>7, <1>8, LockFrom DEF Over

LEMMA RecvTextLocks ==
    ASSUME IInv, InLockstep, NEW q \in Sockets, RecvText(q)
    PROVE  InLockstep' /\ (~garbled => ~garbled')
<1> DEFINE o == Peer(q)
<1>1. /\ At(q) = "recv" /\ net[q] # <<>> /\ Passes(q, "loop")
      /\ Decrypt(q, Arrived(q).body) /\ UNCHANGED <<errno, todo>>
  BY OtherSocket DEF RecvText, Takes
<1>2. /\ TypeOK /\ WireInStep /\ ControlsInStep
      /\ InProgram /\ KeysInStep /\ PlacesInStep /\ SeenInStep
      /\ errno["client"] = "other" /\ errno["server"] = "other"
  BY LockFacts
<1>3. ~InSend(q)
  BY <1>1 DEF InSend, Sending
<1>4. /\ At(q)' = "loop" /\ call'[o] = call[o] /\ ctl'[o] = ctl[o]
      /\ ctl'[q] = Noted(q) /\ net' = Acked(q)
  <2>1. Goto(q, "loop") /\ "loop" \in Places /\ q \in Processes /\ o \in Processes
        /\ o # q
    BY <1>1, OtherSocket DEF Passes, Places, Resting
  <2>2. At(q)' = "loop" /\ call'[o] = call[o]
    BY <1>2, <2>1, GotoFacts
  <2> QED BY <1>1, <1>2, <2>1, <2>2, TypeParts DEF Passes
<1>5. ~InSend(q)'
  BY <1>4 DEF InSend, Sending
<1>6. At(o) # "sendKey"
  BY <1>1, <1>2, OtherSocket DEF PlacesInStep
<1>7. /\ InStepOnWire' /\ Heard(o)' /\ ~OnItsWay(o)' /\ ~OnItsWay(q)' /\ OnItsWay(o)
      /\ At(o)' = At(o) /\ KeysInStep' /\ (~garbled => ~garbled')
  BY <1>1, <1>2, <1>3, <1>4, <1>5, <1>6, TextPassed
<1>8. CASE q = "client"
  <2>1. o = "server" /\ At("server") \in {"loop", "poll", "recv", "send"}
    BY <1>1, <1>2, <1>8, LockFacts, ProcessFacts DEF PlacesInStep
  <2>2. PlacesInStep'
    BY <1>4, <1>7, <1>8, <2>1 DEF PlacesInStep
  <2>3. SeenInStep'
    BY <1>1, <1>2, <1>4, <1>7, <1>8, <2>1, ProcessFacts, LockFacts
       DEF SeenInStep, InProgram
  <2> QED BY <1>1, <1>2, <1>4, <1>7, <1>8, <2>1, <2>2, <2>3, LockFrom DEF Over
<1>9. CASE q = "server"
  <2>1. o = "client" /\ At("client") \in {"sendName", "loop", "recv", "send"}
    BY <1>1, <1>2, <1>9, ProcessFacts DEF PlacesInStep
  <2>2. PlacesInStep'
    BY <1>4, <1>7, <1>9, <2>1 DEF PlacesInStep
  <2>3. SeenInStep'
    BY <1>1, <1>2, <1>4, <1>7, <1>9, <2>1, ProcessFacts, LockFacts
       DEF SeenInStep, InProgram
  <2> QED BY <1>1, <1>2, <1>4, <1>7, <1>9, <2>1, <2>2, <2>3, LockFrom DEF Over
<1> QED BY <1>8, <1>9, ProcessFacts

LEMMA AnswerLocks ==
    ASSUME IInv, InLockstep, NEW q \in Sockets, Answer(q)
    PROVE  InLockstep' /\ garbled' = garbled
<1> DEFINE o == Peer(q)
<1>1. /\ InSend(q) /\ net[q] # <<>> /\ q \in Processes /\ o \in Processes /\ o # q
      /\ o \in Sockets /\ Peer(o) = q
      /\ \A p \in Sockets : p = q \/ p = o
      /\ UNCHANGED <<ctl, errno, todo, pos, garbled>>
  BY OtherSocket DEF Answer, cipher
<1>2. /\ TypeOK /\ WireInStep /\ ControlsInStep
      /\ InProgram /\ KeysInStep /\ PlacesInStep /\ SeenInStep
      /\ errno["client"] = "other" /\ errno["server"] = "other"
      /\ At(q) \in Program[q]
  BY <1>1, LockFacts DEF InProgram
<1>3. Answers(q, Arrived(q))
  BY <1>1, <1>2, Expected
<1>4. Goto(q, Then[q][At(q)]) /\ net' = Rest(q)
  BY <1>3 DEF Answer
<1>5. /\ At(q)' = Then[q][At(q)] /\ call'[o] = call[o] /\ ~InSend(q)'
      /\ At(q)' # "recv"
  <2>1. Then[q][At(q)] \in Places /\ Then[q][At(q)] \notin Sending
        /\ Then[q][At(q)] # "recv"
    BY <1>1, <1>2, NextPlaces, NextRests, ProgramPlaces DEF InSend
  <2> QED BY <1>1, <1>2, <1>4, <2>1, GotoFacts DEF InSend
<1>6. Still(q)
  BY <1>1, <1>5 DEF Still
<1>7. /\ InStepOnWire' /\ (OnItsWay(o)' <=> OnItsWay(o))
      /\ Heard(q) /\ ~OnItsWay(q) /\ ~Heard(o)' /\ At(o)' = At(o)
  BY <1>1, <1>2, <1>4, <1>5, <1>6, AnswerOnWire, StillWay
<1>8. ~OnItsWay(q)' /\ ~Heard(q)'
  BY <1>5 DEF OnItsWay, Heard
<1>9. KeysInStep'
  <2>1. ~TextOnItsWay(q) /\ ~TextOnItsWay(q)'
        /\ (TextOnItsWay(o)' <=> TextOnItsWay(o))
    BY <1>7, <1>8 DEF TextOnItsWay
  <2>2. Peer(q) = o /\ q # o
    BY <1>1
  <2> HIDE DEF o
  <2>3. /\ TextOnItsWay(o) => call[o].pkt.body = pos[o] /\ pos[o] = pos[q] + 1
        /\ ~TextOnItsWay(o) => pos[o] = pos[q]
    BY <1>1, <1>2, <2>1, <2>2 DEF KeysInStep
  <2>4. \A p \in Sockets :
          IF TextOnItsWay(p)'
          THEN call'[p].pkt.body = pos'[p] /\ pos'[p] = pos'[Peer(p)] + 1
          ELSE ~TextOnItsWay(Peer(p))' => pos'[p] = pos'[Peer(p)]
    BY <1>1, <1>5, <2>1, <2>2, <2>3
  <2> QED BY <2>4 DEF KeysInStep
<1>10. SeenInStep'
  <2>1. "socket" \notin todo[q] /\ "socket" \notin todo[o] /\ At(o) # "recv"
    BY <1>1, <1>2, <1>7 DEF SeenInStep
  <2> QED BY <1>1, <1>5, <1>7, <2>1 DEF SeenInStep
<1>11. CASE q = "client"
  <2>1. /\ o = "server"
        /\ At("client") = "sendKey" => At("client")' = "recvKey"
        /\ At("client") \in {"sendName", "send"} => At("client")' = "loop"
        /\ At("client") \in {"sendKey", "sendName", "send"}
    BY <1>1, <1>5, <1>11, ThenFacts, LockFacts, ProcessFacts
  <2>2. At("server") # "recvKey" /\ At("server") # "recvName"
    BY <1>2, <1>7, <1>11, <2>1 DEF PlacesInStep
  <2>3. /\ At("server")' = At("server") /\ (OnItsWay("server")' <=> OnItsWay("server"))
        /\ ~OnItsWay("client")
    BY <1>7, <1>11, <2>1
  <2>4. PlacesInStep'
    BY <1>2, <2>1, <2>2, <2>3 DEF PlacesInStep
  <2> QED BY <1>1, <1>2, <1>7, <1>9, <1>10, <2>1, <2>3, <2>4, LockFrom, LockFacts DEF Over
<1>12. CASE q = "server"
  <2>1. /\ o = "client"
        /\ At("server") = "sendKey" => At("server")' = "recvName"
        /\ At("server") = "send" => At("server")' = "loop"
        /\ At("server") \in {"sendKey", "send"}
    BY <1>1, <1>5, <1>12, ThenFacts, LockFacts, ProcessFacts
  <2>2. /\ At("client")' = At("client") /\ (OnItsWay("client")' <=> OnItsWay("client"))
        /\ ~OnItsWay("server") /\ Heard("server") /\ ~Heard("client")
    BY <1>1, <1>2, <1>7, <1>12, <2>1, WireFacts
  <2>3. /\ At("server") = "sendKey" => At("client") = "sendName" /\ OnItsWay("client")
        /\ At("server") = "send" => At("client") \in {"loop", "recv", "send"}
    BY <1>2, <2>1, <2>2 DEF PlacesInStep
  <2>4. PlacesInStep'
    BY <2>1, <2>2, <2>3 DEF PlacesInStep
  <2> QED BY <1>1, <1>2, <1>7, <1>9, <1>10, <2>1, <2>2, <2>4, LockFrom, LockFacts DEF Over
<1> QED BY <1>1, <1>11, <1>12, ProcessFacts

\* Where the two ends are when one of them waits in vain.
LEMMA NoTimeout ==
    ASSUME IInv, InLockstep, NEW q \in Sockets, net[q] = <<>>
    PROVE  /\ InSend(q) => ~Quiet
           /\ InRecv(q) => q = "server" /\ At(q) = "recvKey" /\ At("client") = "start"
<1> DEFINE o == Peer(q)
<1>1. /\ TypeOK /\ WireInStep /\ ControlsInStep
      /\ InProgram /\ KeysInStep /\ PlacesInStep /\ SeenInStep
      /\ o \in Sockets /\ Peer(o) = q
  BY LockFacts, OtherSocket
<1>2. ASSUME InSend(q) PROVE ~Quiet
  <2>1. net[o] # <<>>
    BY <1>1, <1>2, Expected
  <2> QED BY <1>1, <2>1, NotQuiet, LockAlive
<1>3. OnItsWay(o) /\ ~InSend(q) => net[q] # <<>>
  <2> SUFFICES ASSUME OnItsWay(o), ~InSend(q) PROVE net[q] # <<>>
    OBVIOUS
  <2>1. net[q] = <<call[o].pkt>>
    BY <1>1, WireFacts
  <2>2. <<call[o].pkt>> # <<>>
    OBVIOUS
  <2> HIDE DEF o
  <2> QED BY <2>1, <2>2
<1>4. ASSUME InRecv(q)
      PROVE  q = "server" /\ At(q) = "recvKey" /\ At("client") = "start"
  <2>1. ~InSend(q)
    BY <1>4 DEF InRecv, InSend, Sending, Receiving
  <2>2. ~OnItsWay(o) /\ At(q) # "recv"
    BY <1>1, <1>3, <2>1 DEF SeenInStep
  <2>3. At(q) \in {"recvKey", "recvName"}
    BY <1>4, <2>2, LockFacts, ProcessFacts DEF InRecv, Receiving
  <2>4. CASE q = "client"
    <3>1. At("client") = "recvKey" /\ ~OnItsWay("server")
      BY <2>2, <2>3, <2>4, LockFacts, ProcessFacts
    <3> QED BY <1>1, <3>1, LockFacts DEF PlacesInStep
  <2>5. CASE q = "server"
    <3>1. ~OnItsWay("client")
      BY <2>2, <2>5, ProcessFacts
    <3> QED BY <1>1, <2>3, <2>5, <3>1 DEF PlacesInStep
  <2> QED BY <2>4, <2>5, ProcessFacts
<1> QED BY <1>2, <1>4

LEMMA OneLong ==
    ASSUME NEW S, NEW s \in Seq(S), s # <<>>, Tail(s) = <<>>
    PROVE  Len(s) = 1 /\ s[1] = Head(s)
<1>1. /\ Head(s) = s[1] /\ Len(Tail(s)) = Len(s) - 1 /\ Len(s) \in Nat
  BY HeadTailProperties, LenProperties
<1>2. Len(<<>>) = 0
  OBVIOUS
<1>3. Len(Tail(s)) = 0
  BY <1>2
<1> QED BY <1>1, <1>3

\* Who sends nothing has no acknowledgement to stray.
LEMMA NothingStrays ==
    ASSUME IInv, InLockstep, NEW q \in Sockets, ~InSend(q)
    PROVE  NoStray(Peer(q)) /\ (~InSend(Peer(q)) => net[Peer(q)] = <<>>)
<1> DEFINE o == Peer(q)
<1>1. TypeOK /\ WireInStep /\ ControlsInStep /\ o \in Sockets /\ Peer(o) = q
  BY LockFacts, OtherSocket
<1>2. ~OnItsWay(q) /\ Coming(o) = <<>>
  BY <1>1 DEF OnItsWay, Coming
<1>3. CASE Heard(o)
  <2>1. /\ net[o] # <<>> /\ Answers(o, Head(net[o])) /\ Tail(net[o]) = <<>>
        /\ InSend(o) /\ net[o] \in Seq(Datagram)
    BY <1>1, <1>2, <1>3, WireFacts DEF Heard
  <2> HIDE DEF o
  <2>2. Len(net[o]) = 1 /\ net[o][1] = Head(net[o])
    BY <2>1, OneLong
  <2>3. NoStray(o)
    BY <2>1, <2>2 DEF NoStray
  <2> QED BY <2>1, <2>3 DEF o
<1>4. CASE ~Heard(o)
  <2>1. net[o] = <<>>
    BY <1>1, <1>2, <1>4, WireFacts
  <2>2. Len(<<>>) = 0
    OBVIOUS
  <2> HIDE DEF o
  <2>3. NoStray(o)
    BY <2>1, <2>2 DEF NoStray
  <2> QED BY <2>1, <2>3 DEF o
<1> QED BY <1>3, <1>4

\* An end that leaves without sending.
LEMMA LeavesSilently ==
    ASSUME IInv, InLockstep, NEW q \in Sockets, ~InSend(q), Goto(q, "exit"),
           net' = net, ctl' = ctl
    PROVE  OneIsOver' /\ OneLeaves'
<1>1. TypeOK /\ WireInStep /\ ControlsInStep /\ q \in Processes /\ "exit" \in Places
      /\ Peer(q) \in Processes /\ Peer(q) # q
  BY LockFacts, OtherSocket DEF Places, Resting
<1>2. At(q)' = "exit" /\ NoData(Peer(q))' /\ call'[Peer(q)] = call[Peer(q)]
  BY <1>1, NothingSent, GotoFacts DEF NoData
<1>3. NoStray(Peer(q))'
  BY <1>2, NothingStrays DEF NoStray, InSend, At, Answers
<1> QED BY <1>2, <1>3, OverFrom DEF Over, InSend, Sending, Departed, OneLeaves

\* Where the other end is when one is in its loop.
LEMMA OtherPlaces ==
    ASSUME IInv, InLockstep, NEW q \in Sockets, At(q) \in {"loop", "poll"}
    PROVE  At(Peer(q)) \in {"sendName", "loop", "poll", "recv", "send"}
<1>1. PlacesInStep
  BY LockFacts
<1>2. CASE q = "client"
  <2>1. At("client") = "loop" /\ Peer(q) = "server"
    BY <1>2, LockFacts, OtherSocket
  <2> QED BY <1>1, <2>1, LockFacts DEF PlacesInStep
<1>3. CASE q = "server"
  <2>1. At("server") \in {"loop", "poll"} /\ Peer(q) = "client"
    BY <1>3, OtherSocket
  <2> QED BY <1>1, <2>1 DEF PlacesInStep
<1> QED BY <1>2, <1>3, OtherSocket

\* An end that leaves with a FIN.
LEMMA FinSent ==
    ASSUME IInv, InLockstep, NEW q \in Sockets, At(q) \in {"loop", "poll"},
           Sends(q, ctl[q], net, "close1", "FIN", 0), errno'[q] = "other"
    PROVE  OneIsOver' /\ ((q = "server" => SignalSpent') => OneLeaves')
<1> DEFINE o == Peer(q)
           d == Packet(ctl[q], "FIN", 0)
<1>1. TypeOK /\ WireInStep /\ ControlsInStep /\ q \in Processes /\ o \in Sockets
      /\ At(o) \notin {"none", "shell", "gone"} /\ Peer(o) = q /\ ~InSend(q)
  BY LockFacts, OtherSocket, LockAlive DEF InSend, Sending
<1>2. CanSend(q, ctl[q], net, "close1", "FIN", 0)
  BY <1>1, ProcessFacts, ProgramFacts, TypeParts DEF CanSend, Sending
<1>3. /\ At(q)' = "close1" /\ call'[q].pkt = d /\ d \in Datagram /\ d.flag = "FIN"
      /\ net' = Put(net, o, d) /\ InSend(q)'
      /\ call'[o] = call[o] /\ ctl'[o] = ctl[o]
  BY <1>1, <1>2, SendsAtOnce
<1>4. At(o) \in {"sendName", "loop", "poll", "recv", "send"}
  BY OtherPlaces
<1>9. net \in NetType
  BY <1>1, TypeParts DEF NetType
<1> HIDE DEF d
<1>5. net'[o] = Append(net[o], d) /\ net[o] \in Seq(Datagram) /\ NoData(o)
      /\ net'[q] = net[q]
  BY <1>1, <1>3, <1>9, PutAlive, TypeParts, NothingSent DEF NetType
<1>6. /\ Append(net[o], d) # <<>>
      /\ Len(Append(net[o], d)) = Len(net[o]) + 1 /\ Len(net[o]) \in Nat
      /\ \A i \in 1..Len(Append(net[o], d)) :
            Append(net[o], d)[i] = IF i <= Len(net[o]) THEN net[o][i] ELSE d
      /\ net[o] = <<>> => Append(net[o], d) = <<d>>
      /\ net[o] # <<>> => /\ Head(Append(net[o], d)) = Head(net[o])
                          /\ Tail(Append(net[o], d)) = Append(Tail(net[o]), d)
  BY <1>3, <1>5, OneLonger, LenProperties
<1>7. NoData(o)'
  <2>1. \A i \in 1..Len(net'[o]) : net'[o][i].flag # "DATA"
    BY <1>3, <1>5, <1>6 DEF NoData
  <2> QED BY <2>1 DEF NoData
<1>8. ASSUME q = "server" => SignalSpent' PROVE OneLeaves'
  <2>1. /\ ~Heard(q) /\ ~OnItsWay(q) /\ net[q] = Coming(q) /\ Coming(o) = <<>>
        /\ OnItsWay(o) => net[q] = <<call[o].pkt>> /\ call[o].pkt.flag = "DATA"
        /\ ~OnItsWay(o) => net[q] = <<>>
        /\ InSend(o) => OnItsWay(o) \/ Heard(o)
        /\ Heard(o) => /\ net[o] # <<>> /\ Answers(o, Head(net[o]))
                       /\ Tail(net[o]) = <<>> /\ InSend(o)
        /\ ~Heard(o) => net[o] = <<>>
        /\ ~(OnItsWay(o) /\ Heard(o))
    BY <1>1, WireFacts DEF OnItsWay, Heard
  <2>2. /\ InSend(o)' <=> InSend(o)
        /\ At(o)' = At(o)
        /\ Answers(o, Head(net[o]))' <=> Head(net'[o]).flag = "ACK" /\ Head(net'[o]).ack = ctl[o].seq
    BY <1>3 DEF InSend, At, Answers
  <2>3. CASE OnItsWay(o)
    <3>1. Head(<<call[o].pkt>>) = call[o].pkt /\ <<call[o].pkt>> # <<>>
      OBVIOUS
    <3>2. net'[o] = <<d>>
      BY <1>5, <1>6, <2>1, <2>3
    <3> HIDE DEF o
    <3>3. Stuck(q)'
      BY <1>3, <1>5, <2>1, <2>3, <3>1 DEF Stuck
    <3>4. NoStray(o)'
      BY <1>3, <3>2, OneAnswer
    <3>5. Trapped(q)'
      BY <1>3, <3>3, <3>4 DEF Trapped, TextNext, o
    <3> QED BY <3>5 DEF OneLeaves
  <2>4. CASE ~OnItsWay(o)
    <3>1. /\ At(o)' \notin {"start", "sendKey", "recvKey", "recvName"} /\ ~Over(o)'
          /\ net'[q] = <<>> /\ net'[o] # <<>>
      BY <1>4, <1>5, <1>6, <2>1, <2>2, <2>4 DEF Over
    <3>2. CASE InSend(o)
      <4>1. /\ Heard(o) /\ net[o] # <<>> /\ Tail(net[o]) = <<>>
        BY <2>1, <2>4, <3>2
      <4>2. Append(<<>>, d) # <<>> /\ Len(<<>>) = 0
        OBVIOUS
      <4>3. Tail(net'[o]) # <<>> /\ Head(net'[o]) = Head(net[o])
        BY <1>5, <1>6, <4>1, <4>2
      <4>4. Len(net[o]) = 1
        BY <1>5, <4>1, OneLong
      <4>5. \A i \in 1..Len(net'[o]) : net'[o][i].flag = "FIN" \/ i = 1
        BY <1>3, <1>5, <1>6, <4>4
      <4>6. Answers(o, Head(net[o]))'
        BY <2>1, <2>2, <4>1, <4>3 DEF Answers
      <4> QED BY <1>3, <1>8, <2>2, <3>1, <3>2, <4>3, <4>5, <4>6 DEF Waiting, OneLeaves
    <3>3. CASE ~InSend(o)
      <4>1. net'[o] = <<d>>
        BY <1>5, <1>6, <2>1, <3>3
      <4>2. Len(<<d>>) = 1 /\ <<d>>[1] = d
        OBVIOUS
      <4>3. \A i \in 1..Len(net'[o]) : net'[o][i].flag = "FIN"
        BY <1>3, <4>1, <4>2
      <4> QED BY <1>3, <1>8, <2>2, <3>1, <3>3, <4>3 DEF Waiting, OneLeaves
    <3> QED BY <3>2, <3>3
  <2> QED BY <2>3, <2>4
<1> QED BY <1>3, <1>7, <1>8, OverFrom DEF Over

\* An end that looks around in its loop.
LEMMA LooksLocks ==
    ASSUME IInv, InLockstep, NEW q \in Sockets, ~InSend(q), ~InSend(q)',
           net' = net, ctl' = ctl, errno' = errno, UNCHANGED <<pos, garbled>>,
           call'[Peer(q)] = call[Peer(q)], todo'[Peer(q)] = todo[Peer(q)],
           At(q)' = At(q) \/ (/\ At(q) \in {"loop", "poll"}
                              /\ At(q)' \in {"loop", "poll", "recv"}
                              /\ q = "client" => At(q)' # "poll"),
           "socket" \in todo'[q] \/ At(q)' = "recv" => net[q] # <<>>
    PROVE  InLockstep'
<1> DEFINE o == Peer(q)
<1>1. /\ TypeOK /\ WireInStep /\ ControlsInStep
      /\ KeysInStep /\ PlacesInStep /\ SeenInStep
      /\ errno["client"] = "other" /\ errno["server"] = "other"
      /\ o \in Sockets /\ Peer(o) = q /\ o # q
      /\ \A p \in Sockets : p = q \/ p = o
  BY LockFacts, OtherSocket
<1>2. Still(q)
  BY DEF Still
<1>3. /\ InStepOnWire' /\ (OnItsWay(o)' <=> OnItsWay(o)) /\ (Heard(o)' <=> Heard(o))
      /\ At(o)' = At(o) /\ (InSend(o)' <=> InSend(o))
      /\ ~OnItsWay(q)' /\ ~OnItsWay(q) /\ ~Heard(q) /\ ~Heard(q)'
  BY <1>1, <1>2, GoesOnWire, StillWay DEF OnItsWay, Heard
<1>4. KeysInStep'
  <2>1. ~TextOnItsWay(q) /\ ~TextOnItsWay(q)'
        /\ (TextOnItsWay(o)' <=> TextOnItsWay(o))
    BY <1>3 DEF TextOnItsWay
  <2>2. Peer(q) = o
    OBVIOUS
  <2> HIDE DEF o
  <2>3. /\ TextOnItsWay(o) => call[o].pkt.body = pos[o] /\ pos[o] = pos[q] + 1
        /\ ~TextOnItsWay(o) => pos[o] = pos[q]
    BY <1>1, <2>1, <2>2 DEF KeysInStep
  <2>4. \A p \in Sockets :
          IF TextOnItsWay(p)'
          THEN call'[p].pkt.body = pos'[p] /\ pos'[p] = pos'[Peer(p)] + 1
          ELSE ~TextOnItsWay(Peer(p))' => pos'[p] = pos'[Peer(p)]
    BY <1>1, <2>1, <2>2, <2>3
  <2> QED BY <2>4 DEF KeysInStep
<1>5. SeenInStep'
  <2>1. net[q] # <<>> => OnItsWay(o)
    BY <1>1, Comes
  <2>2. "socket" \notin todo[o] /\ At(o) # "recv"
    BY <1>1, <1>3 DEF SeenInStep
  <2> QED BY <1>1, <1>3, <2>1, <2>2 DEF SeenInStep
<1>6. CASE q = "client"
  <2>1. o = "server"
    BY <1>6, ProcessFacts
  <2>2. /\ At("server")' = At("server") /\ (OnItsWay("server")' <=> OnItsWay("server"))
        /\ ~OnItsWay("client") /\ ~Heard("client")
        /\ (Heard("server")' <=> Heard("server"))
        /\ At("client")' = At("client")
           \/ (At("client") = "loop" /\ At("client")' \in {"loop", "recv"})
    BY <1>3, <1>6, <2>1, LockFacts
  <2>3. PlacesInStep'
    <3>1. CASE At("client")' = At("client")
      BY <1>1, <2>2, <3>1 DEF PlacesInStep
    <3>2. CASE At("client") = "loop" /\ At("client")' \in {"loop", "recv"}
      <4>1. At("server") \in {"loop", "poll", "recv", "send"}
        BY <1>1, <3>2, LockFacts DEF PlacesInStep
      <4> QED BY <2>2, <3>2, <4>1 DEF PlacesInStep
    <3> QED BY <2>2, <3>1, <3>2
  <2>4. ~Over("client")' /\ ~Over("server")'
    BY <1>1, <2>2, LockFacts DEF Over
  <2> QED BY <1>1, <1>3, <1>4, <1>5, <2>3, <2>4, LockFrom
<1>7. CASE q = "server"
  <2>1. o = "client"
    BY <1>7, ProcessFacts
  <2>2. /\ At("client")' = At("client") /\ (OnItsWay("client")' <=> OnItsWay("client"))
        /\ ~OnItsWay("server") /\ (Heard("client")' <=> Heard("client"))
        /\ At("server")' = At("server")
           \/ (At("server") \in {"loop", "poll"}
               /\ At("server")' \in {"loop", "poll", "recv"})
    BY <1>3, <1>7, <2>1, LockFacts
  <2>3. PlacesInStep'
    <3>1. At("server") \notin {"sendKey", "send"}
      BY <1>7, LockFacts
    <3>2. CASE At("server")' = At("server")
      BY <1>1, <2>2, <3>1, <3>2 DEF PlacesInStep
    <3>3. CASE /\ At("server") \in {"loop", "poll"}
               /\ At("server")' \in {"loop", "poll", "recv"}
      <4>1. \/ At("client") = "sendName" /\ Heard("client")
            \/ At("client") \in {"loop", "recv", "send"}
        BY <1>1, <3>3 DEF PlacesInStep
      <4> QED BY <2>2, <3>3, <4>1 DEF PlacesInStep
    <3> QED BY <2>2, <3>2, <3>3
  <2>4. ~Over("client")' /\ ~Over("server")'
    BY <1>1, <2>2, LockFacts DEF Over
  <2> QED BY <1>1, <1>3, <1>4, <1>5, <2>3, <2>4, LockFrom
<1> QED BY <1>6, <1>7, ProcessFacts

\* The other steps in a loop.
LEMMA PollLocks ==
    ASSUME IInv, InLockstep, NEW q \in Sockets, Poll(q)
    PROVE  InLockstep' /\ garbled' = garbled
<1>1. /\ Polls(q) /\ Goto(q, "loop") /\ todo' = [todo EXCEPT ![q] = Ready(q)]
      /\ UNCHANGED <<ctl, net, errno, pos, garbled>>
      /\ TypeOK /\ q \in Processes /\ Peer(q) \in Processes /\ Peer(q) # q
      /\ Socket(q) = q /\ "loop" \in Places
  BY LockFacts, OtherSocket DEF Poll, cipher, Places, Resting
<1>2. /\ At(q)' = "loop" /\ call'[Peer(q)] = call[Peer(q)]
      /\ todo'[q] = Ready(q) /\ todo'[Peer(q)] = todo[Peer(q)]
      /\ At(q) \in {"loop", "poll"}
  BY <1>1, GotoFacts, TypeParts DEF Polls
<1>3. "socket" \in todo'[q] => net[q] # <<>>
  BY <1>1, <1>2 DEF Ready
<1>4. ~InSend(q) /\ ~InSend(q)'
  BY <1>2 DEF InSend, Sending
<1> QED BY <1>1, <1>2, <1>3, <1>4, LooksLocks

LEMMA RecvCallLocks ==
    ASSUME IInv, InLockstep, NEW q \in Sockets, RecvCall(q)
    PROVE  InLockstep' /\ garbled' = garbled
<1> DEFINE o == Peer(q)
<1>1. /\ At(q) = "loop" /\ "socket" \in todo[q] /\ Goto(q, "recv") /\ Served(q, "socket")
      /\ UNCHANGED <<ctl, net, errno, pos, garbled>>
      /\ TypeOK /\ q \in Processes /\ o \in Processes /\ o # q
      /\ o \in Sockets /\ Peer(o) = q /\ "recv" \in Places
  BY LockFacts, OtherSocket DEF RecvCall, cipher, Places, Receiving
<1>2. /\ At(q)' = "recv" /\ call'[o] = call[o] /\ todo'[o] = todo[o]
  BY <1>1, GotoFacts, TypeParts DEF Served
<1>3. net[q] # <<>>
  <2>1. OnItsWay(o) /\ ~InSend(q)
    BY <1>1, LockFacts DEF SeenInStep
  <2>2. net[q] = <<call[o].pkt>>
    BY <2>1, LockFacts, WireFacts
  <2>3. <<call[o].pkt>> # <<>>
    OBVIOUS
  <2> HIDE DEF o
  <2> QED BY <2>2, <2>3
<1>4. ~InSend(q) /\ ~InSend(q)'
  BY <1>1, <1>2 DEF InSend, Sending
<1> QED BY <1>1, <1>2, <1>3, <1>4, LooksLocks

LEMMA ServerTurnsLock ==
    ASSUME IInv, InLockstep, ServerTest \/ PollTimeout
    PROVE  InLockstep' /\ garbled' = garbled
<1>1. /\ UNCHANGED <<ctl, net, errno, todo, pos, garbled>>
      /\ TypeOK /\ InProgram /\ todo["server"] = {}
      /\ At("server") \in {"loop", "poll"}
      /\ Goto("server", "poll") \/ Goto("server", "loop")
      /\ "loop" \in Places /\ "poll" \in Places
  BY LockFacts DEF ServerTest, PollTimeout, cipher, Polls, Places, Resting
<1>2. /\ At("server")' \in {"loop", "poll"} /\ call'["client"] = call["client"]
  BY <1>1, GotoFacts, ProcessFacts
<1>3. ~InSend("server") /\ ~InSend("server")'
  BY <1>1, <1>2 DEF InSend, Sending
<1> QED BY <1>1, <1>2, <1>3, LooksLocks, ProcessFacts

LEMMA RecvInterruptedLocks ==
    ASSUME IInv, InLockstep, RecvInterrupted
    PROVE  (InLockstep' \/ (OneIsOver' /\ OneLeaves')) /\ garbled' = garbled
<1>1. /\ InRecv("server") /\ net["server"] = <<>> /\ TypeOK
      /\ errno' = [errno EXCEPT !["server"] = "other"] /\ errno["server"] = "other"
      /\ UNCHANGED <<ctl, net, todo, pos, garbled>>
  BY LockFacts DEF RecvInterrupted, Interrupted, cipher
<1>2. errno' = errno
  BY <1>1, TypeParts
<1>3. At("server") = "recvKey"
  BY <1>1, NoTimeout, ProcessFacts
<1>4. ~InSend("server")
  BY <1>3 DEF InSend, Sending
<1>5. CASE call' = [call EXCEPT !["server"].i = @ + 1]
  <2>1. At("server")' = At("server") /\ call'["client"] = call["client"]
    BY <1>1, <1>5, TypeParts, ProcessFacts DEF At, Call
  <2>2. ~InSend("server")'
    BY <1>3, <2>1 DEF InSend, Sending
  <2>3. "socket" \notin todo["server"]
    BY <1>3, LockFacts DEF InProgram
  <2> QED BY <1>1, <1>2, <1>3, <1>4, <2>1, <2>2, <2>3, LooksLocks, ProcessFacts
<1>6. CASE RecvFails("server")
  BY <1>1, <1>4, <1>6, LeavesSilently, ProcessFacts DEF RecvFails
<1> QED BY <1>5, <1>6 DEF RecvInterrupted

-----------------------------------------------------------------------------
(* The steps, by whom they are.                                             *)

Acts(q) ==
    \/ Step(q) \/ KeyFails(q)
    \/ /\ q = "client"
       /\ \/ ClientSendKey \/ ClientRecvKey \/ ClientKeys \/ ClientLeaves
          \/ ClientBreaks
    \/ /\ q = "server"
       /\ \/ ServerRecvKey \/ RecvName \/ ServerTest \/ ServerLeaves \/ PollTimeout
          \/ ServerOutput \/ PollInterrupted \/ SendInterrupted \/ RecvInterrupted
          \/ ServerWriteFails \/ ServerKills

\* Neither the client's nor the server's.
Aside ==
    \/ KidStep \/ LoginSucceeds \/ LoginFails \/ ShellExits
    \/ UserTypes \/ ShellWrites \/ ShellStops \/ SigChld

LEMMA NextSplit ==
    ASSUME Next
    PROVE  (\E q \in Sockets : Acts(q)) \/ Aside \/ Network
<1>1. ClientStep => Acts("client")
  BY DEF ClientStep, Acts
<1>2. ServerStep => Acts("server")
  BY DEF ServerStep, Acts
<1>3. Surroundings => Acts("client") \/ Acts("server") \/ Aside
  BY DEF Surroundings, Acts, Aside
<1> QED BY <1>1, <1>2, <1>3, ProcessFacts DEF Next, Aside

LEMMA ActsEffect ==
    ASSUME IInv, Typed', NEW q \in Sockets, Acts(q)
    PROVE  Effect(q) \/ Exit(q) \/ (q = "server" /\ (RecvName \/ ServerKills))
<1>1. q \in Processes
  BY OtherSocket
<1>2. CASE Step(q)
  BY <1>1, <1>2, AnswerEffect, SendTimeoutEffect, RecvTextEffect, RecvEndEffect,
     DrainEffect, RecvTimeoutEffect, PollEffect, RecvCallEffect DEF Step
<1>3. CASE KeyFails(q)
  BY <1>1, <1>3, KeyFailsEffect, ProcessFacts
<1>4. CASE /\ q = "client"
           /\ \/ ClientSendKey \/ ClientRecvKey \/ ClientKeys \/ ClientLeaves
              \/ ClientBreaks
  BY <1>4, ClientSendKeyEffect, ClientRecvKeyEffect, ClientKeysEffect,
     ClientLeavesEffect, ClientBreaksEffect
<1>5. CASE /\ q = "server"
           /\ \/ ServerRecvKey \/ ServerTest \/ ServerLeaves \/ PollTimeout
              \/ ServerOutput \/ PollInterrupted \/ SendInterrupted \/ RecvInterrupted
              \/ ServerWriteFails
  BY <1>5, ServerRecvKeyEffect, ServerTestEffect, ServerLeavesEffect,
     PollTimeoutEffect, ServerOutputEffect, PollInterruptedEffect,
     SendInterruptedEffect, RecvInterruptedEffect, ServerWriteFailsEffect
<1> QED BY <1>2, <1>3, <1>4, <1>5 DEF Acts

\* The kid takes part only to give up.
LEMMA KidActs ==
    ASSUME IInv, Typed', KidStep
    PROVE  \/ Effect("kid") /\ GaveUp /\ GaveUp'
           \/ Exit("kid")
<1>1. At("kid") \in Program["kid"] /\ Typed' /\ TypeOK' /\ "kid" \in Processes
  BY IInvParts, ProcessFacts DEF InProgram, Typed
<1>2. ~Poll("kid") /\ ~RecvCall("kid")
  BY <1>1, ProgramFacts DEF Poll, Polls, RecvCall
<1>3. CASE ~Exit("kid")
  <2>1. /\ \/ Answer("kid") \/ SendTimeout("kid") \/ RecvText("kid") \/ RecvEnd("kid")
           \/ Drain("kid") \/ RecvTimeout("kid")
  BY <1>2, <1>3 DEF KidStep, Step
  <2>2. InSend("kid") \/ InRecv("kid")
    BY <2>1 DEF Answer, SendTimeout, RecvText, RecvEnd, Drain, RecvTimeout, Takes,
                InRecv, Receiving
  <2>3. Effect("kid")
    BY <1>1, <2>1, AnswerEffect, SendTimeoutEffect, RecvTextEffect, RecvEndEffect,
       DrainEffect, RecvTimeoutEffect
  <2> QED BY <1>1, <2>2, <2>3, KidBusy, ShapeKeeps DEF Effect
<1> QED BY <1>3

LEMMA LoginGivesUp ==
    ASSUME IInv, LoginFails PROVE GaveUp'
<1>1. TypeOK /\ At("kid") = "login" /\ ctl["kid"].seq = Hdr + Size("DATA")
  BY IInvParts DEF KidInStep, LoginFails
<1>2. PICK p \in {"close1", "close0"} : Sends("kid", ctl["kid"], net, p, "FIN", 0)
  BY DEF LoginFails
<1>3. CanSend("kid", ctl["kid"], net, p, "FIN", 0)
  BY <1>1, ProcessFacts, ProgramFacts, TypeParts DEF CanSend, Sending
<1>4. Begun("kid", ctl["kid"], net, p, "FIN", 0)
  BY <1>1, <1>2, <1>3, SendsBegun
<1>5. ctl'["kid"].seq = ctl["kid"].seq + Size("FIN")
  BY <1>4 DEF Begun
<1>6. /\ Size("FIN") \in Nat /\ Size("FIN") > 0 /\ Size("DATA") \in Nat /\ Hdr \in Nat
  BY SizeType
<1> QED BY <1>1, <1>5, <1>6 DEF GaveUp

LEMMA MeddledStays ==
    ASSUME IInv, Typed', Next
    PROVE  mishaps \subseteq mishaps' /\ (GaveUp => GaveUp') /\ (Meddled => Meddled')
<1>1. TypeOK' /\ TypeOK /\ Typed /\ KidInStep
  BY IInvParts DEF Typed
<1>2. ASSUME NEW q \in Processes, Effect(q)
      PROVE  mishaps \subseteq mishaps' /\ (GaveUp => GaveUp')
  BY <1>1, <1>2, ShapeKeeps DEF Effect
<1>3. ASSUME UNCHANGED ctl, UNCHANGED mishaps
      PROVE  mishaps \subseteq mishaps' /\ (GaveUp => GaveUp')
  BY <1>3 DEF GaveUp
<1>4. (\E q \in Processes : Exit(q)) \/ ServerKills => UNCHANGED ctl /\ UNCHANGED mishaps
  BY DEF Exit, ServerKills, past
<1>5. RecvName => UNCHANGED mishaps /\ ~GaveUp
  <2> SUFFICES ASSUME RecvName PROVE UNCHANGED mishaps /\ ~GaveUp
    OBVIOUS
  <2>1. ctl["kid"].seq = Hdr /\ UNCHANGED mishaps
    BY <1>1 DEF RecvName, Takes, KidInStep, past
  <2>2. Size("DATA") \in Nat /\ Hdr \in Nat
    BY SizeType
  <2> QED BY <2>1, <2>2 DEF GaveUp
<1>6. mishaps \subseteq mishaps' /\ (GaveUp => GaveUp')
  <2>1. ASSUME NEW q \in Sockets, Acts(q)
        PROVE  mishaps \subseteq mishaps' /\ (GaveUp => GaveUp')
    BY <1>2, <1>3, <1>4, <1>5, <2>1, ActsEffect, OtherSocket
  <2>2. CASE Aside
    <3>1. CASE KidStep
      BY <1>2, <1>3, <1>4, <3>1, KidActs, ProcessFacts
    <3>2. CASE LoginSucceeds \/ LoginFails \/ ShellExits
      BY <1>2, <3>2, LoginSucceedsEffect, LoginFailsEffect, ShellExitsEffect,
         ProcessFacts
    <3>3. CASE UserTypes \/ ShellWrites \/ SigChld
      BY <1>3, <3>3 DEF UserTypes, ShellWrites, SigChld, rudp, past
    <3>4. CASE ShellStops
      BY <3>4 DEF ShellStops, Fault, Mishap, rudp, GaveUp
    <3> QED BY <2>2, <3>1, <3>2, <3>3, <3>4 DEF Aside
  <2>3. CASE Network
    BY <2>3 DEF Network, Drop, Fault, Mishap, GaveUp
  <2> QED BY <2>1, <2>2, <2>3, NextSplit
<1> QED BY <1>6 DEF Meddled, Crossed, Lost, Late, Mishaps

\* Without it nothing changes for the two ends.
Bystand ==
    /\ \A p \in Sockets :
          /\ call'[p] = call[p] /\ ctl'[p] = ctl[p] /\ todo'[p] = todo[p]
          /\ errno'[p] = errno[p]
          /\ net'[p] \in {net[p], <<>>} /\ (At(p) # "gone" => net'[p] = net[p])
    /\ pos' = pos /\ garbled' = garbled

LEMMA AsideFacts ==
    ASSUME IInv, Typed', Aside, ~GaveUp' PROVE Bystand
<1>1. TypeOK /\ "kid" \in Processes /\ ~LoginFails
      /\ \A p \in Sockets : p \in Processes /\ p # "kid"
  BY IInvParts, LoginGivesUp, ProcessFacts
<1>2. CASE LoginSucceeds \/ ShellExits
  <2>1. Goto("kid", "shell") \/ Goto("kid", "exit")
    BY <1>2 DEF LoginSucceeds, ShellExits
  <2>2. UNCHANGED <<ctl, net, errno, todo, pos, garbled>>
    BY <1>2 DEF LoginSucceeds, ShellExits, cipher
  <2>3. \A p \in Sockets : call'[p] = call[p]
    BY <1>1, <2>1, GotoFacts DEF Places, Resting
  <2> QED BY <2>2, <2>3 DEF Bystand
<1>3. CASE UserTypes \/ ShellWrites \/ ShellStops \/ SigChld
  BY <1>3 DEF UserTypes, ShellWrites, ShellStops, SigChld, rudp, cipher, Bystand
<1>4. CASE KidStep
  <2>1. Exit("kid")
    BY <1>4, KidActs
  <2>2. Ends({"kid"}) /\ UNCHANGED <<ctl, errno, pos, garbled>>
    BY <2>1 DEF Exit, cipher
  <2>3. \A p \in Sockets : /\ call'[p] = call[p] /\ todo'[p] = todo[p]
                           /\ net'[p] \in {<<>>, net[p]}
    BY <1>1, <2>2, EndsFacts
  <2>4. ASSUME NEW p \in Sockets, At(p) # "gone" PROVE net'[p] = net[p]
    <3>1. At(p) \notin {"none", "shell", "gone"} /\ Socket(p) = p
      BY <1>1, <2>4, IInvParts, OtherSocket, ProgramFacts DEF InProgram
    <3>2. net' = [s \in Sockets |->
                   IF \A r \in Processes : Socket(r) = s =>
                         r \in {"kid"} \/ At(r) \in {"none", "shell", "gone"}
                   THEN <<>> ELSE net[s]]
      BY <2>2 DEF Ends
    <3> QED BY <1>1, <3>1, <3>2
  <2> QED BY <2>2, <2>3, <2>4 DEF Bystand
<1> QED BY <1>1, <1>2, <1>3, <1>4 DEF Aside

LEMMA MishapNoted ==
    ASSUME NEW qs, NEW kinds, NEW q \in qs, NEW what \in kinds, Mishap(q, what)
    PROVE  Mishaps(qs, kinds)'
<1>1. <<q, what>> \in qs \X kinds
  OBVIOUS
<1>2. <<q, what>> \in mishaps'
  BY DEF Mishap
<1> QED BY <1>1, <1>2 DEF Mishaps

\* A timeout that is not too early.
LEMMA OnTime ==
    ASSUME NEW q \in Sockets, SendTimeout(q) \/ RecvTimeout(q), ~Late'
    PROVE  Quiet /\ net[q] = <<>> /\ mishaps' = mishaps
<1>1. q \in Processes /\ Socket(q) = q
  BY OtherSocket
<1>2. Expires(q) /\ At(q) \in Sending \cup Receiving
  BY DEF SendTimeout, RecvTimeout, InSend, InRecv
<1>3. ~Fault(q, "late")
  <2>1. Fault(q, "late") => Mishap(q, "late")
    BY DEF Fault
  <2> QED BY <1>1, <2>1, MishapNoted DEF Late
<1>4. Quiet /\ mishaps' = mishaps
  BY <1>2, <1>3 DEF Expires
<1>5. At(q) \notin {"none", "login", "shell", "gone"}
  BY <1>2 DEF Sending, Receiving
<1> QED BY <1>1, <1>4, <1>5 DEF Quiet

-----------------------------------------------------------------------------
(* What each of the three states becomes.                                   *)

LEMMA LockStays ==
    ASSUME IInv, InLockstep, Bystand PROVE InLockstep' /\ garbled' = garbled
<1>1. /\ TypeOK /\ WireInStep /\ ControlsInStep
      /\ KeysInStep /\ PlacesInStep /\ SeenInStep
      /\ errno["client"] = "other" /\ errno["server"] = "other"
      /\ At("client") # "gone" /\ At("server") # "gone"
      /\ ~Over("client") /\ ~Over("server")
  BY LockFacts DEF Over
<1>2. \A p \in Sockets : call'[p] = call[p] /\ ctl'[p] = ctl[p] /\ todo'[p] = todo[p]
                         /\ errno'[p] = errno[p] /\ net'[p] = net[p] /\ pos'[p] = pos[p]
  BY <1>1, ProcessFacts DEF Bystand
<1>3. \A p \in Sockets : Peer(p) \in Sockets
  BY OtherSocket
<1>4. \A p \in Sockets : /\ At(p)' = At(p) /\ InSend(p)' = InSend(p)
                         /\ OnItsWay(p)' = OnItsWay(p) /\ Heard(p)' = Heard(p)
                         /\ TextOnItsWay(p)' = TextOnItsWay(p)
                         /\ Over(p)' = Over(p)
  BY <1>2, <1>3 DEF At, InSend, OnItsWay, Heard, TextOnItsWay, Over
<1>5. \A p \in Sockets : /\ Coming(p)' = Coming(p)
                         /\ Answers(p, Head(net[p]))' = Answers(p, Head(net[p]))
  BY <1>2, <1>3, <1>4 DEF Coming, Answers
<1>6. WireInStep'
  BY <1>1, <1>2, <1>3, <1>4, <1>5 DEF WireInStep
<1>7. ControlsInStep'
  BY <1>1, <1>2, <1>3, <1>4 DEF ControlsInStep
<1>8. KeysInStep'
  BY <1>1, <1>2, <1>3, <1>4 DEF KeysInStep
<1>9. PlacesInStep'
  BY <1>1, <1>4, ProcessFacts DEF PlacesInStep
<1>10. SeenInStep'
  BY <1>1, <1>2, <1>3, <1>4 DEF SeenInStep
<1> QED BY <1>1, <1>2, <1>4, <1>6, <1>7, <1>8, <1>9, <1>10, ProcessFacts, LockFrom
       DEF InStepOnWire, Bystand

LEMMA WriteFailsOver ==
    ASSUME IInv, InLockstep, ServerWriteFails
    PROVE  OneIsOver' /\ OneLeaves' /\ (~garbled => ~garbled')
<1>1. /\ At("server") = "recv" /\ net["server"] # <<>> /\ Passes("server", "exit")
      /\ Decrypt("server", Arrived("server").body) /\ ~InSend("server")
  BY ProcessFacts DEF ServerWriteFails, Takes, InSend, Sending
<1>2. /\ TypeOK /\ WireInStep /\ ControlsInStep /\ KeysInStep
      /\ "server" \in Sockets /\ "client" \in Sockets
      /\ Peer("server") = "client" /\ Peer("client") = "server"
      /\ At("client") # "sendKey"
  BY <1>1, LockFacts, ProcessFacts DEF PlacesInStep
<1>3. OnItsWay("client") /\ Arrived("server") = call["client"].pkt
  BY <1>1, <1>2, Comes
<1>4. Arrived("server").body = pos["server"] + 1 /\ pos["server"] + 1 \in Nat
  BY <1>2, <1>3, PosFacts DEF KeysInStep, TextOnItsWay
<1>5. ~garbled => ~garbled'
  BY <1>1, <1>2, <1>4, PosFacts
<1> QED BY <1>1, <1>2, <1>5, PassesOver

LEMMA LockActs ==
    ASSUME IInv, IInv', InLockstep, NEW q \in Sockets, Acts(q), ~SendInterrupted,
           ~Late'
    PROVE  /\ ~garbled => ~garbled'
           /\ \/ InLockstep' \/ AboutToCross'
              \/ OneIsOver' /\ (SignalIsKids => OneLeaves')
<1>1. /\ TypeOK /\ q \in Processes /\ Socket(q) = q
      /\ At(q) \notin {"close1", "close2", "drain", "kill", "exit", "gone"}
      /\ errno["client"] = "other" /\ errno["server"] = "other"
  BY LockFacts, OtherSocket, ProcessFacts
<1>2. CASE Step(q)
  <2>1. ~SendTimeout(q)
    BY NoTimeout, OnTime DEF SendTimeout
  <2>2. ~RecvEnd(q)
    <3> SUFFICES ASSUME RecvEnd(q) PROVE FALSE
      OBVIOUS
    <3>1. At(q) = "recv" /\ net[q] # <<>> /\ Arrived(q).flag # "DATA"
      BY <1>1 DEF RecvEnd, Takes
    <3>2. ~InSend(q)
      BY <3>1 DEF InSend, Sending
    <3> QED BY <3>1, <3>2, Comes, LockFacts
  <2>3. ~Drain(q) /\ ~Exit(q)
    BY <1>1 DEF Drain, Exit, Takes
  <2>4. CASE RecvTimeout(q)
    <3>1. /\ InRecv(q) /\ Goto(q, "exit") /\ UNCHANGED <<net, ctl, garbled>>
      BY <2>4 DEF RecvTimeout, RecvFails, cipher
    <3>2. ~InSend(q)
      BY <3>1 DEF InRecv, InSend, Receiving, Sending
    <3> QED BY <3>1, <3>2, LeavesSilently
  <2>5. CASE Answer(q)
    BY <2>5, AnswerLocks
  <2>6. CASE RecvText(q)
    BY <2>6, RecvTextLocks
  <2>7. CASE Poll(q)
    BY <2>7, PollLocks
  <2>8. CASE RecvCall(q)
    BY <2>8, RecvCallLocks
  <2> QED BY <1>2, <2>1, <2>2, <2>3, <2>4, <2>5, <2>6, <2>7, <2>8 DEF Step
<1>3. CASE KeyFails(q)
  <2>1. ~InSend(q) /\ Goto(q, "exit") /\ UNCHANGED <<net, ctl, garbled>>
    BY <1>3 DEF KeyFails, InSend, Sending, cipher
  <2> QED BY <2>1, LeavesSilently
<1>4. CASE q = "client" /\ (ClientSendKey \/ ClientRecvKey \/ ClientKeys)
  BY <1>4, ClientSendKeyLocks, ClientRecvKeyLocks, ClientKeysLocks
<1>9. CASE q = "client" /\ ClientBreaks
  <2>1. ~InSend(q) /\ Goto(q, "exit") /\ UNCHANGED <<net, ctl, garbled>>
    BY <1>9 DEF ClientBreaks, InSend, Sending, cipher
  <2> QED BY <2>1, LeavesSilently
<1>5. CASE q = "client" /\ ClientLeaves
  <2>1. At(q) = "loop" /\ errno' = errno /\ garbled' = garbled
        /\ Sends(q, ctl[q], net, "close1", "FIN", 0)
    BY <1>5 DEF ClientLeaves, cipher
  <2> QED BY <1>1, <1>5, <2>1, FinSent
<1>6. CASE q = "server" /\ (ServerLeaves \/ PollInterrupted)
  <2>1. /\ At(q) \in {"loop", "poll"} /\ garbled' = garbled
        /\ Sends(q, ctl[q], net, "close1", "FIN", 0)
    BY <1>6 DEF ServerLeaves, PollInterrupted, Polls, cipher
  <2>2. errno'[q] = "other"
    BY <1>1, <1>6, TypeParts DEF ServerLeaves, PollInterrupted
  <2>3. ASSUME SignalIsKids PROVE SignalSpent'
    <3>1. Gone("kid") /\ ~chld'.raised /\ chld'.exit
      BY <1>6, <2>3, HandlesFacts DEF ServerLeaves, PollInterrupted, SignalIsKids
    <3>2. call'["kid"] = call["kid"]
      <4>1. CanSend(q, ctl[q], net, "close1", "FIN", 0)
        BY <1>1, <1>6, ProcessFacts, ProgramFacts, TypeParts DEF CanSend, Sending
      <4>2. Begun(q, ctl[q], net, "close1", "FIN", 0)
        BY <1>1, <2>1, <4>1, SendsBegun
      <4> QED BY <1>6, <4>2, ProcessFacts DEF Begun
    <3> QED BY <3>1, <3>2 DEF SignalSpent, Gone, At
  <2> QED BY <2>1, <2>2, <2>3, FinSent
<1>7. CASE /\ q = "server"
           /\ \/ ServerRecvKey \/ RecvName \/ ServerTest \/ PollTimeout
              \/ ServerOutput \/ RecvInterrupted
  BY <1>7, ServerRecvKeyLocks, RecvNameLocks, ServerTurnsLock, ServerOutputLocks,
     RecvInterruptedLocks
<1>8. CASE q = "server" /\ ServerKills
  BY <1>1, <1>8 DEF ServerKills
<1>10. CASE q = "server" /\ ServerWriteFails
  BY <1>10, WriteFailsOver
<1> QED BY <1>2, <1>3, <1>4, <1>5, <1>6, <1>7, <1>8, <1>9, <1>10 DEF Acts

\* Who is in a call that sends only waits.
LEMMA SenderActs ==
    ASSUME NEW q \in Sockets, Acts(q), InSend(q)
    PROVE  Answer(q) \/ SendTimeout(q) \/ (q = "server" /\ SendInterrupted)
<1>1. At(q) \in Sending /\ \A p \in {"start", "recvKey", "recvName", "recv", "drain",
                                    "loop", "poll", "exit", "kill"} : At(q) # p
  BY DEF InSend, Sending
<1>2. Step(q) => Answer(q) \/ SendTimeout(q)
  BY <1>1 DEF Step, RecvText, RecvEnd, Drain, RecvTimeout, Poll, RecvCall, Exit, Takes,
              Polls, InRecv, Receiving
<1>3. ~KeyFails(q)
  BY <1>1 DEF KeyFails
<1>4. q = "client" =>
        ~(\/ ClientSendKey \/ ClientRecvKey \/ ClientKeys \/ ClientLeaves
          \/ ClientBreaks)
  BY <1>1 DEF ClientSendKey, ClientRecvKey, ClientKeys, ClientLeaves, ClientBreaks,
              Takes
<1>5. q = "server" =>
        ~(\/ ServerRecvKey \/ RecvName \/ ServerTest \/ ServerLeaves \/ PollTimeout
          \/ ServerOutput \/ PollInterrupted \/ RecvInterrupted \/ ServerWriteFails
          \/ ServerKills)
  BY <1>1 DEF ServerRecvKey, RecvName, ServerTest, ServerLeaves, PollTimeout,
              ServerOutput, PollInterrupted, RecvInterrupted, ServerWriteFails,
              ServerKills, Takes, Polls, InRecv, Receiving
<1> QED BY <1>2, <1>3, <1>4, <1>5 DEF Acts

\* Who will get text for an answer waits, or texts have crossed.
LEMMA StuckActs ==
    ASSUME IInv, NEW q \in Sockets, Acts(q), Stuck(q), ~Crossed', ~Late'
    PROVE  FALSE
<1>1. InSend(q) /\ net[q] # <<>> /\ Arrived(q).flag = "DATA" /\ q \in Processes
      /\ Socket(q) = q
  BY OtherSocket DEF Stuck, Arrived
<1>2. ~SendTimeout(q) /\ (q = "server" => ~SendInterrupted)
  BY <1>1, OnTime DEF SendInterrupted, Interrupted
<1>3. Answer(q)
  BY <1>1, <1>2, SenderActs
<1>4. Mishap(q, "DATA")
  BY <1>1, <1>3 DEF Answer, Answers
<1> QED BY <1>1, <1>4, MishapNoted DEF Crossed

LEMMA CrossKeeps ==
    ASSUME IInv, Typed', AboutToCross, Next, ~Meddled'
    PROVE  AboutToCross' /\ garbled' = garbled
<1>1. ~Crossed' /\ ~Lost' /\ ~Late' /\ ~GaveUp'
  BY DEF Meddled
<1>2. ASSUME NEW q \in Sockets, Acts(q) PROVE FALSE
  BY <1>1, <1>2, StuckActs DEF AboutToCross
<1>3. ~Network
  BY <1>1, OtherSocket, MishapNoted DEF Network, Drop, Fault, Lost
<1>4. Bystand
  BY <1>1, <1>2, <1>3, NextSplit, AsideFacts
<1>5. At("client") # "gone" /\ At("server") # "gone"
  BY ProcessFacts DEF AboutToCross, Stuck, InSend, Sending
<1>6. \A p \in Sockets : call'[p] = call[p] /\ net'[p] = net[p]
  BY <1>4, <1>5, ProcessFacts DEF Bystand
<1>7. AboutToCross'
  BY <1>6 DEF AboutToCross, Stuck, InSend, At
<1> QED BY <1>4, <1>7 DEF Bystand

\* Only text is decrypted.
LEMMA OnlyTextGarbles ==
    ASSUME TypeOK, NEW q \in Sockets, Acts(q), garbled' # garbled
    PROVE  /\ RecvText(q) \/ (q = "server" /\ (RecvName \/ ServerWriteFails))
           /\ net[q] # <<>> /\ Arrived(q).flag = "DATA"
<1>1. q \in Processes /\ Socket(q) = q /\ Socket("server") = "server"
  BY OtherSocket, ProcessFacts
<1>2. CASE Step(q)
  BY <1>1, <1>2 DEF Step, Answer, SendTimeout, RecvText, RecvEnd, Drain, RecvTimeout,
                    Poll, RecvCall, Exit, Takes, cipher
<1>3. ~KeyFails(q)
  BY DEF KeyFails, cipher
<1>4. ~(\/ ClientSendKey \/ ClientRecvKey \/ ClientKeys \/ ClientLeaves
        \/ ClientBreaks)
  BY DEF ClientSendKey, ClientRecvKey, ClientKeys, ClientLeaves, ClientBreaks,
         Encrypt, cipher
<1>5. ~(\/ ServerRecvKey \/ ServerTest \/ ServerLeaves \/ PollTimeout
        \/ ServerOutput \/ PollInterrupted \/ SendInterrupted \/ RecvInterrupted
        \/ ServerKills)
  BY DEF ServerRecvKey, ServerTest, ServerLeaves, PollTimeout, ServerOutput,
         PollInterrupted, SendInterrupted, RecvInterrupted, ServerKills, Encrypt, cipher
<1>6. RecvName => net["server"] # <<>> /\ Arrived("server").flag = "DATA"
  BY <1>1 DEF RecvName, Takes, cipher
<1>7. ServerWriteFails => net["server"] # <<>> /\ Arrived("server").flag = "DATA"
  BY <1>1 DEF ServerWriteFails, Takes
<1> QED BY <1>2, <1>3, <1>4, <1>5, <1>6, <1>7 DEF Acts

-----------------------------------------------------------------------------
(* One end is over.                                                         *)

LEMMA NoDataPut ==
    ASSUME NEW n \in NetType, NEW s \in Sockets, NEW d \in Datagram,
           d.flag # "DATA", \A i \in 1..Len(n[s]) : n[s][i].flag # "DATA",
           net' = Put(n, s, d)
    PROVE  NoData(s)'
<1>1. n[s] \in Seq(Datagram)
  BY DEF NetType
<1>2. /\ Len(Append(n[s], d)) = Len(n[s]) + 1 /\ Len(n[s]) \in Nat
      /\ \A i \in 1..Len(Append(n[s], d)) :
            Append(n[s], d)[i] = IF i <= Len(n[s]) THEN n[s][i] ELSE d
  BY <1>1, OneLonger, LenProperties
<1>3. \A i \in 1..Len(Append(n[s], d)) : Append(n[s], d)[i].flag # "DATA"
  BY <1>2
<1>4. net'[s] \in {n[s], Append(n[s], d)}
  BY PutFacts
<1>5. \A i \in 1..Len(net'[s]) : net'[s][i].flag # "DATA"
  BY <1>3, <1>4
<1> QED BY <1>5 DEF NoData

\* Where an end that is over goes from its calls.
LEMMA OverPlaces ==
    ASSUME IInv, NEW p \in Sockets, Over(p), InSend(p)
    PROVE  /\ Then[p][At(p)] \in {"drain", "exit", "kill"}
           /\ AfterFailure(p, At(p)) = Then[p][At(p)]
           /\ At(p) \in Program[p]
<1>1. InProgram /\ p \in Processes
  BY IInvParts, OtherSocket
<1>2. At(p) \in {"close1", "close2"} /\ At(p) \in Program[p]
  BY <1>1 DEF Over, InSend, Sending, InProgram
<1>3. AfterFailure(p, At(p)) = Then[p][At(p)]
  BY <1>2 DEF AfterFailure
<1>4. CASE p = "client"
  BY <1>2, <1>3, <1>4, ThenFacts
<1>5. CASE p = "server"
  BY <1>2, <1>3, <1>5, ThenFacts
<1> QED BY <1>2, <1>3, <1>4, <1>5, OtherSocket

\* It goes on in its shutdown.
LEMMA OverGoes ==
    ASSUME TypeOK, NEW p \in Sockets, NEW place \in {"drain", "exit", "kill"},
           Goto(p, place)
    PROVE  Over(p)' /\ ~InSend(p)'
<1>1. place \in Places /\ p \in Processes
  BY OtherSocket DEF Places, Resting, Receiving
<1>2. At(p)' = place
  BY <1>1, GotoFacts
<1> QED BY <1>2 DEF Over, InSend, Sending

LEMMA OverAnswers ==
    ASSUME IInv, NEW p \in Sockets, Answer(p), Over(p),
           InSend(p) => call[p].pkt.flag = "FIN", NoData(Peer(p))
    PROVE  /\ Over(p)' /\ (InSend(p)' => call'[p].pkt.flag = "FIN")
           /\ NoData(Peer(p))'
<1>1. /\ TypeOK /\ p \in Processes /\ Socket(p) = p /\ InSend(p)
      /\ net[p] # <<>> /\ Peer(p) \in Sockets
  BY IInvParts, OtherSocket DEF Answer
<1>2. /\ Rest(p) \in NetType /\ Rest(p)[Peer(p)] = net[Peer(p)]
  BY <1>1, ArrivedFacts
<1>3. /\ Then[p][At(p)] \in {"drain", "exit", "kill"}
      /\ AfterFailure(p, At(p)) = Then[p][At(p)] /\ At(p) \in Program[p]
  BY <1>1, OverPlaces
<1>4. CASE Goto(p, Then[p][At(p)]) /\ net' = Rest(p)
  <2>1. Over(p)' /\ ~InSend(p)'
    BY <1>1, <1>3, <1>4, OverGoes
  <2>2. NoData(Peer(p))'
    BY <1>2, <1>4 DEF NoData
  <2> QED BY <2>1, <2>2
<1>5. CASE Retry(p, Rest(p))
  <2>1. \/ /\ At(p)' = At(p) /\ call'[p].pkt = call[p].pkt
           /\ net' = Put(Rest(p), Peer(p), call[p].pkt)
        \/ net' = Rest(p) /\ At(p)' = AfterFailure(p, At(p))
    BY <1>1, <1>2, <1>3, <1>5, RetryFacts
  <2>2. CASE /\ At(p)' = At(p) /\ call'[p].pkt = call[p].pkt
             /\ net' = Put(Rest(p), Peer(p), call[p].pkt)
    <3>1. call[p].pkt \in Datagram /\ call[p].pkt.flag # "DATA"
      BY <1>1, TypeParts DEF Call
    <3>2. \A i \in 1..Len(Rest(p)[Peer(p)]) : Rest(p)[Peer(p)][i].flag # "DATA"
      BY <1>2 DEF NoData
    <3>3. NoData(Peer(p))'
      BY <1>1, <1>2, <2>2, <3>1, <3>2, NoDataPut
    <3> QED BY <1>1, <2>2, <3>3 DEF Over
  <2>3. CASE net' = Rest(p) /\ At(p)' = AfterFailure(p, At(p))
    <3>1. NoData(Peer(p))'
      BY <1>2, <2>3 DEF NoData
    <3> QED BY <1>3, <2>3, <3>1 DEF Over, InSend, Sending
  <2> QED BY <2>1, <2>2, <2>3
<1> QED BY <1>1, <1>4, <1>5 DEF Answer

LEMMA OverDrains ==
    ASSUME IInv, NEW p \in Sockets, Drain(p), NoData(Peer(p))
    PROVE  Over(p)' /\ ~InSend(p)' /\ NoData(Peer(p))'
<1>1. /\ TypeOK /\ p \in Processes /\ net[Socket(p)] # <<>> /\ Passes(p, "exit")
      /\ Peer(p) \in Sockets
  BY IInvParts, OtherSocket DEF Drain, Takes
<1>2. Over(p)' /\ ~InSend(p)'
  BY <1>1, OverGoes DEF Passes
<1>3. /\ Rest(p) \in NetType /\ Rest(p)[Peer(p)] = net[Peer(p)]
      /\ Packet(Noted(p), "ACK", 0) \in Datagram
      /\ Packet(Noted(p), "ACK", 0).flag # "DATA"
  BY <1>1, ArrivedFacts, NotedFacts DEF Packet
<1>4. net' = Put(Rest(p), Peer(p), Packet(Noted(p), "ACK", 0))
  BY <1>1 DEF Passes, Acked
<1>5. \A i \in 1..Len(Rest(p)[Peer(p)]) : Rest(p)[Peer(p)][i].flag # "DATA"
  BY <1>3 DEF NoData
<1> QED BY <1>1, <1>2, <1>3, <1>4, <1>5, NoDataPut

\* It ends, and so may what it read from.
LEMMA OverEnds ==
    ASSUME TypeOK, NEW p \in Sockets, NEW qs \in SUBSET Processes, Ends(qs),
           Over(p), NoData(Peer(p)), InSend(p) => call[p].pkt.flag = "FIN"
    PROVE  /\ Over(p)' /\ (InSend(p)' => call'[p].pkt.flag = "FIN")
           /\ NoData(Peer(p))'
<1>1. p \in Processes /\ Peer(p) \in Sockets
  BY OtherSocket
<1>2. /\ At(p)' = IF p \in qs THEN "gone" ELSE At(p)
      /\ p \notin qs => call'[p] = call[p]
      /\ net'[Peer(p)] \in {<<>>, net[Peer(p)]}
  BY <1>1, EndsFacts
<1>3. NoData(Peer(p))'
  <2>1. Len(<<>>) = 0
    OBVIOUS
  <2>2. net'[Peer(p)] = <<>> => \A i \in 1..Len(net'[Peer(p)]) : FALSE
    BY <2>1
  <2>3. net'[Peer(p)] = net[Peer(p)] => NoData(Peer(p))'
    BY DEF NoData
  <2> QED BY <1>2, <2>2, <2>3 DEF NoData
<1>4. Over(p)' /\ (InSend(p)' => p \notin qs /\ InSend(p))
  BY <1>2 DEF Over, InSend, Sending
<1> QED BY <1>2, <1>3, <1>4

LEMMA OverActs ==
    ASSUME IInv, NEW p \in Sockets, Acts(p), Over(p), ~Meddled',
           InSend(p) => call[p].pkt.flag = "FIN", NoData(Peer(p))
    PROVE  /\ Over(p)' /\ (InSend(p)' => call'[p].pkt.flag = "FIN")
           /\ NoData(Peer(p))'
<1>1. /\ TypeOK /\ Typed /\ p \in Processes /\ {p} \in SUBSET Processes
      /\ {"server", "kid"} \in SUBSET Processes
      /\ "exit" \in {"drain", "exit", "kill"}
  BY IInvParts, OtherSocket, ProcessFacts
<1>2. \A x \in {"start", "sendKey", "recvKey", "sendName", "recvName", "loop",
               "poll", "recv", "send"} : At(p) # x
  BY DEF Over
<1>3. CASE Answer(p)
  BY <1>3, OverAnswers
<1>4. CASE SendTimeout(p)
  <2>1. InSend(p) /\ Goto(p, AfterFailure(p, At(p))) /\ net' = net
    BY <1>4 DEF SendTimeout, Fail
  <2>2. Over(p)' /\ ~InSend(p)'
    BY <1>1, <2>1, OverPlaces, OverGoes
  <2> QED BY <2>1, <2>2 DEF NoData
<1>5. CASE Drain(p)
  BY <1>5, OverDrains
<1>6. CASE RecvTimeout(p)
  <2>1. Goto(p, "exit") /\ net' = net
    BY <1>6 DEF RecvTimeout, RecvFails
  <2>2. Over(p)' /\ ~InSend(p)'
    BY <1>1, <2>1, OverGoes
  <2> QED BY <2>1, <2>2 DEF NoData
<1>7. CASE Exit(p)
  <2>1. Ends({p})
    BY <1>7 DEF Exit
  <2> QED BY <1>1, <2>1, OverEnds
<1>8. CASE p = "server" /\ ServerKills
  <2>1. Ends({"server", "kid"})
    BY <1>8 DEF ServerKills
  <2> QED BY <1>1, <2>1, OverEnds
<1>9. CASE p = "server" /\ RecvInterrupted
  <2>1. /\ InRecv("server") /\ net' = net
        /\ \/ call' = [call EXCEPT !["server"].i = @ + 1]
           \/ Goto("server", "exit")
    BY <1>9 DEF RecvInterrupted, RecvFails
  <2>2. ~InSend("server")
    BY <2>1 DEF InSend, InRecv, Sending, Receiving
  <2>3. CASE call' = [call EXCEPT !["server"].i = @ + 1]
    <3>1. At("server")' = At("server")
      BY <1>1, <1>9, <2>3, TypeParts DEF At, Call
    <3> QED BY <1>9, <2>1, <2>2, <3>1 DEF NoData, Over, InSend
  <2>4. CASE Goto("server", "exit")
    <3>1. Over(p)' /\ ~InSend(p)'
      BY <1>1, <1>9, <2>4, OverGoes
    <3> QED BY <2>1, <3>1 DEF NoData
  <2> QED BY <2>1, <2>3, <2>4
<1>10. ~SendInterrupted
  BY MishapNoted DEF SendInterrupted, Meddled
<1>11. ~RecvText(p) /\ ~RecvEnd(p) /\ ~Poll(p) /\ ~RecvCall(p) /\ ~KeyFails(p)
  BY <1>2 DEF RecvText, RecvEnd, Poll, Polls, RecvCall, KeyFails, Takes
<1>12. p = "client" =>
         ~(\/ ClientSendKey \/ ClientRecvKey \/ ClientKeys \/ ClientLeaves
           \/ ClientBreaks)
  BY <1>2 DEF ClientSendKey, ClientRecvKey, ClientKeys, ClientLeaves, ClientBreaks,
              Takes
<1>13. p = "server" =>
         ~(\/ ServerRecvKey \/ RecvName \/ ServerTest \/ ServerLeaves \/ PollTimeout
           \/ ServerOutput \/ PollInterrupted \/ ServerWriteFails)
  BY <1>2 DEF ServerRecvKey, RecvName, ServerTest, ServerLeaves, PollTimeout,
              ServerOutput, PollInterrupted, ServerWriteFails, Takes, Polls
<1> QED BY <1>3, <1>4, <1>5, <1>6, <1>7, <1>8, <1>9, <1>10, <1>11, <1>12, <1>13
       DEF Acts, Step

\* What the other end takes from a queue without text leaves none.
LEMMA NoDataOwn ==
    ASSUME TypeOK, NEW q \in Sockets, NoData(q),
           net'[q] = net[q] \/ (net[q] # <<>> /\ net'[q] = Tail(net[q]))
    PROVE  NoData(q)'
<1>1. net'[q] = net[q] => NoData(q)'
  BY DEF NoData
<1>2. ASSUME net[q] # <<>>, net'[q] = Tail(net[q]) PROVE NoData(q)'
  <2>1. \A i \in 1..Len(Tail(net[q])) :
            i + 1 \in 1..Len(net[q]) /\ Tail(net[q])[i] = net[q][i + 1]
    BY <1>2, QueueType
  <2> QED BY <1>2, <2>1 DEF NoData
<1> QED BY <1>1, <1>2

LEMMA OtherActs ==
    ASSUME IInv, Typed', NEW p \in Sockets, Acts(Peer(p)), Over(p), ~Meddled',
           InSend(p) => call[p].pkt.flag = "FIN", NoData(Peer(p))
    PROVE  /\ Over(p)' /\ (InSend(p)' => call'[p].pkt.flag = "FIN")
           /\ NoData(Peer(p))'
<1> DEFINE o == Peer(p)
<1>1. /\ TypeOK /\ Typed /\ p \in Processes /\ o \in Processes /\ o \in Sockets
      /\ {o} \in SUBSET Processes /\ {"server", "kid"} \in SUBSET Processes
      /\ Socket(o) = o /\ o # p
  BY IInvParts, OtherSocket, ProcessFacts
<1>2. CASE Effect(o)
  <2>1. call'[p] = call[p] /\ OwnQueue(o)
    BY <1>1, <1>2 DEF Effect, Alone, Shape
  <2>2. net'[o] = net[o] \/ (net[o] # <<>> /\ net'[o] = Tail(net[o]))
    BY <1>1, <2>1 DEF OwnQueue
  <2>3. NoData(o)'
    BY <1>1, <2>2, NoDataOwn
  <2> QED BY <2>1, <2>3 DEF Over, InSend, At
<1>3. CASE Exit(o)
  <2>1. Ends({o})
    BY <1>3 DEF Exit
  <2> QED BY <1>1, <2>1, OverEnds
<1>4. CASE ServerKills
  <2>1. Ends({"server", "kid"})
    BY <1>4 DEF ServerKills
  <2> QED BY <1>1, <2>1, OverEnds
<1>5. CASE o = "server" /\ RecvName
  <2>1. p = "client" /\ net["server"] # <<>> /\ net' = Acked("server")
    BY <1>1, <1>5, ProcessFacts, OtherSocket DEF RecvName, Takes
  <2>2. call'[p] = call[p]
    BY <1>1, <1>5, <2>1, RecvNameFacts
  <2>3. net'[o] = Tail(net[o])
    BY <1>1, <1>5, <2>1, AckedFacts
  <2>4. NoData(o)'
    BY <1>1, <1>5, <2>1, <2>3, NoDataOwn
  <2> QED BY <2>2, <2>4 DEF Over, InSend, At
<1> QED BY <1>1, <1>2, <1>3, <1>4, <1>5, ActsEffect

LEMMA OverKeeps ==
    ASSUME IInv, Typed', OneIsOver, Next, ~Meddled', ~garbled
    PROVE  OneIsOver' /\ ~garbled'
<1>1. /\ TypeOK /\ ~Lost' /\ ~GaveUp'
  BY IInvParts DEF Meddled
<1>2. PICK p \in Sockets : /\ Over(p) /\ (InSend(p) => call[p].pkt.flag = "FIN")
                           /\ NoData(Peer(p))
  BY DEF OneIsOver
<1>3. ~Network
  BY <1>1, OtherSocket, MishapNoted DEF Network, Drop, Fault, Lost
<1>4. CASE Aside
  <2>1. Bystand /\ Peer(p) \in Sockets
    BY <1>1, <1>4, AsideFacts, OtherSocket
  <2>2. call'[p] = call[p] /\ net'[Peer(p)] \in {net[Peer(p)], <<>>}
        /\ garbled' = garbled
    BY <2>1 DEF Bystand
  <2>3. NoData(Peer(p))'
    <3>1. Len(<<>>) = 0
      OBVIOUS
    <3>2. net'[Peer(p)] = <<>> => \A i \in 1..Len(net'[Peer(p)]) : FALSE
      BY <3>1
    <3> QED BY <1>2, <2>2, <3>2 DEF NoData
  <2>4. Over(p)' /\ (InSend(p)' => call'[p].pkt.flag = "FIN")
    BY <1>2, <2>2 DEF Over, InSend, At
  <2> QED BY <2>2, <2>3, <2>4 DEF OneIsOver
<1>5. ASSUME NEW q \in Sockets, Acts(q) PROVE OneIsOver' /\ ~garbled'
  <2>1. q = p \/ q = Peer(p)
    BY OtherSocket
  <2>2. /\ Over(p)' /\ (InSend(p)' => call'[p].pkt.flag = "FIN")
        /\ NoData(Peer(p))'
    BY <1>2, <1>5, <2>1, OverActs, OtherActs
  <2>3. OneIsOver'
    BY <2>2 DEF OneIsOver
  <2>4. garbled' = garbled
    <3> SUFFICES ASSUME garbled' # garbled PROVE FALSE
      OBVIOUS
    <3>1. /\ RecvText(q) \/ (q = "server" /\ (RecvName \/ ServerWriteFails))
          /\ net[q] # <<>> /\ Arrived(q).flag = "DATA"
      BY <1>1, <1>5, OnlyTextGarbles
    <3>2. At(q) \in {"recv", "recvName"}
      BY <3>1 DEF RecvText, RecvName, ServerWriteFails, Takes
    <3>3. q = Peer(p)
      BY <1>2, <2>1, <3>2 DEF Over
    <3>4. Arrived(q) = net[q][1] /\ 1 \in 1..Len(net[q])
      BY <1>1, <3>1, OtherSocket, QueueType DEF Arrived
    <3> QED BY <1>2, <3>1, <3>3, <3>4 DEF NoData
  <2> QED BY <2>3, <2>4
<1> QED BY <1>3, <1>4, <1>5, NextSplit

LEMMA GarbleStep == IInv /\ GarbleInv /\ [Next]_vars => GarbleInv'
<1> SUFFICES ASSUME IInv, GarbleInv, [Next]_vars PROVE GarbleInv'
  OBVIOUS
<1>1. IInv' /\ Typed'
  BY IInvStep, NextTyped, IInvParts
<1>2. CASE Next
  <2> SUFFICES ASSUME ~Meddled'
               PROVE  ~garbled' /\ (InLockstep' \/ AboutToCross' \/ OneIsOver')
    BY DEF GarbleInv
  <2>1. ~Meddled /\ ~garbled /\ (InLockstep \/ AboutToCross \/ OneIsOver)
    BY <1>1, <1>2, MeddledStays DEF GarbleInv
  <2>2. CASE InLockstep
    <3>1. ~Network
      BY MishapNoted, OtherSocket DEF Network, Drop, Fault, Meddled, Lost
    <3>2. CASE Aside
      BY <1>1, <2>1, <2>2, <3>2, AsideFacts, LockStays DEF Meddled
    <3>3. ASSUME NEW q \in Sockets, Acts(q)
          PROVE  ~garbled' /\ (InLockstep' \/ AboutToCross' \/ OneIsOver')
      <4>1. ~SendInterrupted
        BY MishapNoted DEF SendInterrupted, Meddled
      <4>2. ~Late'
        BY DEF Meddled
      <4> QED BY <1>1, <2>1, <2>2, <3>3, <4>1, <4>2, LockActs
    <3> QED BY <1>2, <3>1, <3>2, <3>3, NextSplit
  <2>3. CASE AboutToCross
    BY <1>1, <1>2, <2>1, <2>3, CrossKeeps
  <2>4. CASE OneIsOver
    BY <1>1, <1>2, <2>1, <2>4, OverKeeps
  <2> QED BY <2>1, <2>2, <2>3, <2>4
<1>3. CASE UNCHANGED vars
  <2>1. UNCHANGED <<call, ctl, net, errno, todo, pos, garbled, mishaps>>
    BY <1>3 DEF vars, rudp, cipher, past
  <2>2. Meddled' = Meddled
    BY <2>1 DEF Meddled, Crossed, Lost, Late, GaveUp, Mishaps
  <2>3. AboutToCross' = AboutToCross
    BY <2>1 DEF AboutToCross, Stuck, InSend, At
  <2>4. OneIsOver' = OneIsOver
    BY <2>1 DEF OneIsOver, Over, NoData, InSend, At
  <2>5. InLockstep => InLockstep'
    BY <2>1, LockFacts, LockStays, OtherSocket DEF Bystand
  <2> QED BY <2>1, <2>2, <2>3, <2>4, <2>5 DEF GarbleInv
<1> QED BY <1>2, <1>3

LEMMA GarbleInit == Init => GarbleInv
<1> SUFFICES ASSUME Init PROVE GarbleInv
  OBVIOUS
<1>1. /\ At("client") = "start" /\ At("server") = "recvKey"
      /\ \A p \in Sockets : /\ net[p] = <<>> /\ ctl[p].seq = Hdr /\ ctl[p].ack = Hdr
                            /\ errno[p] = "other" /\ todo[p] = {} /\ pos[p] = 0
      /\ ~garbled
  BY DEF Init, At, Place, Sockets, Processes
<1>2. \A p \in Sockets :
          /\ ~InSend(p) /\ ~OnItsWay(p) /\ ~Heard(p) /\ ~TextOnItsWay(p)
          /\ ~Over(p) /\ At(p) # "recv" /\ Peer(p) \in Sockets
  BY <1>1, OtherSocket DEF InSend, OnItsWay, Heard, TextOnItsWay, Over, Sending
<1>3. WireInStep /\ ControlsInStep /\ KeysInStep
  BY <1>1, <1>2 DEF WireInStep, ControlsInStep, KeysInStep, Coming
<1>4. PlacesInStep /\ SeenInStep
  BY <1>1, <1>2 DEF PlacesInStep, SeenInStep
<1> QED BY <1>1, <1>2, <1>3, <1>4 DEF GarbleInv, InLockstep

\* In the loops both ends have sent and received the same.
LEMMA GarbleEnough == IInv /\ GarbleInv => GarbledHasCause
<1> SUFFICES ASSUME IInv, GarbleInv, ~Meddled,
                    At("client") = "loop", At("server") \in {"loop", "poll"}
             PROVE  /\ pos["client"] = pos["server"]
                    /\ ctl["client"].seq = ctl["server"].ack
                    /\ ctl["server"].seq = ctl["client"].ack
  BY DEF GarbledHasCause, GarbleInv, Meddled
<1>1. \A p \in Sockets : ~Over(p) /\ ~InSend(p)
  BY OtherSocket DEF Over, InSend, Sending
<1>2. InLockstep
  BY <1>1, ProcessFacts DEF GarbleInv, AboutToCross, OneIsOver, Stuck
<1>3. \A p \in Sockets : ~OnItsWay(p) /\ ~TextOnItsWay(p)
  BY <1>1 DEF OnItsWay, TextOnItsWay
<1> QED BY <1>2, <1>3, ProcessFacts, LockFacts DEF ControlsInStep, KeysInStep

\* Whatever the numbers of the messages, the key strokes and the losses are,
\* text is decrypted with another position than it was encrypted at only when
\* texts crossed, a datagram was lost, an answer came too late for a timeout,
\* SIGCHLD made the server send again, or the kid gave up on the server's
\* socket; without them, both ends agree on the key stream and on both
\* controls whenever neither is in a call.
THEOREM GarbleExplained == Spec => []GarbledHasCause
<1>1. Init => IInv /\ GarbleInv
  BY IInvInit, GarbleInit
<1>2. (IInv /\ GarbleInv) /\ [Next]_vars => (IInv /\ GarbleInv)'
  BY IInvStep, GarbleStep
<1>3. IInv /\ GarbleInv => GarbledHasCause
  BY GarbleEnough
<1> QED BY <1>1, <1>2, <1>3, PTL DEF Spec

-----------------------------------------------------------------------------
(* When a session ends early.                                               *)

\* The server sends its output before it looks at its socket.
PtyServed == At("server") = "send" => "pty" \notin todo["server"]

\* The server sends, or has sent, and leaves without a look at its socket.
Going == At("server") \in {"send", "loop"} /\ todo["server"] = {} /\ SignalSpent

\* p's loop receives nothing more.
Done(p) == Over(p) \/ Stuck(p) \/ (p = "server" /\ Going)

Listens == At("client") \in {"loop", "recv"}

\* The signal made the server send its text again: the client has received
\* none of the two, ...
SentTwice ==
    LET d == call["server"].pkt
    IN  /\ At("server") = "send" /\ net["server"] = <<>>
        /\ d.flag = "DATA" /\ ctl["server"].seq = d.seq + Size("DATA")
        /\ ctl["client"].ack = d.seq
        /\ \/ Listens /\ net["client"] = <<d, d>>
           \/ /\ At("client") \in {"send", "sendName"}
              /\ net["client"] # <<>> /\ Answers("client", Head(net["client"]))
              /\ Tail(net["client"]) = <<d, d>>

\* The client will receive datagram i for nothing, or as the end.
Outdated(i) ==
    LET d == net["client"][i]
    IN  IF At("server") = "close1" /\ i = Len(net["client"])
        THEN d.flag = "FIN"
        ELSE d.flag = "DATA" /\ d.seq # ctl["client"].ack

\* n acknowledgements of what the client has are on their way, and behind them
\* its text, if it sends.
Echoes(n) ==
    /\ \/ Listens /\ Len(net["server"]) = n
       \/ /\ At("client") = "send" /\ net["client"] = <<>>
          /\ Len(net["server"]) = n + 1 /\ net["server"][n + 1].flag = "DATA"
    /\ \A i \in 1..n : /\ net["server"][i].flag = "ACK"
                       /\ net["server"][i].ack = ctl["client"].ack

\* ... or one, when m datagrams are on their way to it and n acknowledgements
\* back, until the server is answered, and has left its loop.
Received(m, n) ==
    /\ Len(net["client"]) = m /\ \A i \in 1..m : Outdated(i)
    /\ Echoes(n)
    /\ \/ /\ At("server") \in {"send", "loop"} /\ m < 2
          /\ m + n = IF At("server") = "send" THEN 2 ELSE 1
          /\ ctl["client"].ack = ctl["server"].seq
       \/ /\ At("server") = "close1" /\ m > 0 /\ m + n = 2
          /\ call["server"].i = 0 /\ call["server"].pkt.flag = "FIN"
          /\ ctl["client"].ack # ctl["server"].seq

ReceivedOne == \E m, n \in 0..2 : Received(m, n)

\* Either, while both still send at once.
Signalled ==
    /\ SignalSpent /\ todo["server"] = {}
    /\ errno["client"] = "other" /\ errno["server"] = "other"
    /\ SentTwice \/ ReceivedOne

AllDone == \A p \in Sockets : Done(p)

\* Some rudp_recv has taken an acknowledgement for a FIN.
Zero == Mishaps(Processes, {"zero"})

\* The causes that EarlyEndHasCause allows.
Excused == Crossed \/ Lost \/ Late \/ GaveUp \/ Stopped

\* With CrashInv, the invariant behind EarlyEndHasCause: the two are in step,
\* or the signal made the server send again, or one of them leaves, or neither
\* receives any more.
EarlyInv ==
    Excused \/
    /\ ~Zero /\ SignalIsKids /\ PtyServed
    /\ InLockstep \/ Signalled \/ OneLeaves \/ AllDone

-----------------------------------------------------------------------------
(* What an end does where it is.                                            *)

LEMMA LoopActs ==
    ASSUME NEW q \in Sockets, Acts(q), At(q) \in {"loop", "poll"}
    PROVE  \/ Poll(q) \/ RecvCall(q)
           \/ q = "client" /\ (ClientKeys \/ ClientLeaves \/ ClientBreaks)
           \/ /\ q = "server"
              /\ \/ ServerTest \/ ServerLeaves \/ PollTimeout \/ ServerOutput
                 \/ PollInterrupted
<1>1. At(q) \notin Sending /\ At(q) \notin Receiving
      /\ \A p \in {"start", "recvKey", "recvName", "recv", "drain", "exit", "kill"} :
            At(q) # p
  BY DEF Sending, Receiving
<1>2. Step(q) => Poll(q) \/ RecvCall(q)
  BY <1>1 DEF Step, RecvText, RecvEnd, Drain, RecvTimeout, Answer, SendTimeout, Exit,
              Takes, InRecv, InSend
<1>3. ~KeyFails(q)
  BY <1>1 DEF KeyFails
<1>4. q = "client" => ~(ClientSendKey \/ ClientRecvKey)
  BY <1>1 DEF ClientSendKey, ClientRecvKey, Takes
<1>5. q = "server" =>
        ~(\/ ServerRecvKey \/ RecvName \/ SendInterrupted \/ RecvInterrupted
          \/ ServerWriteFails \/ ServerKills)
  BY <1>1 DEF ServerRecvKey, RecvName, SendInterrupted, RecvInterrupted,
              ServerWriteFails, ServerKills, Takes, InRecv, InSend
<1> QED BY <1>2, <1>3, <1>4, <1>5 DEF Acts

LEMMA RecvActs ==
    ASSUME NEW q \in Sockets, Acts(q), At(q) = "recv"
    PROVE  \/ RecvText(q) \/ RecvEnd(q) \/ RecvTimeout(q)
           \/ q = "server" /\ (RecvInterrupted \/ ServerWriteFails)
<1>1. At(q) \notin Sending
      /\ \A p \in {"start", "recvKey", "recvName", "loop", "poll", "drain", "exit",
                   "kill"} : At(q) # p
  BY DEF Sending
<1>2. Step(q) => RecvText(q) \/ RecvEnd(q) \/ RecvTimeout(q)
  BY <1>1 DEF Step, Drain, Answer, SendTimeout, Exit, Poll, RecvCall, Polls, Takes,
              InSend
<1>3. ~KeyFails(q)
  BY <1>1 DEF KeyFails
<1>4. q = "client" =>
        ~(\/ ClientSendKey \/ ClientRecvKey \/ ClientKeys \/ ClientLeaves
          \/ ClientBreaks)
  BY <1>1 DEF ClientSendKey, ClientRecvKey, ClientKeys, ClientLeaves, ClientBreaks,
              Takes
<1>5. q = "server" =>
        ~(\/ ServerRecvKey \/ RecvName \/ ServerTest \/ ServerLeaves \/ PollTimeout
          \/ ServerOutput \/ PollInterrupted \/ SendInterrupted \/ ServerKills)
  BY <1>1 DEF ServerRecvKey, RecvName, ServerTest, ServerLeaves, PollTimeout,
              ServerOutput, PollInterrupted, SendInterrupted, ServerKills, Takes,
              Polls, InSend
<1> QED BY <1>2, <1>3, <1>4, <1>5 DEF Acts

\* What one end's step leaves to the other, and to the queues.
LEMMA ActsApart ==
    ASSUME IInv, Typed', NEW q \in Sockets, Acts(q)
    PROVE  /\ call'[Peer(q)] = call[Peer(q)] /\ ctl'[Peer(q)] = ctl[Peer(q)]
           /\ todo'[Peer(q)] = todo[Peer(q)]
           /\ \/ net'[q] \in {net[q], <<>>}
              \/ net[q] # <<>> /\ net'[q] = Tail(net[q])
           /\ At(Peer(q)) # "gone" => Begins(net[Peer(q)], net'[Peer(q)])
<1> DEFINE o == Peer(q)
<1>1. /\ TypeOK /\ q \in Processes /\ o \in Processes /\ o \in Sockets /\ o # q
      /\ o # "kid" /\ {q} \in SUBSET Processes /\ Socket(q) = q /\ Socket(o) = o
      /\ {"server", "kid"} \in SUBSET Processes
  BY IInvParts, OtherSocket, ProcessFacts
<1>2. CASE Effect(q)
  BY <1>1, <1>2 DEF Effect, Alone, Shape, OwnQueue, Grown
<1>3. ASSUME NEW qs \in SUBSET Processes, Ends(qs), o \notin qs, ctl' = ctl
      PROVE  /\ call'[o] = call[o] /\ ctl'[o] = ctl[o] /\ todo'[o] = todo[o]
             /\ net'[q] \in {net[q], <<>>}
             /\ At(o) # "gone" => Begins(net[o], net'[o])
  <2>1. call'[o] = call[o] /\ todo'[o] = todo[o] /\ net'[q] \in {net[q], <<>>}
    BY <1>1, <1>3, EndsFacts
  <2>2. ASSUME At(o) # "gone" PROVE net'[o] = net[o]
    <3>1. At(o) \notin {"none", "shell", "gone"}
      BY <1>1, <2>2, IInvParts, OtherSocket, ProgramFacts DEF InProgram
    <3>2. net' = [s \in Sockets |->
                   IF \A r \in Processes : Socket(r) = s =>
                         r \in qs \/ At(r) \in {"none", "shell", "gone"}
                   THEN <<>> ELSE net[s]]
      BY <1>3 DEF Ends
    <3> QED BY <1>1, <1>3, <3>1, <3>2
  <2> QED BY <1>3, <2>1, <2>2 DEF Begins
<1>4. CASE Exit(q)
  BY <1>1, <1>3, <1>4 DEF Exit
<1>5. CASE q = "server" /\ ServerKills
  <2>1. Ends({"server", "kid"}) /\ ctl' = ctl
    BY <1>5 DEF ServerKills
  <2> QED BY <1>1, <1>3, <1>5, <2>1
<1>6. CASE q = "server" /\ RecvName
  <2>1. /\ net["server"] # <<>> /\ net' = Acked("server") /\ o = "client"
        /\ todo' = todo
    BY <1>1, <1>6, ProcessFacts, OtherSocket DEF RecvName, Takes
  <2>2. call'[o] = call[o] /\ ctl'[o] = ctl[o]
    BY <1>1, <1>6, <2>1, RecvNameFacts
  <2>3. /\ net'[q] = Tail(net[q])
        /\ net'[o] \in {net[o], Append(net[o], Packet(Noted("server"), "ACK", 0))}
    BY <1>1, <1>6, <2>1, AckedFacts
  <2>4. net[o] \in Seq(Datagram) /\ Packet(Noted("server"), "ACK", 0) \in Datagram
    BY <1>1, <1>6, <2>1, QueueType, NotedFacts
  <2>5. Begins(net[o], net'[o])
    BY <2>3, <2>4, AppendBegins
  <2> QED BY <1>6, <2>1, <2>2, <2>3, <2>5
<1> QED BY <1>1, <1>2, <1>4, <1>5, <1>6, ActsEffect

-----------------------------------------------------------------------------
(* The signal, and the kid that it is of.                                   *)

LEMMA GoneStays ==
    ASSUME IInv, Typed', Next, Gone("kid") PROVE Gone("kid")'
<1>1. /\ TypeOK /\ KidInStep /\ "kid" \in Processes /\ At("kid") = "gone"
      /\ \A q \in Sockets : q \in Processes /\ q # "kid" /\ {q} \in SUBSET Processes
      /\ {"server", "kid"} \in SUBSET Processes
  BY IInvParts, OtherSocket, ProcessFacts DEF Gone
<1>2. ASSUME NEW q \in Sockets, Acts(q) PROVE At("kid")' = "gone"
  <2>1. CASE Effect(q)
    BY <1>1, <2>1 DEF Effect, Alone, At
  <2>2. CASE Exit(q)
    BY <1>1, <2>2, EndsFacts DEF Exit
  <2>3. CASE q = "server" /\ RecvName
    BY <1>1, <2>3 DEF RecvName, Takes, KidInStep
  <2>4. CASE q = "server" /\ ServerKills
    BY <1>1, <2>4, EndsFacts DEF ServerKills
  <2> QED BY <1>2, <2>1, <2>2, <2>3, <2>4, ActsEffect
<1>3. CASE Aside
  <2>1. ~KidStep
    BY <1>1 DEF KidStep, Step, Answer, SendTimeout, RecvText, RecvEnd, Drain,
                RecvTimeout, Poll, Polls, RecvCall, Exit, Takes, InSend, InRecv,
                Sending, Receiving
  <2>2. ~LoginSucceeds /\ ~LoginFails /\ ~ShellExits
    BY <1>1 DEF LoginSucceeds, LoginFails, ShellExits
  <2> QED BY <1>1, <1>3, <2>1, <2>2
          DEF Aside, UserTypes, ShellWrites, ShellStops, SigChld, rudp, At, Gone
<1>4. CASE Network
  BY <1>1, <1>4 DEF Network, Drop, At, Gone
<1> QED BY <1>2, <1>3, <1>4, NextSplit DEF Gone

\* Only the end of the kid raises it, or a stop.
LEMMA RaisedBy ==
    ASSUME Next PROVE chld' = chld \/ Handles \/ Exit("kid") \/ ShellStops
<1>1. ASSUME NEW q \in Processes, Step(q) PROVE chld' = chld \/ Exit("kid")
  BY <1>1 DEF Step, Answer, SendTimeout, RecvText, RecvEnd, Drain, RecvTimeout, Poll,
              RecvCall, Exit
<1>2. ClientStep => chld' = chld \/ Exit("kid")
  BY <1>1, ProcessFacts DEF ClientStep, ClientSendKey, ClientRecvKey, ClientKeys,
                            ClientLeaves
<1>3. ServerStep => chld' = chld \/ Handles \/ Exit("kid")
  BY <1>1, ProcessFacts DEF ServerStep, ServerRecvKey, RecvName, ServerTest,
     ServerLeaves, PollTimeout, ServerOutput, PollInterrupted, SendInterrupted,
     RecvInterrupted, ServerWriteFails, ServerKills, Interrupted
<1>4. KidStep => chld' = chld \/ Exit("kid")
  BY <1>1, ProcessFacts DEF KidStep
<1>5. Surroundings => chld' = chld \/ ShellStops
  BY DEF Surroundings, UserTypes, KeyFails, LoginSucceeds, LoginFails, ShellWrites,
         ShellExits, ClientBreaks
<1>6. Network => chld' = chld
  BY DEF Network, Drop
<1>7. SigChld => Handles
  BY DEF SigChld
<1> QED BY <1>2, <1>3, <1>4, <1>5, <1>6, <1>7 DEF Next

LEMMA SignalStays ==
    ASSUME IInv, Typed', Next
    PROVE  /\ ~Stopped' /\ SignalIsKids => SignalIsKids'
           /\ SignalSpent => SignalSpent'
<1>1. CASE chld' = chld
  BY <1>1, GoneStays DEF SignalIsKids, SignalSpent
<1>2. CASE Handles
  BY <1>2, GoneStays, HandlesFacts DEF SignalIsKids, SignalSpent
<1>3. CASE Exit("kid")
  <2>1. /\ At("kid") = "exit" /\ Ends({"kid"}) /\ {"kid"} \in SUBSET Processes
        /\ Raises
    BY <1>3, ProcessFacts DEF Exit
  <2>2. Gone("kid")' /\ ~Gone("kid")
    BY <2>1, EndsFacts, ProcessFacts, IInvParts DEF Gone
  <2>3. chld'.exit = chld.exit
    BY <2>1, RaisesFacts, IInvParts
  <2> QED BY <2>2, <2>3 DEF SignalIsKids, SignalSpent
<1>4. CASE ShellStops
  <2>1. ~SignalSpent
    BY <1>4 DEF ShellStops, SignalSpent, Gone
  <2>2. Mishap("kid", "stopped")
    BY <1>4 DEF ShellStops, Fault
  <2>3. Stopped'
    BY <2>2, MishapNoted DEF Stopped
  <2> QED BY <2>1, <2>3
<1> QED BY <1>1, <1>2, <1>3, <1>4, RaisedBy

-----------------------------------------------------------------------------
(* The server begins to send only from its pseudo terminal.                 *)

LEMMA SendPlace ==
    ASSUME IInv, NEW c, NEW n, NEW p, NEW flag, NEW body,
           CanSend("server", c, n, p, flag, body), p # "send",
           Sends("server", c, n, p, flag, body)
    PROVE  At("server")' # "send"
<1>1. Begun("server", c, n, p, flag, body)
  BY SendsBegun, IInvParts
<1>2. AfterFailure("server", p) \notin Sending /\ "send" \in Sending
  BY NextRests DEF CanSend, Sending
<1> QED BY <1>1, <1>2 DEF Begun

LEMMA ServerSends ==
    ASSUME IInv, Acts("server"), At("server")' = "send"
    PROVE  ServerOutput \/ (At("server") = "send" /\ todo' = todo)
<1>1. /\ TypeOK /\ "server" \in Processes /\ "server" \in Sockets
      /\ Socket("server") = "server" /\ At("server") \in Program["server"]
      /\ ctl["server"] \in Control /\ net \in NetType
      /\ "send" \in Sending /\ \A p \in {"gone", "exit", "loop", "poll", "recv"} : p # "send"
      /\ {"loop", "poll", "recv", "exit", "drain"} \subseteq Places
  BY IInvParts, TypeParts, ProcessFacts DEF InProgram, Sending, Places, Receiving, Resting
<1>2. ASSUME NEW p \in {"loop", "poll", "recv", "exit"}, Goto("server", p) PROVE FALSE
  BY <1>1, <1>2, GotoFacts
<1>3. CASE InSend("server")
  <2>1. At("server") \in Sending
    BY <1>3 DEF InSend
  <2>2. Then["server"][At("server")] \notin Sending /\ AfterFailure("server", At("server")) \notin Sending
        /\ Then["server"][At("server")] \in Places
        /\ AfterFailure("server", At("server")) \in Places
    BY <1>1, <2>1, NextRests, NextPlaces, ProgramPlaces
  <2>3. Goto("server", Then["server"][At("server")]) => FALSE
    BY <1>1, <2>2, GotoFacts
  <2>4. Fail("server") => FALSE
    BY <1>1, <2>2, GotoFacts DEF Fail
  <2>5. ASSUME NEW n \in NetType, Retry("server", n) PROVE At("server") = "send"
    BY <1>1, <1>3, <2>2, <2>5, RetryFacts
  <2>6. CASE Answer("server")
    <3>1. Rest("server") \in NetType /\ todo' = todo
      BY <1>1, <2>6, ArrivedFacts DEF Answer
    <3> QED BY <2>3, <2>5, <2>6, <3>1 DEF Answer
  <2>7. CASE SendTimeout("server")
    BY <2>4, <2>7 DEF SendTimeout
  <2>8. CASE SendInterrupted
    BY <1>1, <2>5, <2>8 DEF SendInterrupted
  <2> QED BY <1>1, <1>3, <2>6, <2>7, <2>8, SenderActs
<1>4. CASE ~InSend("server")
  <2>0. ~Answer("server") /\ ~SendTimeout("server") /\ ~SendInterrupted
    BY <1>4 DEF Answer, SendTimeout, SendInterrupted
  <2>1. ~RecvText("server") /\ ~Drain("server") /\ ~Poll("server") /\ ~RecvCall("server")
        /\ ~RecvTimeout("server") /\ ~KeyFails("server") /\ ~ServerTest /\ ~PollTimeout
        /\ ~ServerWriteFails
    <3>1. Passes("server", "loop") \/ Passes("server", "exit") => FALSE
      BY <1>2 DEF Passes
    <3> QED BY <1>2, <3>1 DEF RecvText, Drain, Poll, RecvCall, RecvTimeout, RecvFails,
                              KeyFails, ServerTest, PollTimeout, ServerWriteFails
  <2>2. ~Exit("server") /\ ~ServerKills
    <3>1. {"server"} \in SUBSET Processes /\ {"server", "kid"} \in SUBSET Processes
      BY ProcessFacts
    <3>2. ~Ends({"server"}) /\ ~Ends({"server", "kid"})
      BY <1>1, <3>1, EndsFacts
    <3> QED BY <3>2 DEF Exit, ServerKills
  <2>3. ~RecvName
    BY <1>1, RecvNameFacts
  <2>4. ~RecvInterrupted
    <3> SUFFICES ASSUME RecvInterrupted PROVE FALSE
      OBVIOUS
    <3>1. CASE call' = [call EXCEPT !["server"].i = @ + 1]
      <4>1. At("server")' = At("server")
        BY <1>1, <3>1, TypeParts DEF At, Call
      <4> QED BY <1>1, <1>4, <4>1 DEF InSend
    <3>2. CASE RecvFails("server")
      BY <1>2, <3>2 DEF RecvFails
    <3> QED BY <3>1, <3>2 DEF RecvInterrupted
  <2>5. ~RecvEnd("server")
    <3> SUFFICES ASSUME RecvEnd("server") PROVE FALSE
      OBVIOUS
    <3>1. net["server"] # <<>> /\ Sends("server", Noted("server"), Acked("server"), "close2", "FIN", 0)
      BY <1>1 DEF RecvEnd, Takes
    <3>2. CanSend("server", Noted("server"), Acked("server"), "close2", "FIN", 0)
      BY <1>1, <3>1, NotedFacts, AckedFacts, ProgramFacts DEF CanSend, Sending
    <3> QED BY <1>1, <3>1, <3>2, SendPlace
  <2>6. ~ServerRecvKey
    <3> SUFFICES ASSUME ServerRecvKey PROVE FALSE
      OBVIOUS
    <3>1. net["server"] # <<>>
      BY <1>1 DEF ServerRecvKey, Takes
    <3>2. CanSend("server", Noted("server"), Acked("server"), "sendKey", "DATA", 0)
      BY <1>1, <3>1, NotedFacts, AckedFacts, ProgramFacts DEF CanSend, Sending
    <3>3. ~Sends("server", Noted("server"), Acked("server"), "sendKey", "DATA", 0)
      BY <1>1, <3>2, SendPlace
    <3>4. ~Passes("server", "exit")
      BY <1>2 DEF Passes
    <3> QED BY <3>3, <3>4 DEF ServerRecvKey
  <2>7. ~ServerLeaves /\ ~PollInterrupted
    <3>1. CanSend("server", ctl["server"], net, "close1", "FIN", 0)
      BY <1>1, ProgramFacts DEF CanSend, Sending
    <3>2. ~Sends("server", ctl["server"], net, "close1", "FIN", 0)
      BY <1>1, <3>1, SendPlace
    <3> QED BY <3>2 DEF ServerLeaves, PollInterrupted
  <2> QED BY <2>0, <2>1, <2>2, <2>3, <2>4, <2>5, <2>6, <2>7 DEF Acts, Step
<1> QED BY <1>3, <1>4

LEMMA PtyStays ==
    ASSUME IInv, Typed', Next, ~GaveUp', ~Lost', PtyServed PROVE PtyServed'
<1>1. ~Network
  BY OtherSocket, MishapNoted DEF Network, Drop, Fault, Lost
<1>2. CASE Aside
  BY <1>2, AsideFacts, ProcessFacts DEF Bystand, PtyServed, At
<1>3. CASE Acts("client")
  <2>1. call'["server"] = call["server"] /\ todo'["server"] = todo["server"]
    BY <1>3, ActsApart, ProcessFacts
  <2> QED BY <2>1 DEF PtyServed, At
<1>4. CASE Acts("server")
  <2> SUFFICES ASSUME At("server")' = "send" PROVE "pty" \notin todo'["server"]
    BY DEF PtyServed
  <2>1. CASE ServerOutput
    BY <2>1, IInvParts, TypeParts, ProcessFacts DEF ServerOutput, Served
  <2> QED BY <1>4, <2>1, ServerSends DEF PtyServed
<1> QED BY <1>1, <1>2, <1>3, <1>4, NextSplit, ProcessFacts

-----------------------------------------------------------------------------
(* An end that is done stays so.                                            *)

LEMMA QueueBegins ==
    ASSUME TypeOK, TypeOK', NEW s \in Sockets, Begins(net[s], net'[s]), net[s] # <<>>
    PROVE  net'[s] # <<>> /\ Head(net'[s]) = Head(net[s])
<1>1. net[s] \in Seq(Datagram) /\ net'[s] \in Seq(Datagram)
  BY TypeParts DEF TypeOK
<1>2. Len(net[s]) \in Nat /\ Len(net[s]) > 0 /\ Len(net'[s]) \in Nat
  BY <1>1, EmptySeq, LenProperties
<1>3. 1 \in 1..Len(net'[s]) /\ net'[s][1] = net[s][1]
  BY <1>2 DEF Begins
<1>4. net'[s] # <<>>
  BY <1>1, <1>2, <1>3, EmptySeq
<1> QED BY <1>1, <1>3, <1>4, HeadTailProperties

\* On its way out an end goes on.
LEMMA OutActs ==
    ASSUME NEW q \in Sockets, Acts(q), At(q) \in {"drain", "kill", "exit", "gone"}
    PROVE  \/ Drain(q) \/ RecvTimeout(q) \/ Exit(q)
           \/ q = "server" /\ (ServerKills \/ RecvInterrupted)
<1>1. At(q) \notin Sending
      /\ \A p \in {"start", "recvKey", "recvName", "recv", "loop", "poll"} : At(q) # p
  BY DEF Sending
<1>2. Step(q) => Drain(q) \/ RecvTimeout(q) \/ Exit(q)
  BY <1>1 DEF Step, RecvText, RecvEnd, Answer, SendTimeout, Poll, Polls, RecvCall,
              Takes, InSend
<1>3. ~KeyFails(q)
  BY <1>1 DEF KeyFails
<1>4. q = "client" =>
        ~(\/ ClientSendKey \/ ClientRecvKey \/ ClientKeys \/ ClientLeaves
          \/ ClientBreaks)
  BY <1>1 DEF ClientSendKey, ClientRecvKey, ClientKeys, ClientLeaves, ClientBreaks,
              Takes
<1>5. q = "server" =>
        ~(\/ ServerRecvKey \/ RecvName \/ ServerTest \/ ServerLeaves \/ PollTimeout
          \/ ServerOutput \/ PollInterrupted \/ SendInterrupted \/ ServerWriteFails)
  BY <1>1 DEF ServerRecvKey, RecvName, ServerTest, ServerLeaves, PollTimeout,
              ServerOutput, PollInterrupted, SendInterrupted, ServerWriteFails, Takes,
              Polls, InSend
<1> QED BY <1>2, <1>3, <1>4, <1>5 DEF Acts

\* Where a sender is after another try, or none.
LEMMA SenderPlaces ==
    ASSUME IInv, NEW q \in Sockets, Acts(q), InSend(q)
    PROVE  /\ At(q)' \in {At(q), Then[q][At(q)], AfterFailure(q, At(q))}
           /\ todo' = todo /\ ctl' = ctl
<1>1. /\ TypeOK /\ q \in Processes /\ Socket(q) = q /\ net \in NetType
      /\ At(q) \in Program[q] /\ At(q) \in Sending
  BY IInvParts, TypeParts, OtherSocket DEF InProgram, InSend
<1>2. Then[q][At(q)] \in Places /\ AfterFailure(q, At(q)) \in Places
  BY <1>1, NextPlaces, ProgramPlaces
<1>3. Goto(q, Then[q][At(q)]) => At(q)' = Then[q][At(q)]
  BY <1>1, <1>2, GotoFacts
<1>4. Fail(q) => At(q)' = AfterFailure(q, At(q))
  BY <1>1, <1>2, GotoFacts DEF Fail
<1>5. ASSUME NEW n \in NetType, Retry(q, n)
      PROVE  At(q)' \in {At(q), AfterFailure(q, At(q))}
  BY <1>1, <1>5, RetryFacts
<1>6. CASE Answer(q)
  <2>1. Rest(q) \in NetType
    BY <1>1, <1>6, ArrivedFacts DEF Answer
  <2> QED BY <1>3, <1>5, <1>6, <2>1 DEF Answer
<1>7. CASE SendTimeout(q)
  BY <1>4, <1>7 DEF SendTimeout
<1>8. CASE q = "server" /\ SendInterrupted
  BY <1>1, <1>5, <1>8 DEF SendInterrupted
<1> QED BY <1>6, <1>7, <1>8, SenderActs

LEMMA OverStays ==
    ASSUME IInv, NEW p \in Sockets, Acts(p), Over(p) PROVE Over(p)'
<1>1. /\ TypeOK /\ p \in Processes /\ {p} \in SUBSET Processes /\ "gone" # "exit"
      /\ {"server", "kid"} \in SUBSET Processes
  BY IInvParts, OtherSocket, ProcessFacts
<1>2. CASE InSend(p)
  <2>1. At(p)' \in {At(p), "drain", "exit", "kill"}
    BY <1>2, SenderPlaces, OverPlaces
  <2> QED BY <2>1 DEF Over
<1>3. CASE ~InSend(p)
  <2>1. At(p) \in {"drain", "kill", "exit", "gone"}
    BY <1>3 DEF Over, InSend, Sending
  <2>2. Goto(p, "exit") => Over(p)'
    BY <1>1, OverGoes
  <2>3. CASE Drain(p) \/ RecvTimeout(p)
    BY <2>2, <2>3 DEF Drain, Passes, RecvTimeout, RecvFails
  <2>4. CASE Exit(p)
    BY <1>1, <2>4, EndsFacts DEF Exit, Over
  <2>5. CASE p = "server" /\ ServerKills
    BY <1>1, <2>5, EndsFacts DEF ServerKills, Over
  <2>6. CASE p = "server" /\ RecvInterrupted
    <3>1. CASE call' = [call EXCEPT !["server"].i = @ + 1]
      <4>1. At("server")' = At("server")
        BY <1>1, <2>6, <3>1, TypeParts DEF At, Call
      <4> QED BY <2>6, <4>1 DEF Over
    <3> QED BY <2>2, <2>6, <3>1 DEF RecvInterrupted, RecvFails
  <2> QED BY <2>1, <2>3, <2>4, <2>5, <2>6, OutActs
<1> QED BY <1>2, <1>3

LEMMA GoingActs ==
    ASSUME IInv, Typed', Next, Going, Acts("server")
    PROVE  Going' \/ Over("server")'
<1>1. /\ TypeOK /\ At("server") \in {"send", "loop"} /\ todo["server"] = {}
      /\ Gone("kid") /\ ~chld.raised /\ chld.exit /\ "server" \in Sockets
      /\ ctl["server"] \in Control /\ net \in NetType
      /\ "server" \in Processes /\ "close1" \in Program["server"]
  BY IInvParts, TypeParts, ProcessFacts, ProgramFacts DEF Going, SignalSpent
<1>2. SignalSpent'
  BY SignalStays DEF Going
<1>3. CASE At("server") = "send"
  <2>1. InSend("server") /\ AfterFailure("server", "send") = "loop"
    BY <1>3, ThenFacts DEF InSend, Sending, AfterFailure
  <2> QED BY <1>1, <1>2, <1>3, <2>1, SenderPlaces, ThenFacts DEF Going
<1>4. CASE At("server") = "loop"
  <2>1. ServerLeaves
    BY <1>1, <1>4, LoopActs DEF Poll, Polls, RecvCall, ServerTest, PollTimeout,
                                ServerOutput, PollInterrupted
  <2>2. CanSend("server", ctl["server"], net, "close1", "FIN", 0)
    BY <1>1 DEF CanSend, Sending
  <2>3. Begun("server", ctl["server"], net, "close1", "FIN", 0)
    BY <1>1, <2>1, <2>2, SendsBegun DEF ServerLeaves
  <2>4. AfterFailure("server", "close1") = "drain"
    BY ThenFacts DEF AfterFailure
  <2> QED BY <2>3, <2>4 DEF Begun, Over
<1> QED BY <1>1, <1>3, <1>4

LEMMA DoneKeeps ==
    ASSUME IInv, Typed', Next, ~Excused', NEW p \in Sockets, Done(p)
    PROVE  Done(p)'
<1> DEFINE o == Peer(p)
<1>1. /\ TypeOK /\ TypeOK' /\ ~Crossed' /\ ~GaveUp' /\ ~Lost' /\ ~Late'
      /\ o \in Sockets /\ Peer(o) = p /\ \A q \in Sockets : q = p \/ q = o
  BY IInvParts, OtherSocket DEF Typed, Excused
<1>2. ~Network
  BY <1>1, OtherSocket, MishapNoted DEF Network, Drop, Fault, Lost
<1>3. SignalSpent => SignalSpent'
  BY SignalStays
<1>4. ASSUME call'[p] = call[p], todo'[p] = todo[p],
             At(p) # "gone" => Begins(net[p], net'[p])
      PROVE  Done(p)'
  <2>1. Over(p) => Over(p)'
    BY <1>4 DEF Over, At
  <2>2. ASSUME Stuck(p) PROVE Stuck(p)'
    <3>1. At(p) # "gone" /\ net[p] # <<>>
      BY <2>2 DEF Stuck, InSend, Sending
    <3>2. net'[p] # <<>> /\ Head(net'[p]) = Head(net[p])
      BY <1>1, <1>4, <3>1, QueueBegins
    <3> QED BY <1>4, <2>2, <3>2 DEF Stuck, InSend, At
  <2>3. p = "server" /\ Going => Going'
    BY <1>3, <1>4 DEF Going, At
  <2> QED BY <2>1, <2>2, <2>3 DEF Done
<1>5. CASE Aside
  <2>1. Bystand
    BY <1>1, <1>5, AsideFacts
  <2>2. call'[p] = call[p] /\ todo'[p] = todo[p] /\ (At(p) # "gone" => net'[p] = net[p])
    BY <2>1 DEF Bystand
  <2>3. At(p) # "gone" => Begins(net[p], net'[p])
    BY <2>2 DEF Begins
  <2> QED BY <1>4, <2>2, <2>3
<1>6. CASE Acts(o)
  <2>1. /\ call'[p] = call[p] /\ todo'[p] = todo[p]
        /\ At(p) # "gone" => Begins(net[p], net'[p])
    BY <1>1, <1>6, ActsApart
  <2> QED BY <1>4, <2>1
<1>7. CASE Acts(p)
  <2>1. ~Stuck(p)
    BY <1>1, <1>7, StuckActs
  <2>2. Over(p) => Over(p)'
    BY <1>7, OverStays
  <2>3. p = "server" /\ Going => Going' \/ Over(p)'
    BY <1>7, GoingActs
  <2> QED BY <2>1, <2>2, <2>3 DEF Done
<1> QED BY <1>1, <1>2, <1>5, <1>6, <1>7, NextSplit

-----------------------------------------------------------------------------
(* One end leaves: no acknowledgement strays on its way to the other.       *)

LEMMA AnswerTakes ==
    ASSUME IInv, NEW q \in Sockets, Answer(q)
    PROVE  net[q] # <<>> /\ net'[q] = Tail(net[q])
<1>1. /\ TypeOK /\ q \in Processes /\ Socket(q) = q /\ At(q) \in Program[q]
      /\ InSend(q) /\ net[q] # <<>> /\ Peer(q) \in Sockets /\ Peer(q) # q
      /\ call[q].pkt \in Datagram
  BY IInvParts, TypeParts, OtherSocket DEF InProgram, Answer, Call
<1>2. Rest(q) \in NetType /\ Rest(q)[q] = Tail(net[q])
  BY <1>1, ArrivedFacts
<1>3. ASSUME Retry(q, Rest(q)) PROVE net'[q] = Rest(q)[q]
  <2>1. net' = Rest(q) \/ net' = Put(Rest(q), Peer(q), call[q].pkt)
    BY <1>1, <1>2, <1>3, RetryFacts
  <2> QED BY <1>1, <1>2, <2>1, PutFacts
<1> QED BY <1>1, <1>2, <1>3 DEF Answer

LEMMA NoStraySame ==
    ASSUME NEW o \in Sockets, NoStray(o), call'[o] = call[o], ctl'[o] = ctl[o],
           net'[o] \in {net[o], <<>>}
    PROVE  NoStray(o)'
<1>1. net'[o] = net[o] => NoStray(o)'
  BY DEF NoStray, InSend, At, Answers
<1> QED BY <1>1, NoneStrays

LEMMA NoStrayAppend ==
    ASSUME TypeOK, NEW o \in Sockets, NoStray(o), call'[o] = call[o],
           ctl'[o] = ctl[o], NEW d \in Datagram, d.flag # "ACK",
           net'[o] = Append(net[o], d)
    PROVE  NoStray(o)'
<1>1. net[o] \in Seq(Datagram) /\ Len(net[o]) \in Nat
  BY QueueType
<1>2. /\ Len(Append(net[o], d)) = Len(net[o]) + 1
      /\ \A i \in 1..Len(Append(net[o], d)) :
            Append(net[o], d)[i] = IF i <= Len(net[o]) THEN net[o][i] ELSE d
  BY <1>1, OneLonger
<1>3. \A i \in 1..Len(net'[o]) :
          net'[o][i].flag = "ACK" => /\ i \in 1..Len(net[o]) /\ net'[o][i] = net[o][i]
                                     /\ net[o][i].flag = "ACK"
  BY <1>1, <1>2
<1>4. (InSend(o)' <=> InSend(o)) /\ \A a : Answers(o, a) => Answers(o, a)'
  BY DEF InSend, At, Answers
<1> QED BY <1>3, <1>4 DEF NoStray

LEMMA NoStrayTail ==
    ASSUME TypeOK, NEW o \in Sockets, NoStray(o), net[o] # <<>>,
           net'[o] = Tail(net[o])
    PROVE  NoStray(o)'
<1>1. \A i \in 1..Len(Tail(net[o])) :
          /\ i + 1 \in 1..Len(net[o]) /\ Tail(net[o])[i] = net[o][i + 1]
          /\ i + 1 # 1
  BY QueueType
<1>2. \A i \in 1..Len(net'[o]) : net'[o][i].flag # "ACK"
  BY <1>1 DEF NoStray
<1> QED BY <1>2 DEF NoStray

\* What an end takes from its queue strays no more.
LEMMA NoStrayOwn ==
    ASSUME IInv, Typed', NEW o \in Sockets, Acts(o), NoStray(o), ~Late'
    PROVE  NoStray(o)'
<1>1. TypeOK /\ \/ net'[o] \in {net[o], <<>>}
                \/ net[o] # <<>> /\ net'[o] = Tail(net[o])
  BY IInvParts, ActsApart
<1>2. CASE InSend(o) /\ net[o] # <<>>
  <2>1. Answer(o)
    BY <1>2, SenderActs, OtherSocket, OnTime DEF SendInterrupted, Interrupted
  <2> QED BY <1>1, <2>1, AnswerTakes, NoStrayTail
<1>3. CASE ~InSend(o) /\ net'[o] = net[o]
  <2>1. \A i \in 1..Len(net'[o]) : net'[o][i].flag # "ACK"
    BY <1>3 DEF NoStray
  <2> QED BY <2>1 DEF NoStray
<1>4. CASE net'[o] = <<>>
  BY <1>4, NoneStrays
<1> QED BY <1>1, <1>2, <1>3, <1>4, NoStrayTail

LEMMA DepartedKeeps ==
    ASSUME IInv, Typed', Next, ~Excused', NEW p \in Sockets, Departed(p)
    PROVE  Departed(p)'
<1> DEFINE o == Peer(p)
<1>1. /\ TypeOK /\ ~GaveUp' /\ ~Lost' /\ ~Late' /\ o \in Sockets /\ Peer(o) = p
      /\ At(p) \in {"exit", "gone"} /\ NoStray(o) /\ p \in Processes
      /\ {p} \in SUBSET Processes /\ o \in Processes /\ o # p
      /\ \A q \in Sockets : q = p \/ q = o
  BY IInvParts, OtherSocket DEF Excused, Departed
<1>2. ~Network
  BY <1>1, OtherSocket, MishapNoted DEF Network, Drop, Fault, Lost
<1>3. CASE Aside
  BY <1>1, <1>3, AsideFacts, NoStraySame DEF Bystand, Departed, At
<1>4. CASE Acts(o)
  BY <1>1, <1>4, ActsApart, NoStrayOwn DEF Departed, At
<1>5. CASE Acts(p)
  <2>1. Exit(p)
    BY <1>1, <1>5, OutActs DEF Drain, Takes, RecvTimeout, RecvInterrupted, InRecv,
                               Receiving, ServerKills
  <2>2. Ends({p}) /\ ctl' = ctl
    BY <2>1 DEF Exit
  <2>3. At(p)' = "gone" /\ call'[o] = call[o] /\ net'[o] \in {net[o], <<>>}
    BY <1>1, <2>2, EndsFacts
  <2> QED BY <1>1, <2>2, <2>3, NoStraySame DEF Departed
<1> QED BY <1>1, <1>2, <1>3, <1>4, <1>5, NextSplit

LEMMA TrappedKeeps ==
    ASSUME N_ATTEMPT > 1, IInv, Typed', Next, ~Excused', NEW p \in Sockets, Trapped(p)
    PROVE  Trapped(p)'
<1> DEFINE o == Peer(p)
<1>1. /\ TypeOK /\ TypeOK' /\ ~GaveUp' /\ ~Lost' /\ ~Late' /\ ~Crossed'
      /\ o \in Sockets
      /\ Peer(o) = p /\ At(p) = "close1" /\ call[p].pkt.flag = "FIN" /\ NoStray(o)
      /\ p \in Processes /\ o \in Processes /\ o # p /\ Socket(p) = p
      /\ \A q \in Sockets : q = p \/ q = o
      /\ TextNext(p) /\ At(p) # "gone"
  BY IInvParts, OtherSocket DEF Excused, Trapped, Typed
<1>2. ~Network
  BY <1>1, OtherSocket, MishapNoted DEF Network, Drop, Fault, Lost
<1>3. ASSUME call'[p] = call[p], ctl'[p] = ctl[p], Begins(net[p], net'[p]), NoStray(o)'
      PROVE  Trapped(p)'
  <2>1. net'[p] \in Seq(Datagram) /\ Len(net[p]) \in Nat /\ Len(net'[p]) \in Nat
    <3>1. net'[p] \in Seq(Datagram)
      BY <1>1 DEF TypeOK
    <3> QED BY <1>1, <3>1, QueueType, LenProperties
  <2>2. CASE Stuck(p)
    <3>1. net'[p] # <<>> /\ Head(net'[p]) = Head(net[p])
      BY <1>1, <1>3, <2>2, QueueBegins DEF Stuck
    <3> QED BY <1>1, <1>3, <2>2, <3>1 DEF Trapped, TextNext, Stuck, InSend, At
  <2>3. CASE Len(net[p]) > 1
    <3>1. 1 \in 1..Len(net[p]) /\ 2 \in 1..Len(net[p])
      BY <2>1, <2>3
    <3>2. Len(net'[p]) > 1 /\ net'[p][1] = net[p][1] /\ net'[p][2] = net[p][2]
      BY <1>3, <2>1, <3>1 DEF Begins
    <3>3. Answers(p, net[p][1])' <=> Answers(p, net[p][1])
      BY <1>3, <3>2 DEF Answers
    <3>4. CASE ~Stuck(p)
      BY <1>1, <1>3, <3>2, <3>3, <3>4 DEF Trapped, TextNext, At
    <3> QED BY <2>2, <3>4
  <2> QED BY <1>1, <2>2, <2>3 DEF TextNext
<1>4. CASE Aside
  <2>1. Bystand
    BY <1>1, <1>4, AsideFacts
  <2>2. /\ call'[p] = call[p] /\ ctl'[p] = ctl[p] /\ net'[p] = net[p]
        /\ call'[o] = call[o] /\ ctl'[o] = ctl[o] /\ net'[o] \in {net[o], <<>>}
    BY <1>1, <2>1 DEF Bystand
  <2> QED BY <1>1, <1>3, <2>2, NoStraySame DEF Begins
<1>5. CASE Acts(o)
  BY <1>1, <1>3, <1>5, ActsApart, NoStrayOwn
<1>6. CASE Acts(p)
  <2>1. ~Stuck(p) /\ InSend(p)
    BY <1>1, <1>6, StuckActs DEF InSend, Sending
  <2>2. /\ call[p].i = 0 /\ Len(net[p]) > 1 /\ net[p][2].flag = "DATA"
        /\ ~Answers(p, net[p][1])
    BY <1>1, <2>1 DEF TextNext
  <2>3. net[p] # <<>> /\ Arrived(p) = net[p][1]
    <3>1. Len(<<>>) = 0
      OBVIOUS
    <3> QED BY <1>1, <2>2, <3>1, QueueType DEF Arrived
  <2>4. Answer(p)
    BY <1>1, <1>6, <2>1, <2>3, SenderActs, OtherSocket, OnTime
       DEF SendInterrupted, Interrupted
  <2>5. Retry(p, Rest(p)) /\ ctl' = ctl
    BY <1>1, <2>2, <2>3, <2>4 DEF Answer
  <2>6. /\ call' = [call EXCEPT ![p].i = @ + 1]
        /\ net' = Put(Rest(p), o, call[p].pkt)
    BY <2>2, <2>5 DEF Retry
  <2>7. /\ call'[p].pkt = call[p].pkt /\ At(p)' = At(p) /\ call'[o] = call[o]
    BY <1>1, <2>6, TypeParts DEF At, Call
  <2>8. net'[p] = Tail(net[p]) /\ net'[o] \in {net[o], Append(net[o], call[p].pkt)}
        /\ call[p].pkt \in Datagram
    <3>1. /\ Rest(p) \in NetType /\ Rest(p)[o] = net[o]
          /\ call[p].pkt \in Datagram
      BY <1>1, <2>3, ArrivedFacts, TypeParts DEF Call
    <3>2. net'[o] \in {net[o], Append(net[o], call[p].pkt)}
      BY <1>1, <2>6, <3>1, PutFacts
    <3> QED BY <2>4, <3>1, <3>2, AnswerTakes
  <2>9. NoStray(o)'
    BY <1>1, <2>5, <2>7, <2>8, NoStraySame, NoStrayAppend
  <2>10. Stuck(p)'
    <3>1. /\ net[p] \in Seq(Datagram) /\ Len(net[p]) \in Nat
          /\ Len(Tail(net[p])) = Len(net[p]) - 1
          /\ \A i \in 1..Len(Tail(net[p])) : Tail(net[p])[i] = net[p][i + 1]
      BY <1>1, <2>3, QueueType
    <3>2. Tail(net[p]) \in Seq(Datagram) /\ Len(Tail(net[p])) > 0
          /\ Tail(net[p])[1] = net[p][2]
      BY <2>2, <2>3, <3>1, HeadTailProperties
    <3>3. Tail(net[p]) # <<>>
      <4>1. Len(<<>>) = 0
        OBVIOUS
      <4>2. ASSUME NEW t, Len(t) > 0 PROVE t # <<>>
        BY <4>1, <4>2
      <4> QED BY <3>2, <4>2
    <3>4. Head(Tail(net[p])) = net[p][2]
      BY <3>2, <3>3, HeadTailProperties
    <3> QED BY <2>1, <2>2, <2>7, <2>8, <3>3, <3>4 DEF Stuck, InSend
  <2> QED BY <1>1, <2>7, <2>9, <2>10 DEF Trapped, TextNext
<1> QED BY <1>1, <1>2, <1>4, <1>5, <1>6, NextSplit

-----------------------------------------------------------------------------
(* One end leaves: its FIN is the next that the other receives.             *)

LEMMA WaitingFacts ==
    ASSUME IInv, NEW p \in Sockets, Waiting(p), NEW o, o = Peer(p)
    PROVE  /\ TypeOK /\ o \in Sockets /\ Peer(o) = p /\ o # p
           /\ \A q \in Sockets : q = p \/ q = o
           /\ InSend(p) /\ At(p) = "close1" /\ net[p] = <<>> /\ net[o] # <<>>
           /\ At(o) \in {"sendName", "loop", "poll", "recv", "send"}
           /\ InSend(o) => /\ At(o) \in {"sendName", "send"} /\ Answers(o, Arrived(o))
                           /\ Then[o][At(o)] = "loop"
           /\ ~InSend(o) => \A i \in 1..Len(net[o]) : net[o][i].flag = "FIN"
           /\ ~InSend(o) => Arrived(o).flag = "FIN"
           /\ ~Quiet
<1>1. /\ TypeOK /\ o \in Sockets /\ Peer(o) = p /\ o # p /\ Socket(o) = o
      /\ \A q \in Sockets : q = p \/ q = o
      /\ o \in Processes /\ At(o) \in Program[o] /\ o \in {"client", "server"}
  BY IInvParts, OtherSocket DEF InProgram
<1>2. InSend(p) /\ At(p) = "close1" /\ net[p] = <<>> /\ net[o] # <<>>
  BY DEF Waiting, InSend, Sending
<1>3. /\ At(o) \in {"sendName", "loop", "poll", "recv", "send"}
      /\ At(o) = "sendName" => o = "client"
  BY <1>1, ProgramFacts DEF Waiting, Over
<1>4. InSend(o) => /\ At(o) \in {"sendName", "send"} /\ Answers(o, Arrived(o))
                   /\ Then[o][At(o)] = "loop"
  BY <1>1, <1>3, ThenFacts DEF Waiting, InSend, Sending, Arrived
<1>5. ~InSend(o) => \A i \in 1..Len(net[o]) : net[o][i].flag = "FIN"
  BY DEF Waiting
<1>6. ~InSend(o) => Arrived(o).flag = "FIN"
  BY <1>1, <1>2, <1>5, QueueType DEF Arrived
<1>7. ~Quiet
  BY <1>1, <1>2, <1>3, NotQuiet
<1> QED BY <1>1, <1>2, <1>3, <1>4, <1>5, <1>6, <1>7

\* The other end looks around, or nothing happens to either.
LEMMA WaitingSame ==
    ASSUME NEW p \in Sockets, Waiting(p), NEW o, o = Peer(p), net' = net, ctl'[o] = ctl[o],
           call'[p] = call[p], SignalSpent => SignalSpent',
           \/ call'[o] = call[o]
           \/ ~InSend(o) /\ At(o)' \in {"loop", "poll", "recv"}
    PROVE  Waiting(p)'
<1>1. At(p)' = At(p)
  BY DEF At
<1>2. CASE call'[o] = call[o]
  <2>1. At(o)' = At(o) /\ (InSend(o)' <=> InSend(o)) /\ (Over(o)' <=> Over(o))
    BY <1>2 DEF At, InSend, Over
  <2>2. Answers(o, Head(net[o]))' <=> Answers(o, Head(net[o]))
    BY DEF Answers
  <2> QED BY <1>1, <2>1, <2>2 DEF Waiting
<1>3. CASE ~InSend(o) /\ At(o)' \in {"loop", "poll", "recv"}
  <2>1. ~InSend(o)' /\ ~Over(o)'
    BY <1>3 DEF InSend, Sending, Over
  <2> QED BY <1>1, <1>3, <2>1 DEF Waiting
<1> QED BY <1>2, <1>3

\* Or it gets its acknowledgement.
LEMMA WaitingAnswer ==
    ASSUME IInv, NEW p \in Sockets, Waiting(p), NEW o, o = Peer(p), Answer(o),
           SignalSpent => SignalSpent'
    PROVE  Waiting(p)'
<1>1. /\ TypeOK /\ o \in Sockets /\ Peer(o) = p /\ o # p /\ InSend(o)
      /\ net[o] # <<>> /\ net[p] = <<>> /\ Answers(o, Arrived(o))
      /\ Then[o][At(o)] = "loop" /\ o \in Processes /\ p \in Processes
      /\ Socket(o) = o /\ At(p) = "close1"
  BY WaitingFacts, OtherSocket DEF Answer
<1>2. Goto(o, "loop") /\ net' = Rest(o)
  BY <1>1 DEF Answer
<1>3. call'[p] = call[p] /\ At(o)' = "loop"
  BY <1>1, <1>2, GotoFacts DEF Places, Resting
<1>4. net'[o] = Tail(net[o]) /\ net'[p] = <<>>
  BY <1>1, <1>2, ArrivedFacts
<1>5. \A i \in 1..Len(Tail(net[o])) : Tail(net[o])[i].flag = "FIN"
  <2>1. \A i \in 1..Len(Tail(net[o])) :
            i + 1 \in 1..Len(net[o]) /\ Tail(net[o])[i] = net[o][i + 1] /\ i + 1 # 1
    BY <1>1, QueueType
  <2> QED BY <2>1 DEF Waiting
<1>6. Tail(net[o]) # <<>>
  BY <1>1 DEF Waiting
<1>7. ~InSend(o)' /\ ~Over(o)' /\ At(p)' = At(p)
  BY <1>3 DEF InSend, Sending, Over, At
<1> QED BY <1>3, <1>4, <1>5, <1>6, <1>7 DEF Waiting

\* Or it sends text, or its own FIN.
LEMMA WaitingSends ==
    ASSUME IInv, NEW p \in Sockets, Waiting(p), NEW o, o = Peer(p), ~InSend(o),
           NEW place, NEW flag, NEW body,
           CanSend(o, ctl[o], net, place, flag, body),
           Sends(o, ctl[o], net, place, flag, body)
    PROVE  /\ flag = "DATA" => Trapped(p)'
           /\ place = "close1" => Over(o)'
<1> DEFINE d == Packet(ctl[o], flag, body)
<1>1. /\ TypeOK /\ o \in Sockets /\ Peer(o) = p /\ o # p
      /\ net[p] = <<>> /\ At(p) = "close1" /\ o \in Processes /\ p \in Processes
      /\ InSend(p) /\ call[p].pkt.flag = "FIN" /\ net[p] \in Seq(Datagram)
      /\ \A i \in 1..Len(net[o]) : net[o][i].flag = "FIN"
  BY WaitingFacts, OtherSocket, QueueType DEF Waiting
<1>2. Begun(o, ctl[o], net, place, flag, body)
  BY <1>1, SendsBegun
<1>3. /\ net' = Put(net, p, d) /\ call'[p] = call[p]
      /\ At(o)' \in {place, AfterFailure(o, place)}
  BY <1>1, <1>2 DEF Begun
<1>4. d \in Datagram /\ d.flag = flag /\ net \in NetType
  BY PacketType DEF CanSend
<1>5. net'[p] = Append(net[p], d) /\ net'[o] = net[o]
  BY <1>1, <1>3, <1>4, PutAlive
<1> HIDE DEF d
<1>6. net'[p] # <<>> /\ Head(net'[p]) = d
  BY <1>1, <1>4, <1>5, OneLonger
<1>7. flag = "DATA" => Stuck(p)'
  BY <1>1, <1>3, <1>4, <1>6 DEF Stuck, InSend, At
<1>8. NoStray(o)'
  BY <1>1, <1>5 DEF NoStray
<1>9. place = "close1" => Over(o)'
  <2>1. AfterFailure(o, "close1") = "drain"
    BY <1>1, OtherSocket, ThenFacts DEF AfterFailure
  <2> QED BY <1>3, <2>1 DEF Over
<1> QED BY <1>1, <1>3, <1>7, <1>8, <1>9 DEF Trapped, TextNext, At

\* What the other end does meanwhile.
LEMMA WaitingActs ==
    ASSUME IInv, Typed', Next, ~Excused', NEW p \in Sockets, Waiting(p),
           NEW o, o = Peer(p), Acts(o)
    PROVE  Waiting(p)' \/ Trapped(p)' \/ Over(o)'
<1>1. /\ TypeOK /\ o \in Sockets /\ Peer(o) = p /\ o # p
      /\ net[o] # <<>> /\ o \in Processes /\ Socket(o) = o /\ ~Quiet
      /\ At(o) \in {"sendName", "loop", "poll", "recv", "send"}
      /\ ~InSend(o) => Arrived(o).flag = "FIN"
      /\ ctl[o] \in Control /\ net \in NetType
      /\ o = "client" \/ o = "server"
      /\ ~Late'
  BY WaitingFacts, OtherSocket, TypeParts DEF Excused
<1>2. SignalSpent => SignalSpent'
  BY SignalStays
<1>3. call'[p] = call[p]
  BY <1>1, ActsApart
<1>4. CASE InSend(o)
  <2>1. Answer(o)
    BY <1>1, <1>4, SenderActs, OnTime DEF SendInterrupted, Interrupted
  <2> QED BY <1>2, <2>1, WaitingAnswer
<1>5. ASSUME ~InSend(o), At(o) = "recv" PROVE Over(o)'
  <2>1. RecvEnd(o)
    BY <1>1, <1>5, RecvActs, OnTime
       DEF RecvText, RecvInterrupted, Interrupted, ServerWriteFails
  <2>2. Sends(o, Noted(o), Acked(o), "close2", "FIN", 0)
    BY <2>1 DEF RecvEnd
  <2>3. CanSend(o, Noted(o), Acked(o), "close2", "FIN", 0)
    BY <1>1, NotedFacts, AckedFacts, ProgramFacts DEF CanSend, Sending
  <2>4. Begun(o, Noted(o), Acked(o), "close2", "FIN", 0)
    BY <1>1, <2>2, <2>3, SendsBegun
  <2>5. AfterFailure(o, "close2") \in {"exit", "kill"}
    BY <1>1, ThenFacts DEF AfterFailure
  <2> QED BY <2>4, <2>5 DEF Begun, Over
<1>6. CASE ~InSend(o) /\ At(o) \in {"loop", "poll"}
  <2>1. \A place \in {"send", "close1"} : \A flag \in {"DATA", "FIN"} : \A body \in Nat :
            CanSend(o, ctl[o], net, place, flag, body)
    BY <1>1, ProgramFacts DEF CanSend, Sending
  <2>2. Goto(o, "loop") \/ Goto(o, "poll") \/ Goto(o, "recv") =>
            At(o)' \in {"loop", "poll", "recv"}
    BY <1>1, GotoFacts DEF Places, Resting, Receiving
  <2>3. CASE Poll(o) \/ RecvCall(o) \/ (o = "server" /\ (ServerTest \/ PollTimeout))
    <3>1. /\ net' = net /\ ctl' = ctl
          /\ Goto(o, "loop") \/ Goto(o, "poll") \/ Goto(o, "recv")
      BY <2>3 DEF Poll, RecvCall, ServerTest, PollTimeout
    <3> QED BY <1>2, <1>3, <1>6, <2>2, <3>1, WaitingSame
  <2>4. CASE o = "client" /\ ClientKeys
    <3>1. pos["client"] + 1 \in Nat
      BY <1>1, PosFacts
    <3>2. Sends(o, ctl[o], net, "send", "DATA", pos["client"] + 1)
      BY <2>4 DEF ClientKeys
    <3> QED BY <1>6, <2>1, <3>1, <3>2, WaitingSends
  <2>5. CASE o = "server" /\ ServerOutput
    <3>1. pos["server"] + 1 \in Nat
      BY <1>1, PosFacts
    <3>2. Sends(o, ctl[o], net, "send", "DATA", pos["server"] + 1)
      BY <2>5 DEF ServerOutput
    <3> QED BY <1>6, <2>1, <3>1, <3>2, WaitingSends
  <2>6. CASE \/ o = "client" /\ ClientLeaves
             \/ o = "server" /\ (ServerLeaves \/ PollInterrupted)
    <3>1. Sends(o, ctl[o], net, "close1", "FIN", 0)
      BY <2>6 DEF ClientLeaves, ServerLeaves, PollInterrupted
    <3> QED BY <1>6, <2>1, <3>1, WaitingSends
  <2>7. CASE o = "client" /\ ClientBreaks
    <3>1. Goto(o, "exit") /\ "exit" \in {"drain", "exit", "kill"}
      BY <2>7 DEF ClientBreaks
    <3> QED BY <1>1, <3>1, OverGoes
  <2> QED BY <1>1, <1>6, <2>3, <2>4, <2>5, <2>6, <2>7, LoopActs
<1> QED BY <1>1, <1>4, <1>5, <1>6 DEF InSend, Sending

LEMMA WaitingKeeps ==
    ASSUME IInv, Typed', Next, ~Excused', NEW p \in Sockets, Waiting(p)
    PROVE  OneLeaves' \/ AllDone'
<1> DEFINE o == Peer(p)
<1>1. /\ TypeOK /\ ~GaveUp' /\ ~Lost' /\ ~Late' /\ o \in Sockets /\ Peer(o) = p
      /\ At(p) = "close1" /\ p \in Processes /\ o \in Processes
      /\ \A q \in Sockets : q = p \/ q = o
      /\ At(o) \in {"sendName", "loop", "poll", "recv", "send"}
      /\ InSend(p) /\ net[p] = <<>> /\ ~Quiet /\ Socket(p) = p
  BY WaitingFacts, OtherSocket DEF Excused
<1>2. ~Network
  BY <1>1, OtherSocket, MishapNoted DEF Network, Drop, Fault, Lost
<1>3. SignalSpent => SignalSpent'
  BY SignalStays
<1>4. CASE Aside
  <2>1. Bystand
    BY <1>1, <1>4, AsideFacts
  <2>2. /\ call'[p] = call[p] /\ call'[o] = call[o] /\ ctl'[o] = ctl[o]
        /\ net'[p] = net[p] /\ net'[o] = net[o]
    BY <1>1, <2>1 DEF Bystand
  <2>3. Waiting(p)'
    <3> HIDE DEF o
    <3>1. /\ At(p)' = At(p) /\ At(o)' = At(o) /\ (InSend(o)' <=> InSend(o))
          /\ (Over(o)' <=> Over(o))
          /\ Answers(o, Head(net[o]))' <=> Answers(o, Head(net'[o]))
      BY <2>2 DEF At, InSend, Over, Answers
    <3> QED BY <1>3, <2>2, <3>1 DEF Waiting, o
  <2> QED BY <2>3 DEF OneLeaves
<1>5. CASE Acts(o)
  <2>1. CASE Over(o)'
    <3>1. call'[p] = call[p]
      BY <1>1, <1>5, ActsApart
    <3>2. Over(p)'
      BY <1>1, <3>1 DEF Over, At
    <3> QED BY <1>1, <2>1, <3>2 DEF AllDone, Done
  <2> QED BY <1>5, <2>1, WaitingActs DEF OneLeaves
<1>6. ~Acts(p)
  <2> SUFFICES ASSUME Acts(p) PROVE FALSE
    OBVIOUS
  <2>1. p = "server" /\ SendInterrupted
    BY <1>1, SenderActs, OnTime DEF Answer
  <2> QED BY <2>1 DEF Waiting, SignalSpent, SendInterrupted, Interrupted, Handles
<1> QED BY <1>1, <1>2, <1>4, <1>5, <1>6, NextSplit

LEMMA LeavesKeeps ==
    ASSUME N_ATTEMPT > 1, IInv, Typed', Next, ~Excused', OneLeaves
    PROVE  OneLeaves' \/ AllDone'
  BY WaitingKeeps, TrappedKeeps, DepartedKeeps DEF OneLeaves

-----------------------------------------------------------------------------
(* The signal made the server send its text again.                          *)

LEMMA NotEmpty ==
    ASSUME NEW s, Len(s) > 0 PROVE s # <<>>
<1>1. Len(<<>>) = 0
  OBVIOUS
<1> QED BY <1>1

\* The types of what the two ends have.
LEMMA EndsType ==
    ASSUME IInv
    PROVE  /\ TypeOK /\ net \in NetType
           /\ net["client"] \in Seq(Datagram) /\ net["server"] \in Seq(Datagram)
           /\ Len(net["client"]) \in Nat /\ Len(net["server"]) \in Nat
           /\ ctl["client"] \in Control /\ ctl["server"] \in Control
           /\ call["client"].pkt \in Datagram /\ call["server"].pkt \in Datagram
           /\ ctl["client"].ack \in Nat /\ ctl["server"].seq \in Nat
  BY IInvParts, TypeParts, QueueType, ProcessFacts DEF Call, Control

LEMMA ReceivedFacts ==
    ASSUME IInv, NEW m \in 0..2, NEW n \in 0..2, Received(m, n)
    PROVE  /\ Len(net["client"]) = m
           /\ net["client"] # <<>> \/ net["server"] # <<>>
           /\ At("client") \in {"loop", "recv", "send"}
           /\ At("server") \in {"send", "loop", "close1"}
           /\ \A i \in 1..m : net["client"][i].flag \in {"DATA", "FIN"}
           /\ n > 0 => net["server"] # <<>>
           /\ m = 0 => net["client"] = <<>> /\ n > 0
           /\ m > 0 => net["client"] # <<>> /\ Listens
<1>1. /\ Len(net["client"]) = m /\ net["client"] \in Seq(Datagram)
      /\ net["server"] \in Seq(Datagram) /\ Len(net["server"]) \in Nat
  BY EndsType DEF Received
<1>2. Len(<<>>) = 0
  OBVIOUS
<1>3. m = 0 => net["client"] = <<>>
  BY <1>1, EmptySeq
<1>4. m > 0 => net["client"] # <<>> /\ Listens
  BY <1>1, <1>2 DEF Received, Echoes
<1>5. n > 0 => net["server"] # <<>>
  BY <1>1, <1>2 DEF Received, Echoes
<1>6. m + n > 0 /\ (m = 0 => n > 0)
  BY DEF Received
<1>7. \A i \in 1..m : net["client"][i].flag \in {"DATA", "FIN"}
  BY DEF Received, Outdated
<1> QED BY <1>1, <1>3, <1>4, <1>5, <1>6, <1>7 DEF Received, Echoes, Listens

LEMMA SignalledFacts ==
    ASSUME IInv, Signalled
    PROVE  /\ At("client") \in {"loop", "recv", "send", "sendName"}
           /\ At("server") \in {"send", "loop", "close1"}
           /\ Done("server") /\ ~Quiet /\ ~chld.raised /\ chld.exit
           /\ Listens /\ net["client"] # <<>> =>
                  Head(net["client"]).flag \in {"DATA", "FIN"}
<1>1. TypeOK /\ "client" \in Sockets /\ "server" \in Sockets
  BY IInvParts, ProcessFacts
<1>2. CASE SentTwice
  <2> DEFINE d == call["server"].pkt
  <2>1. <<d, d>> # <<>> /\ Head(<<d, d>>) = d
    OBVIOUS
  <2>2. /\ At("server") = "send" /\ d.flag = "DATA" /\ net["client"] # <<>>
        /\ At("client") \in {"loop", "recv", "send", "sendName"}
        /\ Listens => net["client"] = <<d, d>>
    BY <1>2, <2>1 DEF SentTwice, Listens
  <2>3. Listens => Head(net["client"]) = d
    BY <2>1, <2>2
  <2>4. ~Quiet
    BY <1>1, <2>2, NotQuiet
  <2> QED BY <2>2, <2>3, <2>4 DEF Signalled, Done, Going, SignalSpent
<1>3. CASE ReceivedOne
  <2>1. PICK m \in 0..2, n \in 0..2 : Received(m, n)
    BY <1>3 DEF ReceivedOne
  <2>2. /\ net["client"] # <<>> \/ net["server"] # <<>>
        /\ At("client") \in {"loop", "recv", "send"}
        /\ At("server") \in {"send", "loop", "close1"}
        /\ Len(net["client"]) = m
        /\ \A i \in 1..m : net["client"][i].flag \in {"DATA", "FIN"}
    BY <2>1, ReceivedFacts
  <2>3. ~Quiet
    BY <1>1, <2>2, NotQuiet
  <2>4. net["client"] # <<>> => Head(net["client"]).flag \in {"DATA", "FIN"}
    BY <1>1, <2>2, QueueType
  <2> QED BY <2>2, <2>3, <2>4 DEF Signalled, Done, Going, Over, SignalSpent
<1> QED BY <1>2, <1>3 DEF Signalled

\* Nothing happens to either, or the client looks around.
LEMMA SignalledSame ==
    ASSUME Signalled, SignalSpent', todo'["server"] = todo["server"],
           errno'["client"] = errno["client"], errno'["server"] = errno["server"],
           net'["client"] = net["client"], net'["server"] = net["server"],
           ctl'["client"] = ctl["client"], ctl'["server"] = ctl["server"],
           call'["server"] = call["server"],
           call'["client"] = call["client"] \/ (Listens /\ Listens')
    PROVE  Signalled'
<1>1. /\ At("server")' = At("server") /\ (Listens' <=> Listens)
      /\ Listens \/ At("client")' = At("client")
      /\ Listens => At("client") \notin {"send", "sendName"}
      /\ Listens' => At("client")' \notin {"send", "sendName"}
  BY DEF At, Listens
<1>2. SentTwice => SentTwice'
  BY <1>1 DEF SentTwice, Answers
<1>3. \A i : Outdated(i) => Outdated(i)'
  BY <1>1 DEF Outdated
<1>4. \A n : Echoes(n) => Echoes(n)'
  BY <1>1 DEF Echoes
<1>5. ASSUME NEW m \in 0..2, NEW n \in 0..2, Received(m, n) PROVE Received(m, n)'
  BY <1>1, <1>3, <1>4, <1>5 DEF Received
<1>6. ReceivedOne => ReceivedOne'
  BY <1>5 DEF ReceivedOne
<1> QED BY <1>2, <1>6 DEF Signalled

\* The server waits while the client has received nothing.
LEMMA TwiceServer ==
    ASSUME IInv, Signalled, SentTwice, ~Late' PROVE ~Acts("server")
<1>1. /\ "server" \in Sockets /\ InSend("server") /\ net["server"] = <<>> /\ ~Quiet
      /\ ~chld.raised /\ Socket("server") = "server"
  BY SignalledFacts, ProcessFacts DEF SentTwice, InSend, Sending
<1> QED BY <1>1, SenderActs, OnTime
       DEF Answer, SendInterrupted, Interrupted, Handles

LEMMA EchoesTail ==
    ASSUME IInv, NEW n \in 1..2, Echoes(n), net'["server"] = Tail(net["server"]),
           net'["client"] = net["client"], call'["client"] = call["client"],
           ctl'["client"] = ctl["client"]
    PROVE  Echoes(n - 1)'
<1>1. /\ Len(net["server"]) >= n
      /\ \A i \in 1..n : /\ net["server"][i].flag = "ACK"
                         /\ net["server"][i].ack = ctl["client"].ack
  BY EndsType DEF Echoes
<1>2. net["server"] # <<>>
  BY <1>1, NotEmpty, EndsType
<1>3. /\ Len(Tail(net["server"])) = Len(net["server"]) - 1
      /\ \A i \in 1..Len(Tail(net["server"])) :
            Tail(net["server"])[i] = net["server"][i + 1]
  BY <1>2, QueueType, EndsType, ProcessFacts
<1>4. \A i \in 1..(n - 1) : /\ net'["server"][i].flag = "ACK"
                            /\ net'["server"][i].ack = ctl'["client"].ack
  BY <1>1, <1>3, EndsType
<1>5. Listens' <=> Listens
  BY DEF Listens, At
<1>6. CASE Listens /\ Len(net["server"]) = n
  BY <1>3, <1>4, <1>5, <1>6 DEF Echoes
<1>7. CASE /\ At("client") = "send" /\ net["client"] = <<>>
           /\ Len(net["server"]) = n + 1 /\ net["server"][n + 1].flag = "DATA"
  <2>1. Len(net'["server"]) = (n - 1) + 1 /\ net'["server"][(n - 1) + 1].flag = "DATA"
    BY <1>3, <1>7
  <2> QED BY <1>4, <1>7, <2>1 DEF Echoes, At
<1> QED BY <1>6, <1>7 DEF Echoes

\* The server is answered ...
LEMMA ReceivedAnswer ==
    ASSUME IInv, Signalled, NEW m \in 0..2, NEW n \in 0..2, Received(m, n),
           At("server") = "send", Acts("server"), ~Late'
    PROVE  Received(m, n - 1)' /\ n > 0 /\ todo' = todo /\ errno' = errno
<1>1. /\ "server" \in Sockets /\ InSend("server") /\ ~Quiet /\ "server" \in Processes
      /\ ~chld.raised /\ Socket("server") = "server" /\ Peer("server") = "client"
      /\ TypeOK /\ "client" \in Processes
  BY SignalledFacts, ProcessFacts, IInvParts DEF InSend, Sending
<1>2. Answer("server")
  BY <1>1, SenderActs, OnTime DEF SendInterrupted, Handles, Interrupted
<1>3. n \in 1..2 /\ m < 2 /\ m + n = 2 /\ ctl["client"].ack = ctl["server"].seq
  BY DEF Received
<1>4. net["server"] # <<>> /\ Arrived("server") = net["server"][1]
  BY <1>1, <1>3, ReceivedFacts, QueueType DEF Arrived
<1>5. Answers("server", Arrived("server"))
  BY <1>3, <1>4 DEF Received, Echoes, Answers
<1>6. /\ Goto("server", "loop") /\ net' = Rest("server") /\ ctl' = ctl
      /\ todo' = todo /\ errno' = errno
  BY <1>1, <1>2, <1>5, ThenFacts DEF Answer
<1>7. At("server")' = "loop" /\ call'["client"] = call["client"]
  BY <1>1, <1>6, GotoFacts DEF Places, Resting
<1>8. net'["server"] = Tail(net["server"]) /\ net'["client"] = net["client"]
  BY <1>1, <1>4, <1>6, ArrivedFacts
<1>9. Echoes(n - 1)'
  BY <1>3, <1>6, <1>7, <1>8, EchoesTail DEF Received
<1>10. \A i \in 1..m : Outdated(i)'
  BY <1>6, <1>7, <1>8 DEF Received, Outdated
<1> QED BY <1>3, <1>6, <1>7, <1>8, <1>9, <1>10 DEF Received

\* ... and leaves its loop, with no look at its socket ...
LEMMA ReceivedLeaves ==
    ASSUME IInv, Signalled, NEW m \in 0..2, NEW n \in 0..2, Received(m, n),
           At("server") = "loop", Acts("server")
    PROVE  /\ Received(m + 1, n)' \/ Trapped("server")'
           /\ m < 2 /\ todo' = todo /\ errno' = errno
<1> DEFINE d == Packet(ctl["server"], "FIN", 0)
<1>1. /\ "server" \in Sockets /\ "server" \in Processes /\ "client" \in Sockets
      /\ ~chld.raised /\ Socket("server") = "server" /\ Peer("server") = "client"
      /\ TypeOK /\ "client" \in Processes /\ Peer("client") = "server"
      /\ todo["server"] = {} /\ chld.exit /\ errno["server"] = "other"
      /\ At("client") \notin {"none", "shell", "gone"}
  BY SignalledFacts, ProcessFacts, IInvParts DEF Signalled, SignalSpent
<1>2. ServerLeaves
  BY <1>1, LoopActs DEF Poll, Polls, RecvCall, ServerTest, PollTimeout,
                        ServerOutput, PollInterrupted
<1>3. CanSend("server", ctl["server"], net, "close1", "FIN", 0)
  BY <1>1, ProgramFacts, EndsType DEF CanSend, Sending
<1>4. /\ At("server")' = "close1" /\ call'["server"].pkt = d
      /\ call'["server"].i = 0 /\ d.flag = "FIN" /\ d \in Datagram
      /\ ctl'["server"].seq = ctl["server"].seq + Size("FIN")
      /\ net' = Put(net, "client", d)
      /\ call'["client"] = call["client"] /\ ctl'["client"] = ctl["client"]
      /\ todo' = todo /\ errno' = errno
  BY <1>1, <1>2, <1>3, SendsAtOnce DEF ServerLeaves
<1>12. net \in NetType
  BY EndsType
<1> HIDE DEF d
<1>5. net'["client"] = Append(net["client"], d) /\ net'["server"] = net["server"]
  BY <1>1, <1>4, <1>12, PutAlive
<1>6. ctl["client"].ack = ctl["server"].seq /\ m < 2 /\ m + n = 1 /\ m \in Nat
      /\ Len(net["client"]) = m
  BY DEF Received
<1>7. ctl'["client"].ack # ctl'["server"].seq
  BY <1>4, <1>6, SizeType, EndsType
<1>8. /\ Len(net'["client"]) = m + 1
      /\ \A i \in 1..(m + 1) : net'["client"][i] = IF i <= m THEN net["client"][i] ELSE d
  BY <1>4, <1>5, <1>6, EndsType, OneLonger
<1>9. \A i \in 1..(m + 1) : Outdated(i)'
  <2>1. \A i \in 1..m : net["client"][i].flag = "DATA"
                        /\ net["client"][i].seq # ctl["client"].ack
    BY DEF Received, Outdated
  <2> QED BY <1>4, <1>6, <1>8, <2>1 DEF Outdated
<1>10. CASE Listens
  <2>1. Echoes(n)'
    <3>1. Listens' /\ At("client") # "send"
      BY <1>4, <1>10 DEF Listens, At
    <3> QED BY <1>4, <1>5, <3>1 DEF Received, Echoes
  <2>2. Received(m + 1, n)'
    BY <1>4, <1>6, <1>7, <1>8, <1>9, <2>1 DEF Received
  <2> QED BY <1>4, <1>6, <2>2
<1>11. CASE ~Listens
  <2>1. /\ m = 0 /\ n = 1 /\ net["client"] = <<>>
        /\ Len(net["server"]) = 2 /\ net["server"][2].flag = "DATA"
        /\ net["server"][1].flag = "ACK" /\ net["server"][1].ack = ctl["client"].ack
    <3>1. m = 0 /\ n = 1 /\ net["client"] = <<>>
      BY <1>6, <1>11, ReceivedFacts
    <3>2. \A i \in 1..n : /\ net["server"][i].flag = "ACK"
                          /\ net["server"][i].ack = ctl["client"].ack
      BY DEF Received, Echoes
    <3>3. Len(net["server"]) = n + 1 /\ net["server"][n + 1].flag = "DATA"
      BY <1>11 DEF Received, Echoes
    <3> QED BY <3>1, <3>2, <3>3
  <2>2. TextNext("server")'
    BY <1>4, <1>5, <1>7, <2>1 DEF TextNext, Answers
  <2>3. NoStray("client")'
    BY <1>4, <1>8, <2>1 DEF NoStray
  <2> QED BY <1>1, <1>4, <1>6, <2>2, <2>3 DEF Trapped
<1> QED BY <1>10, <1>11

\* ... and takes the last acknowledgement while it waits for that of its FIN.
LEMMA ReceivedCloses ==
    ASSUME N_ATTEMPT > 1, IInv, Signalled, SignalSpent', NEW m \in 0..2, NEW n \in 0..2,
           Received(m, n), At("server") = "close1", Acts("server"), ~Late'
    PROVE  Waiting("server")'
<1> DEFINE d == call["server"].pkt
<1>1. /\ "server" \in Sockets /\ InSend("server") /\ ~Quiet /\ "server" \in Processes
      /\ ~chld.raised /\ Socket("server") = "server" /\ Peer("server") = "client"
      /\ TypeOK /\ "client" \in Processes /\ "client" \in Sockets
      /\ Peer("client") = "server"
      /\ At("client") \notin {"none", "shell", "gone"}
  BY SignalledFacts, ProcessFacts, IInvParts DEF InSend, Sending
<1>2. Answer("server")
  BY <1>1, SenderActs, OnTime DEF SendInterrupted, Handles, Interrupted
<1>3. /\ net["server"] # <<>> /\ Arrived("server") = net["server"][1]
      /\ Len(net["server"]) > 0
  BY <1>1, <1>2, QueueType DEF Arrived, Answer
<1>4. /\ m > 0 /\ m + n = 2 /\ call["server"].i = 0 /\ d.flag = "FIN"
      /\ ctl["client"].ack # ctl["server"].seq /\ Len(net["client"]) = m /\ Listens
  BY ReceivedFacts DEF Received
<1>5. /\ n = 1 /\ m = 1 /\ Len(net["server"]) = 1
      /\ net["server"][1].ack = ctl["client"].ack
  <2>1. Len(net["server"]) = n /\ n > 0
    BY <1>3, <1>4 DEF Received, Echoes, Listens
  <2>2. n = 1 /\ m = 1
    BY <1>4, <2>1
  <2>3. \A i \in 1..n : net["server"][i].ack = ctl["client"].ack
    BY DEF Received, Echoes
  <2> QED BY <2>1, <2>2, <2>3
<1>6. net["client"][1].flag = "FIN"
  BY <1>4, <1>5 DEF Received, Outdated
<1>7. /\ call' = [call EXCEPT !["server"].i = @ + 1]
      /\ net' = Put(Rest("server"), "client", d)
  BY <1>1, <1>2, <1>3, <1>4, <1>5 DEF Answer, Answers, Retry
<1>8. /\ At("server")' = "close1" /\ call'["server"].pkt = d
      /\ call'["client"] = call["client"]
  BY <1>1, <1>7, TypeParts DEF At, Call
<1>9. /\ Rest("server") \in NetType /\ Rest("server")["server"] = Tail(net["server"])
      /\ Rest("server")["client"] = net["client"] /\ d \in Datagram
  BY <1>1, <1>3, ArrivedFacts, EndsType
<1>10. /\ net'["client"] = Append(net["client"], d)
       /\ net'["server"] = Tail(net["server"])
  BY <1>1, <1>7, <1>9, PutAlive
<1> HIDE DEF d
<1>11. net'["server"] = <<>>
  <2>1. Tail(net["server"]) \in Seq(Datagram) /\ Len(Tail(net["server"])) = 0
    BY <1>1, <1>3, <1>5, QueueType, EndsType, HeadTailProperties
  <2> QED BY <1>10, <2>1, EmptySeq
<1>12. /\ net'["client"] # <<>>
       /\ \A i \in 1..Len(net'["client"]) : net'["client"][i].flag = "FIN"
  <2>1. /\ Append(net["client"], d) # <<>> /\ Len(Append(net["client"], d)) = 2
        /\ \A i \in 1..2 : Append(net["client"], d)[i]
                             = IF i <= 1 THEN net["client"][i] ELSE d
    <3>1. net["client"] \in Seq(Datagram) /\ Len(net["client"]) = 1
      BY <1>4, <1>5, EndsType
    <3>2. /\ Append(net["client"], d) # <<>>
          /\ Len(Append(net["client"], d)) = Len(net["client"]) + 1
          /\ \A i \in 1..Len(Append(net["client"], d)) :
                Append(net["client"], d)[i]
                  = IF i <= Len(net["client"]) THEN net["client"][i] ELSE d
      <4>1. d \in Datagram /\ net["client"] \in Seq(Datagram)
        BY <1>9, <3>1
      <4> QED BY <4>1, OneLonger
    <3> QED BY <3>1, <3>2
  <2> QED BY <1>4, <1>6, <1>10, <2>1
<1>13. /\ ~InSend("client")' /\ ~Over("client")'
       /\ At("client")' \notin {"start", "sendKey", "recvKey", "recvName"}
  BY <1>4, <1>8 DEF Listens, At, InSend, Sending, Over
<1> QED BY <1>1, <1>4, <1>8, <1>11, <1>12, <1>13 DEF Waiting

\* What the client sends, and receives.
LEMMA KeysSent ==
    ASSUME IInv, ClientKeys, errno["client"] = "other",
           At("server") \notin {"none", "shell", "gone"}
    PROVE  \E d \in Datagram :
              /\ d.flag = "DATA" /\ At("client")' = "send"
              /\ net'["server"] = Append(net["server"], d)
              /\ net'["client"] = net["client"] /\ ctl'["client"].ack = ctl["client"].ack
<1> DEFINE d == Packet(ctl["client"], "DATA", pos["client"] + 1)
<1>1. /\ "server" \in Sockets /\ "client" \in Sockets /\ "client" \in Processes
      /\ Peer("client") = "server" /\ Peer("server") = "client" /\ TypeOK
      /\ net \in NetType
  BY ProcessFacts, EndsType
<1>2. CanSend("client", ctl["client"], net, "send", "DATA", pos["client"] + 1)
  BY <1>1, EndsType, PosFacts, ProgramFacts DEF CanSend, Sending
<1>3. /\ At("client")' = "send" /\ d \in Datagram /\ d.flag = "DATA"
      /\ net' = Put(net, "server", d) /\ ctl'["client"].ack = ctl["client"].ack
  BY <1>1, <1>2, SendsAtOnce DEF ClientKeys
<1> HIDE DEF d
<1>4. net'["server"] = Append(net["server"], d) /\ net'["client"] = net["client"]
  BY <1>1, <1>3, PutAlive
<1> QED BY <1>3, <1>4

LEMMA TextReceived ==
    ASSUME IInv, RecvText("client"), At("server") \notin {"none", "shell", "gone"}
    PROVE  \E a \in Datagram :
              /\ a.flag = "ACK" /\ a.ack = ctl'["client"].ack
              /\ At("client")' = "loop" /\ net["client"] # <<>>
              /\ net'["server"] = Append(net["server"], a)
              /\ net'["client"] = Tail(net["client"])
              /\ net["client"][1].flag = "DATA"
              /\ ctl'["client"].ack =
                    IF net["client"][1].seq = ctl["client"].ack
                    THEN ctl["client"].ack + Size("DATA") ELSE ctl["client"].ack
<1> DEFINE a == Packet(Noted("client"), "ACK", 0)
<1>1. /\ "server" \in Sockets /\ "client" \in Sockets /\ "client" \in Processes
      /\ Peer("client") = "server" /\ Peer("server") = "client" /\ TypeOK
      /\ Socket("client") = "client" /\ net["client"] # <<>>
      /\ Arrived("client").flag = "DATA" /\ Passes("client", "loop")
      /\ Arrived("client") = net["client"][1]
  BY ProcessFacts, EndsType, QueueType DEF RecvText, Takes, Arrived
<1>2. /\ At("client")' = "loop" /\ ctl'["client"] = Noted("client")
      /\ net' = Acked("client")
  BY <1>1, PassesFacts DEF Places, Resting
<1>3. /\ Noted("client").ack =
            IF Arrived("client").seq = ctl["client"].ack
            THEN ctl["client"].ack + Size(Arrived("client").flag)
            ELSE ctl["client"].ack
      /\ a \in Datagram /\ Noted("client") \in Control
  BY <1>1, NotedFacts
<1>4. a.flag = "ACK" /\ a.ack = Noted("client").ack
  BY <1>3, PacketType DEF Packet
<1>5. Acked("client") = Put(Rest("client"), "server", a)
  BY <1>1 DEF Acked
<1>6. /\ Rest("client") \in NetType
      /\ Rest("client")["client"] = Tail(net["client"])
      /\ Rest("client")["server"] = net["server"]
  BY <1>1, ArrivedFacts
<1> HIDE DEF a
<1>7. /\ net'["server"] = Append(net["server"], a)
      /\ net'["client"] = Tail(net["client"])
  BY <1>1, <1>2, <1>3, <1>5, <1>6, PutAlive
<1> QED BY <1>1, <1>2, <1>3, <1>4, <1>7

LEMMA TwiceReceives ==
    ASSUME IInv, Signalled, SentTwice, RecvText("client"),
           call'["server"] = call["server"], ctl'["server"] = ctl["server"]
    PROVE  Received(1, 1)'
<1> DEFINE d == call["server"].pkt
<1>1. At("client") = "recv" /\ At("server") = "send" /\ At("server")' = "send"
  BY DEF RecvText, Takes, SentTwice, At
<1>2. /\ net["client"] = <<d, d>> /\ net["server"] = <<>> /\ d.flag = "DATA"
      /\ ctl["server"].seq = d.seq + Size("DATA") /\ ctl["client"].ack = d.seq
      /\ d.seq \in Nat /\ d \in Datagram
  BY <1>1, EndsType DEF SentTwice, Datagram
<1>3. PICK a \in Datagram :
              /\ a.flag = "ACK" /\ a.ack = ctl'["client"].ack
              /\ At("client")' = "loop"
              /\ net'["server"] = Append(net["server"], a)
              /\ net'["client"] = Tail(net["client"])
              /\ ctl'["client"].ack =
                    IF net["client"][1].seq = ctl["client"].ack
                    THEN ctl["client"].ack + Size("DATA") ELSE ctl["client"].ack
  BY <1>1, TextReceived
<1>4. <<d, d>>[1] = d /\ Tail(<<d, d>>) = <<d>> /\ Len(<<d>>) = 1 /\ <<d>>[1] = d
  OBVIOUS
<1>5. /\ ctl'["client"].ack = d.seq + Size("DATA") /\ net'["client"] = <<d>>
      /\ ctl'["client"].ack = ctl'["server"].seq
  BY <1>2, <1>3, <1>4
<1>6. Append(<<>>, a) = <<a>> /\ Len(<<a>>) = 1 /\ <<a>>[1] = a
  OBVIOUS
<1>7. net'["server"] = <<a>>
  BY <1>2, <1>3, <1>6
<1> HIDE DEF d
<1>8. Echoes(1)'
  BY <1>3, <1>6, <1>7 DEF Echoes, Listens
<1>9. \A i \in 1..1 : Outdated(i)'
  <2>1. d.seq # ctl'["client"].ack
    BY <1>2, <1>5, SizeType
  <2> QED BY <1>1, <1>2, <1>4, <1>5, <2>1 DEF Outdated
<1> QED BY <1>1, <1>4, <1>5, <1>8, <1>9 DEF Received

LEMMA TwiceAnswered ==
    ASSUME IInv, Signalled, SentTwice, Answer("client")
    PROVE  SentTwice'
<1> DEFINE d == call["server"].pkt
<1>1. /\ "client" \in Processes /\ "server" \in Processes
      /\ Peer("client") = "server" /\ TypeOK /\ Socket("client") = "client"
      /\ net["client"] # <<>>
  BY ProcessFacts, EndsType DEF Answer
<1>2. At("client") \in {"send", "sendName"}
  BY DEF SentTwice, Answer, InSend, Sending, Listens
<1>3. Answers("client", Arrived("client")) /\ Tail(net["client"]) = <<d, d>>
  BY <1>1, <1>2 DEF SentTwice, Listens, Arrived
<1>4. Goto("client", "loop") /\ net' = Rest("client") /\ ctl' = ctl
  BY <1>2, <1>3, ThenFacts DEF Answer
<1>5. At("client")' = "loop" /\ call'["server"] = call["server"]
  BY <1>1, <1>4, GotoFacts DEF Places, Resting
<1>6. net'["client"] = <<d, d>> /\ net'["server"] = net["server"]
  BY <1>1, <1>3, <1>4, ArrivedFacts
<1> QED BY <1>4, <1>5, <1>6 DEF SentTwice, Listens, At

LEMMA ReceivedReceives ==
    ASSUME IInv, Signalled, NEW m \in 0..2, NEW n \in 0..2, Received(m, n),
           RecvText("client"), call'["server"] = call["server"],
           ctl'["server"] = ctl["server"]
    PROVE  Received(m - 1, n + 1)' /\ m > 0 /\ n < 2
<1>1. At("client") = "recv" /\ At("server")' = At("server")
      /\ At("server") \notin {"none", "shell", "gone"} /\ Listens
  BY SignalledFacts DEF RecvText, Takes, At, Listens
<1>2. PICK a \in Datagram :
              /\ a.flag = "ACK" /\ a.ack = ctl'["client"].ack
              /\ At("client")' = "loop" /\ net["client"] # <<>>
              /\ net'["server"] = Append(net["server"], a)
              /\ net'["client"] = Tail(net["client"])
              /\ net["client"][1].flag = "DATA"
              /\ ctl'["client"].ack =
                    IF net["client"][1].seq = ctl["client"].ack
                    THEN ctl["client"].ack + Size("DATA") ELSE ctl["client"].ack
  BY <1>1, TextReceived
<1>3. /\ m > 0 /\ Len(net["client"]) = m
      /\ \A i \in 1..m : Outdated(i)
      /\ Len(net["server"]) = n
      /\ \A i \in 1..n : /\ net["server"][i].flag = "ACK"
                         /\ net["server"][i].ack = ctl["client"].ack
  <2>1. m > 0
    BY <1>2, ReceivedFacts
  <2> QED BY <1>1, <2>1 DEF Received, Echoes
<1>4. net["client"][1].seq # ctl["client"].ack
      /\ ~(At("server") = "close1" /\ m = 1)
  <2>1. Outdated(1)
    BY <1>3
  <2> QED BY <1>2, <1>3, <2>1 DEF Outdated
<1>5. ctl'["client"].ack = ctl["client"].ack /\ n < 2
  <2>1. n < 2
    BY <1>3 DEF Received
  <2> QED BY <1>2, <1>4, <2>1
<1>6. /\ Len(net'["client"]) = m - 1
      /\ \A i \in 1..(m - 1) : net'["client"][i] = net["client"][i + 1]
  BY <1>2, <1>3, EndsType, HeadTailProperties
<1>7. /\ Len(net'["server"]) = n + 1
      /\ \A i \in 1..(n + 1) : net'["server"][i] = IF i <= n THEN net["server"][i] ELSE a
  BY <1>2, <1>3, EndsType, OneLonger
<1>8. \A i \in 1..(m - 1) : Outdated(i)'
  <2> TAKE i \in 1..(m - 1)
  <2>1. Outdated(i + 1) /\ (i + 1 = m <=> i = m - 1)
    BY <1>3
  <2> QED BY <1>1, <1>3, <1>5, <1>6, <2>1 DEF Outdated
<1>9. Echoes(n + 1)'
  <2>1. Listens'
    BY <1>2 DEF Listens
  <2> QED BY <1>2, <1>3, <1>5, <1>7, <2>1 DEF Echoes
<1>10. /\ At("server")' = At("server") /\ call'["server"] = call["server"]
       /\ ctl'["client"].ack = ctl["client"].ack /\ ctl'["server"] = ctl["server"]
  BY <1>1, <1>5
<1>11. \/ /\ At("server") \in {"send", "loop"} /\ m < 2
          /\ m + n = IF At("server") = "send" THEN 2 ELSE 1
          /\ ctl["client"].ack = ctl["server"].seq
       \/ /\ At("server") = "close1" /\ m > 1 /\ m + n = 2
          /\ call["server"].i = 0 /\ call["server"].pkt.flag = "FIN"
          /\ ctl["client"].ack # ctl["server"].seq
  BY <1>3, <1>4 DEF Received
<1> QED BY <1>3, <1>5, <1>6, <1>8, <1>9, <1>10, <1>11 DEF Received

\* A key stroke goes behind the acknowledgements, ...
LEMMA ReceivedKeys ==
    ASSUME IInv, Signalled, NEW n \in 0..2, Received(0, n), ClientKeys,
           call'["server"] = call["server"], ctl'["server"] = ctl["server"]
    PROVE  Received(0, n)'
<1>1. /\ At("client") = "loop" /\ At("server")' = At("server")
      /\ At("server") \notin {"none", "shell", "gone"}
      /\ errno["client"] = "other" /\ net["client"] = <<>>
  BY SignalledFacts, ReceivedFacts DEF ClientKeys, At, Signalled
<1>2. PICK d \in Datagram :
              /\ d.flag = "DATA" /\ At("client")' = "send"
              /\ net'["server"] = Append(net["server"], d)
              /\ net'["client"] = net["client"] /\ ctl'["client"].ack = ctl["client"].ack
  BY <1>1, KeysSent
<1>3. /\ Len(net["server"]) = n
      /\ \A i \in 1..n : /\ net["server"][i].flag = "ACK"
                         /\ net["server"][i].ack = ctl["client"].ack
  BY <1>1 DEF Received, Echoes
<1>4. /\ Len(net'["server"]) = n + 1
      /\ \A i \in 1..(n + 1) : net'["server"][i] = IF i <= n THEN net["server"][i] ELSE d
  BY <1>2, <1>3, EndsType, OneLonger
<1>5. Echoes(n)'
  BY <1>1, <1>2, <1>3, <1>4 DEF Echoes
<1> QED BY <1>1, <1>2, <1>5 DEF Received

\* ... or is trapped with the FIN, ...
LEMMA ReceivedTraps ==
    ASSUME IInv, Signalled, NEW m \in 0..2, NEW n \in 0..2, Received(m, n), ClientKeys,
           net["client"] # <<>>, Head(net["client"]).flag = "FIN",
           call'["server"] = call["server"], ctl'["server"] = ctl["server"]
    PROVE  Trapped("server")'
<1>1. /\ At("client") = "loop" /\ At("server")' = At("server") /\ Listens
      /\ At("server") \notin {"none", "shell", "gone"} /\ errno["client"] = "other"
      /\ Peer("server") = "client"
  BY SignalledFacts, ProcessFacts DEF ClientKeys, At, Signalled, Listens
<1>2. PICK d \in Datagram :
              /\ d.flag = "DATA" /\ At("client")' = "send"
              /\ net'["server"] = Append(net["server"], d)
              /\ net'["client"] = net["client"] /\ ctl'["client"].ack = ctl["client"].ack
  BY <1>1, KeysSent
<1>3. Head(net["client"]) = net["client"][1] /\ 1 \in 1..m /\ m = Len(net["client"])
  BY EndsType, QueueType, ProcessFacts DEF Received
<1>4. At("server") = "close1" /\ m = 1
  <2>1. Outdated(1)
    BY <1>3 DEF Received
  <2> QED BY <1>3, <2>1 DEF Outdated
<1>5. /\ n = 1 /\ call["server"].i = 0 /\ call["server"].pkt.flag = "FIN"
      /\ ctl["client"].ack # ctl["server"].seq
  BY <1>4 DEF Received
<1>6. /\ Len(net["server"]) = 1 /\ net["server"][1].flag = "ACK"
      /\ net["server"][1].ack = ctl["client"].ack
  <2>1. \A i \in 1..n : /\ net["server"][i].flag = "ACK"
                        /\ net["server"][i].ack = ctl["client"].ack
    BY DEF Received, Echoes
  <2>2. Len(net["server"]) = n
    BY <1>1 DEF Received, Echoes
  <2> QED BY <1>5, <2>1, <2>2
<1>7. /\ Len(net'["server"]) = 2 /\ net'["server"][1] = net["server"][1]
      /\ net'["server"][2] = d
  <2>1. /\ Len(Append(net["server"], d)) = Len(net["server"]) + 1
        /\ \A i \in 1..Len(Append(net["server"], d)) :
              Append(net["server"], d)[i]
                = IF i <= Len(net["server"]) THEN net["server"][i] ELSE d
    BY EndsType, OneLonger
  <2> QED BY <1>2, <1>6, <2>1
<1>8. TextNext("server")'
  BY <1>2, <1>5, <1>6, <1>7 DEF TextNext, Answers
<1>9. NoStray("client")'
  <2>1. \A i \in 1..Len(net["client"]) : net["client"][i].flag = "FIN"
    BY <1>3, <1>4
  <2> QED BY <1>2, <2>1 DEF NoStray
<1> QED BY <1>1, <1>4, <1>5, <1>8, <1>9 DEF Trapped

\* ... or will be, with text.
LEMMA KeysStuck ==
    ASSUME IInv, ClientKeys, errno["client"] = "other",
           At("server") \notin {"none", "shell", "gone"},
           net["client"] # <<>>, Head(net["client"]).flag = "DATA"
    PROVE  Stuck("client")'
  BY KeysSent DEF Stuck, InSend, Sending

LEMMA ClientEnds ==
    ASSUME IInv, ClientLeaves \/ RecvEnd("client") PROVE Over("client")'
<1>1. /\ TypeOK /\ "client" \in Processes /\ ctl["client"] \in Control /\ net \in NetType
      /\ Socket("client") = "client"
  BY EndsType, ProcessFacts
<1>2. CASE ClientLeaves
  <2>1. CanSend("client", ctl["client"], net, "close1", "FIN", 0)
    BY <1>1, ProgramFacts DEF CanSend, Sending
  <2>2. Begun("client", ctl["client"], net, "close1", "FIN", 0)
    BY <1>1, <1>2, <2>1, SendsBegun DEF ClientLeaves
  <2> QED BY <2>2, ThenFacts DEF Begun, AfterFailure, Over
<1>3. CASE RecvEnd("client")
  <2>1. net["client"] # <<>>
    BY <1>1, <1>3 DEF RecvEnd, Takes
  <2>2. CanSend("client", Noted("client"), Acked("client"), "close2", "FIN", 0)
    BY <1>1, <2>1, NotedFacts, AckedFacts, ProgramFacts DEF CanSend, Sending
  <2>3. Begun("client", Noted("client"), Acked("client"), "close2", "FIN", 0)
    BY <1>1, <1>3, <2>2, SendsBegun DEF RecvEnd
  <2> QED BY <2>3, ThenFacts DEF Begun, AfterFailure, Over
<1> QED BY <1>2, <1>3

LEMMA SignalledFrom ==
    ASSUME Signalled, SignalSpent', todo'["server"] = todo["server"], errno' = errno,
           SentTwice' \/ (\E m, n \in 0..2 : Received(m, n)')
    PROVE  Signalled'
<1>1. (\E m, n \in 0..2 : Received(m, n)') => ReceivedOne'
  BY DEF ReceivedOne
<1> QED BY <1>1 DEF Signalled

\* So much for the client, and for the server.
LEMMA SignalledLoop ==
    ASSUME IInv, Typed', Signalled, SignalSpent', Acts("client"), At("client") = "loop"
    PROVE  Signalled' \/ OneLeaves' \/ Over("client")' \/ Stuck("client")'
<1>1. /\ "client" \in Sockets /\ Peer("client") = "server" /\ TypeOK
      /\ "client" \in Processes /\ "server" \in Sockets /\ Listens
      /\ At("server") \notin {"none", "shell", "gone"} /\ errno["client"] = "other"
  BY SignalledFacts, ProcessFacts, IInvParts DEF Signalled, Listens
<1>2. /\ call'["server"] = call["server"] /\ ctl'["server"] = ctl["server"]
      /\ todo'["server"] = todo["server"]
  BY <1>1, ActsApart
<1>3. CASE Poll("client") \/ RecvCall("client")
  <2>1. /\ net' = net /\ ctl' = ctl /\ errno' = errno
        /\ Goto("client", "loop") \/ Goto("client", "recv")
    BY <1>3 DEF Poll, RecvCall
  <2>2. Listens'
    BY <1>1, <2>1, GotoFacts DEF Places, Receiving, Resting, Listens
  <2> QED BY <1>1, <1>2, <2>1, <2>2, SignalledSame
<1>4. CASE ClientLeaves
  BY <1>4, ClientEnds
<1>5. CASE ClientKeys
  <2>1. errno' = errno
    BY <1>5 DEF ClientKeys
  <2>2. CASE net["client"] # <<>> /\ Head(net["client"]).flag = "DATA"
    BY <1>1, <1>5, <2>2, KeysStuck
  <2>3. CASE net["client"] # <<>> /\ Head(net["client"]).flag = "FIN"
    <3>1. ~SentTwice
      <4> DEFINE d == call["server"].pkt
      <4>1. <<d, d>>[1] = d
        OBVIOUS
      <4> QED BY <1>1, <2>3, <4>1 DEF SentTwice, Listens
    <3>2. PICK m \in 0..2, n \in 0..2 : Received(m, n)
      BY <3>1 DEF Signalled, ReceivedOne
    <3>3. Trapped("server")'
      BY <1>2, <1>5, <2>3, <3>2, ReceivedTraps
    <3> QED BY <1>1, <3>3 DEF OneLeaves
  <2>4. CASE net["client"] = <<>>
    <3>1. ~SentTwice
      <4> DEFINE d == call["server"].pkt
      <4>1. <<d, d>> # <<>>
        OBVIOUS
      <4> QED BY <2>4, <4>1 DEF SentTwice
    <3>2. PICK m \in 0..2, n \in 0..2 : Received(m, n)
      BY <3>1 DEF Signalled, ReceivedOne
    <3>3. m = 0
      BY <2>4, <3>2, ReceivedFacts
    <3>4. Received(0, n)'
      BY <1>2, <1>5, <3>2, <3>3, ReceivedKeys
    <3>5. 0 \in 0..2
      OBVIOUS
    <3> QED BY <1>2, <2>1, <3>4, <3>5, SignalledFrom
  <2> QED BY <1>1, <2>2, <2>3, <2>4, SignalledFacts
<1>6. CASE ClientBreaks
  <2>1. Goto("client", "exit") /\ "exit" \in {"drain", "exit", "kill"}
    BY <1>6 DEF ClientBreaks
  <2> QED BY <1>1, <2>1, OverGoes
<1> QED BY <1>1, <1>3, <1>4, <1>5, <1>6, LoopActs

LEMMA SignalledClient ==
    ASSUME IInv, Typed', Signalled, SignalSpent', Acts("client"), ~Late'
    PROVE  Signalled' \/ OneLeaves' \/ Over("client")' \/ Stuck("client")'
<1>1. /\ "client" \in Sockets /\ Peer("client") = "server" /\ TypeOK /\ ~Quiet
      /\ Socket("client") = "client"
      /\ At("client") \in {"loop", "recv", "send", "sendName"}
  BY SignalledFacts, ProcessFacts, IInvParts
<1>2. /\ call'["server"] = call["server"] /\ ctl'["server"] = ctl["server"]
      /\ todo'["server"] = todo["server"]
  BY <1>1, ActsApart
<1>3. CASE At("client") = "recv"
  <2>1. net["client"] # <<>>
    BY <1>3, IInvParts DEF SeenStays
  <2>2. RecvText("client") \/ RecvEnd("client")
    BY <1>1, <1>3, RecvActs, OnTime
  <2>3. CASE RecvText("client")
    <3>1. errno' = errno
      BY <2>3 DEF RecvText
    <3>2. CASE SentTwice
      <4>1. Received(1, 1)' /\ 1 \in 0..2
        BY <1>2, <2>3, <3>2, TwiceReceives
      <4> QED BY <1>2, <3>1, <4>1, SignalledFrom
    <3>3. CASE ReceivedOne
      <4>1. PICK m \in 0..2, n \in 0..2 : Received(m, n)
        BY <3>3 DEF ReceivedOne
      <4>2. Received(m - 1, n + 1)' /\ m > 0 /\ n < 2
        BY <1>2, <2>3, <4>1, ReceivedReceives
      <4>3. m - 1 \in 0..2 /\ n + 1 \in 0..2
        BY <4>2
      <4> QED BY <1>2, <3>1, <4>2, <4>3, SignalledFrom
    <3> QED BY <3>2, <3>3 DEF Signalled
  <2> QED BY <2>2, <2>3, ClientEnds
<1>4. CASE At("client") \in {"send", "sendName"}
  <2>1. InSend("client")
    BY <1>4 DEF InSend, Sending
  <2>2. Answer("client")
    BY <1>1, <2>1, SenderActs, OnTime
  <2>3. CASE SentTwice
    <3>1. SentTwice' /\ errno' = errno
      BY <2>2, <2>3, TwiceAnswered DEF Answer
    <3> QED BY <1>2, <3>1, SignalledFrom
  <2>4. ~ReceivedOne
    <3> SUFFICES ASSUME NEW m \in 0..2, NEW n \in 0..2, Received(m, n) PROVE FALSE
      BY DEF ReceivedOne
    <3>1. ~Listens
      BY <1>4 DEF Listens
    <3>2. net["client"] = <<>>
      BY <3>1, ReceivedFacts
    <3> QED BY <1>1, <2>2, <3>2 DEF Answer
  <2> QED BY <2>3, <2>4 DEF Signalled
<1> QED BY <1>1, <1>3, <1>4, SignalledLoop

LEMMA SignalledServer ==
    ASSUME N_ATTEMPT > 1, IInv, Typed', Signalled, SignalSpent', Acts("server"), ~Late'
    PROVE  Signalled' \/ OneLeaves'
<1>1. ReceivedOne
  BY TwiceServer DEF Signalled
<1>2. PICK m \in 0..2, n \in 0..2 : Received(m, n)
  BY <1>1 DEF ReceivedOne
<1>3. At("server") \in {"send", "loop", "close1"} /\ "server" \in Sockets
  BY SignalledFacts, ProcessFacts
<1>4. CASE At("server") = "send"
  <2>1. Received(m, n - 1)' /\ n > 0 /\ todo' = todo /\ errno' = errno
    BY <1>2, <1>4, ReceivedAnswer
  <2>2. n - 1 \in 0..2
    BY <2>1
  <2> QED BY <2>1, <2>2, SignalledFrom
<1>5. CASE At("server") = "loop"
  <2>1. /\ Received(m + 1, n)' \/ Trapped("server")'
        /\ m < 2 /\ todo' = todo /\ errno' = errno
    BY <1>2, <1>5, ReceivedLeaves
  <2>2. m + 1 \in 0..2
    BY <2>1
  <2> QED BY <1>3, <2>1, <2>2, SignalledFrom DEF OneLeaves
<1>6. CASE At("server") = "close1"
  <2>1. Waiting("server")'
    BY <1>2, <1>6, ReceivedCloses
  <2> QED BY <1>3, <2>1 DEF OneLeaves
<1> QED BY <1>3, <1>4, <1>5, <1>6

LEMMA SignalledKeeps ==
    ASSUME N_ATTEMPT > 1, IInv, Typed', Next, ~Excused', Signalled
    PROVE  Signalled' \/ OneLeaves' \/ AllDone'
<1>1. /\ ~GaveUp' /\ ~Lost' /\ ~Late' /\ Sockets = {"client", "server"}
      /\ "client" \in Sockets /\ "server" \in Sockets
  BY ProcessFacts DEF Excused
<1>2. ~Network
  BY <1>1, OtherSocket, MishapNoted DEF Network, Drop, Fault, Lost
<1>3. SignalSpent'
  BY SignalStays DEF Signalled
<1>4. Done("server")'
  BY <1>1, SignalledFacts, DoneKeeps
<1>5. CASE Aside
  <2>1. Bystand /\ At("client") # "gone" /\ At("server") # "gone"
    BY <1>1, <1>5, AsideFacts, SignalledFacts
  <2>2. /\ call'["client"] = call["client"] /\ ctl'["client"] = ctl["client"]
        /\ errno'["client"] = errno["client"] /\ net'["client"] = net["client"]
    BY <1>1, <2>1 DEF Bystand
  <2>3. /\ call'["server"] = call["server"] /\ ctl'["server"] = ctl["server"]
        /\ errno'["server"] = errno["server"] /\ net'["server"] = net["server"]
        /\ todo'["server"] = todo["server"]
    BY <1>1, <2>1 DEF Bystand
  <2> QED BY <1>3, <2>2, <2>3, SignalledSame
<1>6. CASE Acts("client")
  <2>1. Over("client")' \/ Stuck("client")' => AllDone'
    BY <1>1, <1>4 DEF AllDone, Done
  <2> QED BY <1>1, <1>3, <1>6, <2>1, SignalledClient
<1>7. CASE Acts("server")
  BY <1>1, <1>3, <1>7, SignalledServer
<1> QED BY <1>1, <1>2, <1>5, <1>6, <1>7, NextSplit

-----------------------------------------------------------------------------
(* Why they are in step until then, and what ends a session.                *)

LEMMA Twice ==
    ASSUME NEW S, NEW d \in S PROVE Append(<<d>>, d) = <<d, d>>
<1>1. /\ <<d>> \in Seq(S) /\ Len(<<d>>) = 1 /\ <<d>>[1] = d
      /\ <<d, d>> \in Seq(S) /\ Len(<<d, d>>) = 2 /\ <<d, d>>[1] = d /\ <<d, d>>[2] = d
  OBVIOUS
<1>2. /\ Append(<<d>>, d) \in Seq(S) /\ Len(Append(<<d>>, d)) = 2
      /\ Append(<<d>>, d)[1] = d /\ Append(<<d>>, d)[2] = d
  BY <1>1, AppendProperties
<1>3. \A i \in 1..2 : Append(<<d>>, d)[i] = <<d, d>>[i]
  BY <1>1, <1>2
<1> QED BY <1>1, <1>2, <1>3, SeqEqual

LEMMA LockInterrupted ==
    ASSUME N_ATTEMPT > 1, IInv, InLockstep, SignalIsKids, PtyServed, SendInterrupted
    PROVE  Signalled'
<1> DEFINE d == call["server"].pkt
<1>1. /\ TypeOK /\ "server" \in Sockets /\ "client" \in Sockets /\ "server" \in Processes
      /\ Peer("server") = "client" /\ Peer("client") = "server"
      /\ net \in NetType /\ d \in Datagram /\ net["client"] \in Seq(Datagram)
      /\ WireInStep /\ ControlsInStep /\ "kid" \in Processes /\ "kid" # "server"
      /\ errno["client"] = "other" /\ errno["server"] = "other"
      /\ errno \in [Processes -> {"EAGAIN", "other"}]
  BY LockFacts, ProcessFacts, EndsType, TypeParts
<1>2. /\ InSend("server") /\ net["server"] = <<>>
      /\ chld.raised /\ ~chld'.raised /\ chld'.exit
      /\ errno' = [errno EXCEPT !["server"] = "other"]
      /\ Retry("server", net) /\ ctl' = ctl /\ todo' = todo
  BY HandlesFacts DEF SendInterrupted, Interrupted
<1>3. Gone("kid")
  BY <1>2 DEF SignalIsKids
<1>4. At("server") = "send"
  <2>1. At("server") # "sendKey"
    BY <1>3, IInvParts DEF KidInStep, Gone
  <2> QED BY <1>2, <2>1, LockFacts
<1>5. /\ OnItsWay("server") /\ ~OnItsWay("client") /\ d.flag = "DATA"
      /\ call["server"].i = 0 /\ ctl["server"].seq = d.seq + Size("DATA")
      /\ ctl["client"].ack = d.seq /\ Coming("client") = <<d>>
  <2>1. OnItsWay("server")
    BY <1>1, <1>2, Expected
  <2>2. /\ ~OnItsWay("client") /\ d.flag = "DATA"
        /\ call["server"].i = 0 /\ ctl["server"].seq = d.seq + Size("DATA")
        /\ ctl["client"].ack = d.seq
    BY <1>1, <1>2, <2>1, WireFacts
  <2>3. Coming("client") = <<d>>
    BY <1>1, <2>1, WireFacts
  <2> QED BY <2>1, <2>2, <2>3
<1>6. /\ call' = [call EXCEPT !["server"].i = @ + 1]
      /\ net' = Put(net, "client", d)
  BY <1>1, <1>2, <1>5 DEF Retry
<1>7. /\ At("server")' = "send" /\ call'["server"].pkt = d
      /\ call'["client"] = call["client"] /\ call'["kid"] = call["kid"]
  BY <1>1, <1>4, <1>6, TypeParts, ProcessFacts DEF At, Call
<1>8. SignalSpent' /\ errno'["client"] = "other" /\ errno'["server"] = "other"
  BY <1>1, <1>2, <1>3, <1>7, ProcessFacts DEF SignalSpent, Gone, At
<1>9. todo'["server"] = {}
  <2>1. todo["server"] \subseteq {"socket", "pty"}
    BY IInvParts DEF InProgram
  <2>2. "pty" \notin todo["server"]
    BY <1>4 DEF PtyServed
  <2>3. "socket" \notin todo["server"]
    BY <1>1, <1>2, LockFacts DEF SeenInStep
  <2> QED BY <1>2, <2>1, <2>2, <2>3
<1>10. /\ net'["client"] = Append(net["client"], d) /\ net'["server"] = <<>>
  <2>1. At("client") \notin {"none", "shell", "gone"}
    BY <1>1, LockAlive
  <2>2. /\ net \in NetType /\ d \in Datagram /\ "client" \in Sockets
        /\ Peer("client") = "server" /\ net["server"] = <<>>
        /\ net' = Put(net, "client", d)
    BY <1>1, <1>2, <1>6
  <2> HIDE DEF d
  <2> QED BY <2>1, <2>2, PutAlive
<1>11. CASE InSend("client")
  <2>1. /\ net["client"] # <<>> /\ Answers("client", Head(net["client"]))
        /\ Tail(net["client"]) = <<d>>
    BY <1>1, <1>5, <1>11, WireFacts
  <2>2. At("client") \in {"send", "sendName"}
    BY <1>1, <1>4, <1>11, LockFacts DEF PlacesInStep, InSend, Sending
  <2> HIDE DEF d
  <2>3. /\ net'["client"] # <<>> /\ Head(net'["client"]) = Head(net["client"])
        /\ Tail(net'["client"]) = Append(<<d>>, d)
    <3>1. net["client"] \in Seq(Datagram) /\ d \in Datagram /\ net["client"] # <<>>
      BY <1>1, <2>1
    <3>2. /\ Append(net["client"], d) # <<>>
          /\ Head(Append(net["client"], d)) = Head(net["client"])
          /\ Tail(Append(net["client"], d)) = Append(Tail(net["client"]), d)
      BY <3>1, OneLonger
    <3> QED BY <1>10, <2>1, <3>2
  <2>4. Append(<<d>>, d) = <<d, d>>
    BY <1>1, Twice
  <2>5. /\ Head(net'["client"]).flag = "ACK"
        /\ Head(net'["client"]).ack = ctl'["client"].seq
    BY <1>2, <2>1, <2>3 DEF Answers
  <2>6. SentTwice'
    BY <1>2, <1>5, <1>7, <1>10, <2>2, <2>3, <2>4, <2>5 DEF SentTwice, At, Answers
  <2> QED BY <1>8, <1>9, <2>6 DEF Signalled
<1>12. CASE ~InSend("client")
  <2>1. net["client"] = <<d>>
    BY <1>1, <1>5, <1>12, WireFacts
  <2>2. Listens
    BY <1>1, <1>4, <1>12, LockFacts DEF PlacesInStep, InSend, Sending, Listens
  <2> HIDE DEF d
  <2>3. Append(<<d>>, d) = <<d, d>>
    BY <1>1, Twice
  <2>4. net'["client"] = <<d, d>>
    BY <1>10, <2>1, <2>3
  <2>5. SentTwice'
    BY <1>2, <1>5, <1>7, <1>10, <2>2, <2>4 DEF SentTwice, Listens, At
  <2> QED BY <1>8, <1>9, <2>5 DEF Signalled
<1> QED BY <1>11, <1>12

LEMMA NotZero ==
    ASSUME \/ mishaps' = mishaps
           \/ \E q, what : what # "zero" /\ Mishap(q, what)
    PROVE  Zero' => Zero
<1>1. \A d \in mishaps' : d \in mishaps \/ d[2] # "zero"
  BY DEF Mishap
<1>2. \A d \in Processes \X {"zero"} : d[2] = "zero"
  OBVIOUS
<1> QED BY <1>1, <1>2 DEF Zero, Mishaps

\* What ended with an acknowledgement.
LEMMA ZeroBy ==
    ASSUME IInv, Next, Zero', ~Zero
    PROVE  \E q \in Sockets : RecvEnd(q) /\ Arrived(q).flag = "ACK"
<1>1. TypeOK
  BY IInvParts
<1>2. ASSUME NEW q \in Processes, Step(q)
      PROVE  RecvEnd(q) /\ Arrived(q).flag = "ACK"
  <2>1. ~Answer(q)
    <3> SUFFICES ASSUME Answer(q) PROVE FALSE
      OBVIOUS
    <3>1. Arrived(q) \in Datagram
      BY <1>1, ArrivedFacts DEF Answer
    <3>2. Arrived(q).flag # "zero"
      BY <3>1 DEF Datagram
    <3> QED BY <3>2, NotZero DEF Answer
  <2>5. ~SendTimeout(q) /\ ~RecvTimeout(q)
    <3>1. ~Expires(q)
      BY NotZero DEF Expires, Fault
    <3> QED BY <3>1 DEF SendTimeout, RecvTimeout
  <2>2. RecvEnd(q)
    BY <1>2, <2>1, <2>5, NotZero
       DEF Step, RecvText, Drain, Poll, RecvCall, Exit, past
  <2>3. Arrived(q).flag # "DATA" /\ Arrived(q).flag # "FIN"
    BY <2>2, NotZero DEF RecvEnd
  <2>4. Arrived(q) \in Datagram
    BY <1>1, <2>2, ArrivedFacts DEF RecvEnd, Takes
  <2> QED BY <2>2, <2>3, <2>4 DEF Datagram
<1>3. ~Step("kid")
  BY <1>2, IInvParts, ProcessFacts, ProgramFacts DEF RecvEnd, Takes, InProgram
<1>4. ClientStep => Step("client")
  BY NotZero DEF ClientStep, ClientSendKey, ClientRecvKey, ClientKeys, ClientLeaves, past
<1>5. ServerStep => Step("server")
  BY NotZero DEF ServerStep, ServerRecvKey, RecvName, ServerTest,
     ServerLeaves, PollTimeout, ServerOutput, PollInterrupted, SendInterrupted,
     RecvInterrupted, ServerWriteFails, ServerKills, past
<1>6. ~Surroundings
  BY NotZero DEF Surroundings, UserTypes, KeyFails, LoginSucceeds, LoginFails,
                 ShellWrites, ShellExits, ShellStops, ClientBreaks, Fault, past
<1>7. ~Network
  BY NotZero DEF Network, Drop, Fault
<1>8. ~SigChld
  BY NotZero DEF SigChld, past
<1> QED BY <1>2, <1>3, <1>4, <1>5, <1>6, <1>7, <1>8, ProcessFacts DEF Next, KidStep

\* No session does.
LEMMA NoneEnds ==
    ASSUME IInv, InLockstep \/ Signalled \/ OneLeaves \/ AllDone,
           NEW q \in Sockets, RecvEnd(q), Arrived(q).flag = "ACK"
    PROVE  FALSE
<1>1. /\ TypeOK /\ At(q) = "recv" /\ net[q] # <<>> /\ ~InSend(q) /\ Socket(q) = q
      /\ Head(net[q]).flag = "ACK" /\ net[q][1].flag = "ACK" /\ 1 \in 1..Len(net[q])
      /\ Peer(q) \in Sockets /\ \A p \in Sockets : p = q \/ p = Peer(q)
      /\ Peer(Peer(q)) = q
  <2>1. At(q) = "recv" /\ net[q] # <<>> /\ Socket(q) = q
    BY OtherSocket DEF RecvEnd, Takes
  <2>2. ~InSend(q)
    BY <2>1 DEF InSend, Sending
  <2> QED BY <2>1, <2>2, IInvParts, OtherSocket, QueueType DEF Arrived
<1>2. ~InLockstep
  BY <1>1, Comes, LockFacts
<1>3. ~Signalled
  <2> SUFFICES ASSUME Signalled PROVE FALSE
    OBVIOUS
  <2>1. q = "client"
    BY <1>1, SignalledFacts, OtherSocket
  <2> QED BY <1>1, <2>1, SignalledFacts DEF Listens
<1>4. ~NoStray(q)
  BY <1>1 DEF NoStray
<1>5. ~OneLeaves
  <2> SUFFICES ASSUME NEW p \in Sockets, Waiting(p) \/ Trapped(p) \/ Departed(p)
               PROVE  FALSE
    BY DEF OneLeaves
  <2>1. p = Peer(q)
    BY <1>1 DEF Waiting, Trapped, Departed
  <2>2. Waiting(p)
    BY <1>1, <1>4, <2>1 DEF Trapped, Departed
  <2>3. Arrived(q).flag = "FIN"
    BY <1>1, <2>1, <2>2, WaitingFacts
  <2> QED BY <2>3
<1>6. ~AllDone
  BY <1>1 DEF AllDone, Done, Over, Stuck, Going
<1> QED BY <1>2, <1>3, <1>5, <1>6

\* And one of the four states becomes another.
LEMMA ShapeKept ==
    ASSUME N_ATTEMPT > 1, IInv, IInv', Next, ~Excused', SignalIsKids, PtyServed,
           InLockstep \/ Signalled \/ OneLeaves \/ AllDone
    PROVE  InLockstep' \/ Signalled' \/ OneLeaves' \/ AllDone'
<1>1. Typed' /\ ~GaveUp' /\ ~Lost' /\ ~Late'
  BY NextTyped, IInvParts DEF Excused
<1>2. CASE InLockstep
  <2>1. ~Network
    BY <1>1, MishapNoted, OtherSocket DEF Network, Drop, Fault, Lost
  <2>2. CASE Aside
    BY <1>1, <1>2, <2>2, AsideFacts, LockStays
  <2>3. CASE SendInterrupted
    BY <1>2, <2>3, LockInterrupted
  <2>4. ASSUME NEW q \in Sockets, Acts(q), ~SendInterrupted
        PROVE  InLockstep' \/ OneLeaves' \/ AllDone'
    <3>1. InLockstep' \/ AboutToCross' \/ OneLeaves'
      BY <1>1, <1>2, <2>4, LockActs
    <3>2. AboutToCross' => AllDone'
      BY DEF AboutToCross, AllDone, Done
    <3> QED BY <3>1, <3>2
  <2> QED BY <2>1, <2>2, <2>3, <2>4, NextSplit
<1>3. CASE Signalled
  BY <1>1, <1>3, SignalledKeeps
<1>4. CASE OneLeaves
  BY <1>1, <1>4, LeavesKeeps
<1>5. CASE AllDone
  BY <1>1, <1>5, DoneKeeps DEF AllDone
<1> QED BY <1>2, <1>3, <1>4, <1>5

LEMMA EarlyStep == N_ATTEMPT > 1 /\ IInv /\ EarlyInv /\ [Next]_vars => EarlyInv'
<1> SUFFICES ASSUME N_ATTEMPT > 1, IInv, EarlyInv, [Next]_vars PROVE EarlyInv'
  OBVIOUS
<1>1. IInv' /\ Typed'
  BY IInvStep, NextTyped, IInvParts
<1>2. CASE Next
  <2> SUFFICES ASSUME ~Excused' PROVE EarlyInv'
    BY DEF EarlyInv
  <2>1. ~Excused
    <3>1. mishaps \subseteq mishaps' /\ (GaveUp => GaveUp')
      BY <1>1, <1>2, MeddledStays
    <3> QED BY <3>1 DEF Excused, Crossed, Lost, Late, Stopped, Mishaps
  <2>2. /\ ~Zero /\ SignalIsKids /\ PtyServed
        /\ InLockstep \/ Signalled \/ OneLeaves \/ AllDone
    BY <2>1 DEF EarlyInv, Zero
  <2>3. ~Zero'
    BY <1>2, <2>2, ZeroBy, NoneEnds
  <2>4. SignalIsKids' /\ PtyServed'
    BY <1>1, <1>2, <2>2, SignalStays, PtyStays DEF Excused
  <2>5. InLockstep' \/ Signalled' \/ OneLeaves' \/ AllDone'
    BY <1>1, <1>2, <2>2, ShapeKept
  <2> QED BY <2>3, <2>4, <2>5 DEF EarlyInv, Zero
<1>3. CASE UNCHANGED vars
  <2>1. UNCHANGED <<call, ctl, net, errno, todo, chld, pos, garbled, mishaps>>
    BY <1>3 DEF vars, rudp, cipher, past
  <2>2. (Excused <=> Excused') /\ (Zero <=> Zero')
    BY <2>1 DEF Excused, Crossed, Lost, Late, Stopped, GaveUp, Mishaps, Zero
  <2>3. (SignalIsKids <=> SignalIsKids') /\ (PtyServed <=> PtyServed')
        /\ (SignalSpent <=> SignalSpent')
    BY <2>1 DEF SignalIsKids, PtyServed, SignalSpent, Gone, At
  <2>4. Signalled => Signalled'
    BY <2>1, <2>3, SignalledSame DEF Signalled
  <2>5. OneLeaves => OneLeaves'
    <3>1. \A p : NoStray(p) <=> NoStray(p)'
      BY <2>1 DEF NoStray, InSend, At, Answers
    <3>2. \A p : Waiting(p) <=> Waiting(p)'
      BY <2>1, <2>3 DEF Waiting, Over, InSend, At, Answers
    <3>3. \A p : TextNext(p) <=> TextNext(p)'
      BY <2>1 DEF TextNext, Stuck, InSend, At, Answers
    <3>4. \A p : At(p) = At(p)'
      BY <2>1 DEF At
    <3> QED BY <2>1, <3>1, <3>2, <3>3, <3>4 DEF OneLeaves, Trapped, Departed
  <2>6. AllDone => AllDone'
    BY <2>1, <2>3 DEF AllDone, Done, Over, Stuck, Going, InSend, At
  <2>7. InLockstep => InLockstep'
    BY <2>1, LockFacts, LockStays, OtherSocket DEF Bystand
  <2> QED BY <2>2, <2>3, <2>4, <2>5, <2>6, <2>7 DEF EarlyInv, Zero
<1> QED BY <1>2, <1>3

LEMMA EarlyInit == Init => EarlyInv
<1> SUFFICES ASSUME Init PROVE EarlyInv
  OBVIOUS
<1>1. ~chld.raised /\ ~chld.exit /\ mishaps = {} /\ ~garbled /\ At("server") = "recvKey"
      /\ ctl["kid"].seq = Hdr
  BY ProcessFacts DEF Init, At, Place
<1>2. InLockstep \/ AboutToCross \/ OneIsOver
  <2>1. ~Meddled
    BY <1>1, SizeType DEF Meddled, Crossed, Lost, Late, GaveUp, Mishaps
  <2> QED BY <2>1, GarbleInit DEF GarbleInv
<1>3. \A p \in Sockets : At(p) \in {"start", "recvKey"}
  BY DEF Init, At, Place, Sockets
<1>4. InLockstep
  BY <1>2, <1>3, ProcessFacts DEF AboutToCross, OneIsOver, Stuck, InSend, Sending, Over
<1>5. ~Zero /\ SignalIsKids /\ PtyServed
  BY <1>1 DEF Zero, Mishaps, SignalIsKids, PtyServed
<1> QED BY <1>4, <1>5 DEF EarlyInv

LEMMA EarlyEnough == EarlyInv => EarlyEndHasCause
  BY DEF EarlyInv, Excused, Zero, EarlyEndHasCause

\* Where a sender tries more than once, no session is ever ended by an
\* acknowledgement that rudp_recv took for a FIN, whatever the numbers of the
\* messages, the key strokes and the losses are, unless texts crossed, a
\* datagram was lost, an answer came too late for a timeout, the kid gave up
\* on the server's socket, or it was stopped.
THEOREM EarlyEndExplained == N_ATTEMPT > 1 => (Spec => []EarlyEndHasCause)
<1> SUFFICES ASSUME N_ATTEMPT > 1 PROVE Spec => []EarlyEndHasCause
  OBVIOUS
<1>1. Init => IInv /\ EarlyInv
  BY IInvInit, EarlyInit
<1>2. (IInv /\ EarlyInv) /\ [Next]_vars => (IInv /\ EarlyInv)'
  BY IInvStep, EarlyStep
<1>3. IInv /\ EarlyInv => EarlyEndHasCause
  BY EarlyEnough
<1> QED BY <1>1, <1>2, <1>3, PTL DEF Spec

=============================================================================
