---------------------------- MODULE RudpHandshake ----------------------------
(***************************************************************************)
(* How an association of Rudp comes to be: rudp_connect in each client     *)
(* process against rudp_accept in the one process of the UDP service,      *)
(* src/src/rudp/rudp.c, called from the loop of ssh_server.  The service   *)
(* handles one handshake at a time: it takes a SYN, answers from a socket  *)
(* of its own for that client, waits for the client's ACK there, forks a   *)
(* child to serve the client on that socket and returns to listening.      *)
(* No sequence number of a handshake datagram is ever read, so a datagram  *)
(* is its flag and where it came from.                                     *)
(***************************************************************************)
EXTENDS Integers, Sequences, FiniteSets, SequencesExt

CONSTANTS
    N_ATTEMPT,   \* tries of each loop (3 in rudp.h)
    Hdr,         \* MAX_ANSWER, the size of a header
    Clients,     \* the client processes; a second run is another client
    FaultKinds,  \* which faults may happen
    MaxFaults    \* bound: how many of them in one behaviour

AllFaults == {"drop", "dup", "late", "eintr", "sendfail", "sysfail", "idle"}

ASSUME HandshakeAssumption ==
    /\ N_ATTEMPT \in Nat \ {0}
    /\ Hdr \in Nat \ {0}
    /\ IsFiniteSet(Clients)
    /\ FaultKinds \subseteq AllFaults
    /\ MaxFaults \in Nat

VARIABLES
    client,    \* client[c]: where c is in rudp_connect, its try and its packet
    peer,      \* peer[c]: connected_address, the port that answered (0: none)
    control,   \* control[c]: c's struct rudp_header control
    listener,  \* where the service is in rudp_accept, its try, its client
    lcontrol,  \* the control of the service process
    listenq,   \* the datagrams on their way to the listening socket
    portq,     \* portq[k]: the datagrams on their way to accepted socket k
    clientq,   \* clientq[c]: the datagrams on their way to c's socket
    open,      \* the accepted sockets that some process of the service holds
    used,      \* how many accepted sockets have been opened
    sessions,  \* the children: their socket, client and control
    faults,    \* faults used so far
    harmed     \* history: the clients a fault has touched

vars == <<client, peer, control, listener, lcontrol, listenq, portq, clientq,
          open, used, sessions, faults, harmed>>

serverVars == <<listener, lcontrol, open, used, sessions>>
clientVars == <<client, peer, control>>

\* A client sends to the listening socket once per try, and every duplicate
\* and every interrupted wait may open one more socket.
Ports == 1..(N_ATTEMPT * Cardinality(Clients) + MaxFaults)

Header == [seq : Nat, ack : Nat]
Zero == [seq |-> 0, ack |-> 0]

Listening(i) == [at |-> "listen", i |-> i]
Dead == [at |-> "dead"]

-----------------------------------------------------------------------------
(* Faults: each kind is allowed or not, and together they have a budget.   *)

FaultOf(kind, cs) ==
    /\ kind \in FaultKinds
    /\ faults < MaxFaults
    /\ faults' = faults + 1
    /\ harmed' = harmed \cup cs

Fault(kind, c) == FaultOf(kind, {c})

NoFault == UNCHANGED <<faults, harmed>>

-----------------------------------------------------------------------------
(* rudp_connect.                                                           *)

Connect(c) ==
    /\ client[c].at = "idle"
    /\ client' = [client EXCEPT ![c] = [at |-> "sendto", i |-> 0, pkt |-> "SYN"]]
    /\ control' = [control EXCEPT ![c] = [seq |-> Hdr, ack |-> 0]]
    /\ NoFault
    /\ UNCHANGED <<peer, serverVars, listenq, portq, clientq>>

ConnectFails(c) == client' = [client EXCEPT ![c].at = "failed"]

MoreTries(i) == i + 1 < N_ATTEMPT

\* The buffer is not rebuilt: a try after a failed ACK sends that ACK again,
\* to the listening socket.
ConnectAgain(c, pkt) ==
    IF MoreTries(client[c].i)
    THEN client' = [client EXCEPT
                      ![c] = [at |-> "sendto", i |-> @.i + 1, pkt |-> pkt]]
    ELSE ConnectFails(c)

\* To a service that has exited the datagram is lost.
SendSyn(c) ==
    /\ client[c].at = "sendto"
    /\ client' = [client EXCEPT ![c].at = "wait"]
    /\ listenq' = IF listener = Dead
                  THEN listenq
                  ELSE Append(listenq, [flag |-> client[c].pkt, from |-> c])
    /\ NoFault
    /\ UNCHANGED <<peer, control, serverVars, portq, clientq>>

SendSynFails(c) ==
    /\ client[c].at = "sendto"
    /\ Fault("sendfail", c)
    /\ ConnectFails(c)
    /\ UNCHANGED <<peer, control, serverVars, listenq, portq, clientq>>

\* Mutant of ConnectedControl: line 485 is missing.
StaleAck(ctl) == ctl

ConnectedControl(ctl) == [ctl EXCEPT !.ack = Hdr]

\* Any ACK|SYN will do, and one that is none only if it came from another
\* host.  Every socket of the service is on the host the client addressed.
TakesAnswer(c) ==
    /\ client[c].at = "wait"
    /\ clientq[c] # <<>>
    /\ clientq' = [clientq EXCEPT ![c] = Tail(@)]
    /\ peer' = [peer EXCEPT ![c] = Head(clientq[c])]
    /\ control' = [control EXCEPT ![c] = ConnectedControl(@)]

SendAck(c) ==
    /\ TakesAnswer(c)
    /\ client' = [client EXCEPT ![c].at = "connected"]
    /\ portq' = IF Head(clientq[c]) \in open
                THEN [portq EXCEPT ![Head(clientq[c])] = Append(@, c)]
                ELSE portq
    /\ NoFault
    /\ UNCHANGED <<serverVars, listenq>>

SendAckFails(c) ==
    /\ TakesAnswer(c)
    /\ Fault("sendfail", c)
    /\ ConnectAgain(c, "ACK")
    /\ UNCHANGED <<serverVars, listenq, portq>>

\* The five seconds pass with nothing of c's on its way, or too early.
ConnectTimeout(c) ==
    /\ client[c].at = "wait"
    /\ clientq[c] = <<>>
    /\ IF \E d \in ToSet(listenq) : d.from = c
       THEN Fault("late", c)
       ELSE NoFault
    /\ ConnectFails(c)
    /\ UNCHANGED <<peer, control, serverVars, listenq, portq, clientq>>

ConnectInterrupted(c) ==
    /\ client[c].at = "wait"
    /\ Fault("eintr", c)
    /\ ConnectAgain(c, client[c].pkt)
    /\ UNCHANGED <<peer, control, serverVars, listenq, portq, clientq>>

-----------------------------------------------------------------------------
(* rudp_accept, and the loop of ssh_server around it.                      *)

\* Every negative result makes ssh_server return and the service exit; its
\* sockets go with it, those of its children stay.
Exit ==
    /\ listener' = Dead
    /\ open' = {s.port : s \in sessions}
    /\ portq' = [k \in Ports |-> IF k \in open' THEN portq[k] ELSE <<>>]
    /\ listenq' = <<>>

\* Mutant of Closed: the next try forgets the socket of this one.
Forgotten(k) == open

Closed(k) == open \ {k}

\* The next try of the same rudp_accept, with what is left open and queued.
AcceptAgain(o, pq, lq) ==
    IF MoreTries(listener.i)
    THEN /\ listener' = Listening(listener.i + 1)
         /\ open' = o
         /\ portq' = pq
         /\ listenq' = lq
    ELSE Exit

Hears == listener.at = "listen" /\ listenq # <<>>

\* Mutant of Caller: the address is the one received last.
LastCaller == Last(listenq).from

Caller == Head(listenq).from

\* Line 312: what is not a SYN costs a try.
AcceptOther ==
    /\ Hears
    /\ Head(listenq).flag # "SYN"
    /\ AcceptAgain(open, portq, Tail(listenq))
    /\ NoFault
    /\ UNCHANGED <<clientVars, clientq, lcontrol, used, sessions>>

HearsSyn == Hears /\ Head(listenq).flag = "SYN"

\* Mutant of AnswersFrom: the answer leaves from the listening socket.
AnswersFromListening(k) == 0

\* The port the client will find its answer came from.
AnswersFrom(k) == k

AcceptSyn ==
    /\ HearsSyn
    /\ lcontrol' = [seq |-> Hdr, ack |-> Hdr]
    /\ used' = used + 1
    /\ open' = open \cup {used'}
    /\ listener' = [at |-> "wait", i |-> listener.i, from |-> Caller,
                    port |-> used']
    /\ listenq' = Tail(listenq)
    /\ clientq' = [clientq EXCEPT ![Caller] = Append(@, AnswersFrom(used'))]
    /\ NoFault
    /\ UNCHANGED <<clientVars, portq, sessions>>

\* The sendto of the answer fails: the socket is closed, the try is over.
AcceptSynFails ==
    /\ HearsSyn
    /\ Fault("sendfail", Caller)
    /\ lcontrol' = [seq |-> Hdr, ack |-> Hdr]
    /\ used' = used + 1
    /\ AcceptAgain(open, portq, Tail(listenq))
    /\ UNCHANGED <<clientVars, clientq, sessions>>

\* rudp_socket, getsockopt or setsockopt fails.
AcceptSocketFails ==
    /\ HearsSyn
    /\ Fault("sysfail", Caller)
    /\ lcontrol' = [seq |-> Hdr, ack |-> Hdr]
    /\ Exit
    /\ UNCHANGED <<clientVars, clientq, used, sessions>>

\* Twenty minutes without a client.
AcceptIdle ==
    /\ listener.at = "listen"
    /\ listenq = <<>>
    /\ FaultOf("idle", {})
    /\ Exit
    /\ UNCHANGED <<clientVars, clientq, lcontrol, used, sessions>>

AcceptInterrupted ==
    /\ listener.at = "listen"
    /\ FaultOf("eintr", {})
    /\ AcceptAgain(open, portq, listenq)
    /\ UNCHANGED <<clientVars, clientq, lcontrol, used, sessions>>

Waits == listener.at = "wait"

\* Mutant of ServesWhen: the child is forked without waiting for the ACK.
ServesAtOnce(k) == TRUE

\* Whatever comes from the client's address completes the handshake.
ServesWhen(k) == portq[k] # <<>> /\ Head(portq[k]) = listener.from

\* The child takes the socket and a copy of control, the parent the next call.
Serve ==
    /\ Waits
    /\ ServesWhen(listener.port)
    /\ sessions' = sessions \cup
          {[port |-> listener.port, from |-> listener.from, ctl |-> lcontrol]}
    /\ portq' = [portq EXCEPT ![listener.port] = SubSeq(@, 2, Len(@))]
    /\ listener' = Listening(0)
    /\ NoFault
    /\ UNCHANGED <<clientVars, lcontrol, listenq, clientq, open, used>>

ForkFails ==
    /\ Waits
    /\ ServesWhen(listener.port)
    /\ Fault("sysfail", listener.from)
    /\ Exit
    /\ UNCHANGED <<clientVars, clientq, lcontrol, used, sessions>>

\* Five seconds without the client's ACK end the service, not the try.
AckTimeout ==
    /\ Waits
    /\ portq[listener.port] = <<>>
    /\ IF /\ listener.port \in ToSet(clientq[listener.from])
          /\ client[listener.from].at \in {"sendto", "wait"}
       THEN Fault("late", listener.from)
       ELSE NoFault
    /\ Exit
    /\ UNCHANGED <<clientVars, clientq, lcontrol, used, sessions>>

AckInterrupted ==
    /\ Waits
    /\ Fault("eintr", listener.from)
    /\ AcceptAgain(Closed(listener.port),
                   [portq EXCEPT ![listener.port] = <<>>], listenq)
    /\ UNCHANGED <<clientVars, clientq, lcontrol, used, sessions>>

-----------------------------------------------------------------------------
(* The network.                                                            *)

LoseSyn ==
    /\ listenq # <<>>
    /\ Fault("drop", Head(listenq).from)
    /\ listenq' = Tail(listenq)
    /\ UNCHANGED <<clientVars, serverVars, portq, clientq>>

LoseAnswer(c) ==
    /\ clientq[c] # <<>>
    /\ Fault("drop", c)
    /\ clientq' = [clientq EXCEPT ![c] = Tail(@)]
    /\ UNCHANGED <<clientVars, serverVars, listenq, portq>>

LoseAck(k) ==
    /\ portq[k] # <<>>
    /\ Fault("drop", Head(portq[k]))
    /\ portq' = [portq EXCEPT ![k] = Tail(@)]
    /\ UNCHANGED <<clientVars, serverVars, listenq, clientq>>

DuplicateSyn ==
    /\ listenq # <<>>
    /\ Fault("dup", Head(listenq).from)
    /\ listenq' = Append(listenq, Head(listenq))
    /\ UNCHANGED <<clientVars, serverVars, portq, clientq>>

-----------------------------------------------------------------------------

Init ==
    /\ client = [c \in Clients |-> [at |-> "idle", i |-> 0, pkt |-> "SYN"]]
    /\ peer = [c \in Clients |-> 0]
    /\ control = [c \in Clients |-> Zero]
    /\ listener = Listening(0)
    /\ lcontrol = Zero
    /\ listenq = <<>>
    /\ portq = [k \in Ports |-> <<>>]
    /\ clientq = [c \in Clients |-> <<>>]
    /\ open = {}
    /\ used = 0
    /\ sessions = {}
    /\ faults = 0
    /\ harmed = {}

ClientStep(c) == SendSyn(c) \/ SendAck(c) \/ ConnectTimeout(c)

ListenerStep == AcceptOther \/ AcceptSyn \/ Serve \/ AckTimeout

Disturbance ==
    \/ \E c \in Clients : \/ SendSynFails(c) \/ SendAckFails(c)
                          \/ ConnectInterrupted(c) \/ LoseAnswer(c)
    \/ AcceptSynFails \/ AcceptSocketFails \/ AcceptIdle
    \/ AcceptInterrupted \/ ForkFails \/ AckInterrupted
    \/ LoseSyn \/ DuplicateSyn \/ \E k \in Ports : LoseAck(k)

Next ==
    \/ \E c \in Clients : Connect(c) \/ ClientStep(c)
    \/ ListenerStep
    \/ Disturbance

Spec == Init /\ [][Next]_vars

\* A client inside rudp_connect and the service inside rudp_accept both run.
FairSpec ==
    /\ Spec
    /\ \A c \in Clients : WF_vars(ClientStep(c))
    /\ WF_vars(ListenerStep)

-----------------------------------------------------------------------------
(* Properties.                                                             *)

\* Every variable has its type.
TypeOK ==
    /\ client \in [Clients ->
          [at : {"idle", "sendto", "wait", "connected", "failed"},
           i : 0..(N_ATTEMPT - 1), pkt : {"SYN", "ACK"}]]
    /\ peer \in [Clients -> {0} \cup Ports]
    /\ control \in [Clients -> Header]
    /\ listener \in {Dead}
          \cup [at : {"listen"}, i : 0..(N_ATTEMPT - 1)]
          \cup [at : {"wait"}, i : 0..(N_ATTEMPT - 1), from : Clients, port : Ports]
    /\ lcontrol \in Header
    /\ listenq \in Seq([flag : {"SYN", "ACK"}, from : Clients])
    /\ portq \in [Ports -> Seq(Clients)]
    /\ clientq \in [Clients -> Seq(Ports)]
    /\ open \subseteq Ports
    /\ used \in {0} \cup Ports
    /\ sessions \subseteq [port : Ports, from : Clients, ctl : Header]
    /\ faults \in 0..MaxFaults
    /\ harmed \subseteq Clients

Served(c) == \E s \in sessions : s.from = c

\* A child serves a client that is connected to that very child: duplicated
\* or repeated SYNs, answers and retries never cross two clients and never
\* give one client two children.
SessionsMatch ==
    \A s \in sessions :
        /\ client[s.from].at = "connected"
        /\ peer[s.from] = s.port
        /\ \A t \in sessions : t.from = s.from \/ t.port = s.port => t = s

\* The two ends of a session start from the same numbers, the ones Rudp
\* starts from: each expects what the other sends first.
EstablishedAgree ==
    \A s \in sessions :
        /\ s.ctl.ack = control[s.from].seq
        /\ s.ctl.seq = control[s.from].ack

\* The service and its children hold no socket but their sessions' and the
\* one whose handshake is under way, whatever failed on the way.
NoLeakedSocket ==
    open = {s.port : s \in sessions}
              \cup (IF Waits THEN {listener.port} ELSE {})

\* A client that no fault has touched and that believes itself connected is
\* served, or its ACK is about to make it so.
UnharmedIsServed ==
    \A c \in Clients \ harmed :
        client[c].at = "connected" =>
            \/ Served(c)
            \/ Waits /\ listener.from = c /\ listener.port = peer[c]
                     /\ ServesWhen(listener.port)

\* Such a client fails to connect only because the service is gone.
UnharmedFailsOnlyAfterExit ==
    \A c \in Clients \ harmed :
        client[c].at = "failed" => listener = Dead

\* Without faults every client that calls is served, however many call.
EveryClientIsServed ==
    \A c \in Clients :
        client[c].at = "sendto" ~> Served(c) \/ faults > 0

\* Several users: what happens to one client's datagrams should not keep the
\* service from another.
OthersAreServed ==
    \A c \in Clients : client[c].at = "failed" => c \in harmed

-----------------------------------------------------------------------------
(* Why: what a step relies on.                                             *)

\* How many datagrams client c has sent to the listening socket, at most.
SentBy(c) ==
    CASE client[c].at = "idle" -> 0
      [] client[c].at = "sendto" -> client[c].i
      [] OTHER -> client[c].i + 1

Sent == {t \in Clients \X (0..(N_ATTEMPT - 1)) : t[2] < SentBy(t[1])}

\* So many sockets have been opened, or may be for what is queued: it bounds
\* Ports.
FewSockets == used + Len(listenq) <= Cardinality(Sent) + faults

\* A new socket is no session's, nobody knows of it and nothing is on its way
\* there; the one whose handshake is under way only its client knows.
PortsFresh ==
    /\ open \subseteq 1..used
    /\ \A k \in Ports : k > used => portq[k] = <<>>
    /\ \A c \in Clients : \A k \in ToSet(clientq[c]) : k <= used
    /\ Waits =>
          /\ listener.port <= used
          /\ \A s \in sessions : s.port # listener.port
          /\ \A c \in Clients \ {listener.from} :
                listener.port \notin ToSet(clientq[c])

\* An ACK on its way is of a client that is connected to that socket.
AcksMatch ==
    \A k \in Ports : \A c \in ToSet(portq[k]) :
        client[c].at = "connected" /\ peer[c] = k

Both == [seq |-> Hdr, ack |-> Hdr]

ControlsSet ==
    /\ \A c \in Clients :
          /\ client[c].at \in {"sendto", "wait"} => control[c].seq = Hdr
          /\ client[c].at = "connected" => control[c] = Both
    /\ Waits => lcontrol = Both
    /\ \A s \in sessions : s.ctl = Both

\* What is on its way from a client to the listening socket: nothing, or one
\* SYN and nothing else.
Unqueued(c) == \A d \in ToSet(listenq) : d.from # c

SynQueued(c) ==
    \E i \in 1..Len(listenq) :
        /\ listenq[i] = [flag |-> "SYN", from |-> c]
        /\ \A j \in 1..Len(listenq) : j # i => listenq[j].from # c

WaitsFor(c) == Waits /\ listener.from = c

Unharmed(c) ==
    CASE client[c].at \in {"idle", "sendto"} ->
           /\ Unqueued(c) /\ clientq[c] = <<>> /\ ~WaitsFor(c)
           /\ client[c].i = 0 /\ client[c].pkt = "SYN"
      [] client[c].at = "wait" ->
           \/ listener = Dead /\ clientq[c] = <<>>
           \/ SynQueued(c) /\ clientq[c] = <<>> /\ ~WaitsFor(c)
           \/ /\ WaitsFor(c) /\ Unqueued(c)
              /\ clientq[c] = <<listener.port>> /\ portq[listener.port] = <<>>
      [] client[c].at = "connected" ->
           /\ Unqueued(c) /\ clientq[c] = <<>>
           /\ \/ Served(c) /\ ~WaitsFor(c)
              \/ WaitsFor(c) /\ listener.port = peer[c] /\ portq[peer[c]] = <<c>>
      [] client[c].at = "failed" -> listener = Dead /\ clientq[c] = <<>>

UnharmedOnTheirWay == \A c \in Clients \ harmed : Unharmed(c)

IInv ==
    /\ FewSockets /\ PortsFresh /\ AcksMatch /\ ControlsSet
    /\ NoLeakedSocket /\ SessionsMatch /\ UnharmedOnTheirWay
=============================================================================
