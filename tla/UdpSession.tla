----------------------------- MODULE UdpSession -----------------------------
(***************************************************************************)
(* One remote shell over RUDP: ssh_client, the child of ssh_server that    *)
(* serves it, and the child's own child (the kid), which logs the user in  *)
(* and becomes the shell.  The kid inherits the server's socket and a copy *)
(* of its control; when the login fails it runs rudp_close and rudp_recv   *)
(* on them while the server polls the same socket.  The association is set *)
(* up: both controls hold Hdr, Hdr.                                        *)
(* The calls of rudp.c are those of module Rudp, here inside the programs  *)
(* that make them; a timeout may come too early for its answer, whatever   *)
(* the length of SO_RCVTIMEO, and the failures of sendto are left out.  A  *)
(* text is one unit of the RC4 key stream, and is the position it was      *)
(* encrypted at; it has at least one byte, so that the user has a name.    *)
(***************************************************************************)
EXTENDS Integers, Sequences

CONSTANTS
    N_ATTEMPT,  \* tries of each loop (3 in rudp.h)
    Hdr,        \* sizeof(struct rudp_header)
    Payload,    \* length of a payload
    MaxTyped,   \* bound: key strokes of the user
    MaxMade,    \* bound: pieces of output of the kid
    MaxFaults   \* bound: datagrams lost, answers late, loops broken, stops

ASSUME UdpAssumption ==
    /\ N_ATTEMPT \in Nat \ {0}
    /\ Hdr \in Nat \ {0}
    /\ Payload \in Nat \ {0}
    /\ MaxTyped \in Nat /\ MaxMade \in Nat /\ MaxFaults \in Nat

Processes == {"client", "server", "kid"}
Sockets == {"client", "server"}

\* The kid shares the server's socket.
Socket(q) == IF q = "client" THEN "client" ELSE "server"
Peer(q) == IF q = "client" THEN "server" ELSE "client"

VARIABLES
    call,     \* call[q]: where q is in its program and in its rudp call
    ctl,      \* ctl[q]: q's struct rudp_header control (seq, ack)
    net,      \* net[s]: the datagrams on their way to socket s
    errno,    \* errno[q]: "EAGAIN", or "other" (any other value)
    todo,     \* todo[q]: the descriptors q's poll found ready, not yet served
    chld,     \* chld.raised: the server has a SIGCHLD to handle;
              \* chld.exit: exit_master_read_loop, which its handler sets
    tty,      \* what the user has typed and the client has not read
    typed,    \* how much the user has typed in all
    out,      \* output in the pseudo terminal that the server has not read
    made,     \* how much output there was in all
    pos,      \* pos[q]: how much of the key stream q has used
    garbled,  \* history: some text was decrypted with another position
    crashed,  \* history: who took an error code of rudp_recv for a length
    mishaps,  \* history: what a call took that was not meant for it
    faults    \* how many faults there were in all

rudp == <<call, ctl, net, errno>>
pty == <<tty, typed, out, made>>
cipher == <<pos, garbled>>
past == <<crashed, mishaps, faults>>

vars == <<rudp, todo, chld, pty, cipher, past>>

-----------------------------------------------------------------------------
(* Programs and datagrams.                                                 *)

\* The calls that send, and where each program goes when they return; a
\* failure of the ones in the key exchange ends the program.
Then == [client |-> [sendKey |-> "recvKey", sendName |-> "loop",
                     send |-> "loop", close1 |-> "drain", close2 |-> "exit"],
         server |-> [sendKey |-> "recvName", send |-> "loop",
                     close1 |-> "drain", close2 |-> "kill"],
         kid |-> [close1 |-> "drain", close0 |-> "exit"]]

Sending == {"sendKey", "sendName", "send", "close0", "close1", "close2"}
Receiving == {"recvKey", "recvName", "recv", "drain"}
Resting == {"start", "none", "login", "shell", "loop", "poll", "kill", "exit", "gone"}
Places == Sending \cup Receiving \cup Resting

At(q) == call[q].at
InSend(q) == At(q) \in Sending
InRecv(q) == At(q) \in Receiving
Gone(q) == At(q) = "gone"

\* Nobody reads, nor will read, socket s: the kid reads only to give up.
Dead(s) ==
    \A q \in Processes : Socket(q) = s => At(q) \in {"none", "shell", "gone"}

\* body is the position of a text's encryption, 0 for anything else.
Packet(c, flag, body) ==
    [flag |-> flag, seq |-> c.seq, ack |-> c.ack, body |-> body]

NoPacket == [flag |-> "ACK", seq |-> 0, ack |-> 0, body |-> 0]

Size(flag) == IF flag = "DATA" THEN Payload + Hdr ELSE Hdr

\* Outside its rudp_send or rudp_close a process is at a place only.
Place(p) == [at |-> p, i |-> 0, pkt |-> NoPacket]

Goto(q, p) == call' = [call EXCEPT ![q] = Place(p)]

Arrived(q) == Head(net[Socket(q)])
Rest(q) == [net EXCEPT ![Socket(q)] = Tail(@)]

\* A datagram to a dead socket goes nowhere.
Put(n, s, d) == IF Dead(s) THEN n ELSE [n EXCEPT ![s] = Append(@, d)]

\* One unit of the key stream.
Encrypt(q) == pos' = [pos EXCEPT ![q] = @ + 1] /\ UNCHANGED garbled

\* Mutant of Decrypt: the terminating zero is decrypted, too.
DecryptString(q, body) ==
    /\ pos' = [pos EXCEPT ![q] = @ + 2]
    /\ garbled' = (garbled \/ body # pos[q] + 1)

Decrypt(q, body) ==
    /\ pos' = [pos EXCEPT ![q] = @ + 1]
    /\ garbled' = (garbled \/ body # pos[q] + 1)

Mishap(q, what) == mishaps' = mishaps \cup {<<q, what>>}

\* What the surroundings may do but need not.
Fault(q, what) ==
    faults < MaxFaults /\ faults' = faults + 1 /\ Mishap(q, what)

\* Nothing is on its way in either direction that a process would take.
Quiet ==
    \A q \in Processes : net[Socket(q)] # <<>> =>
        At(q) \in {"none", "login", "shell", "gone"}

\* poll has seen the first datagram in s: it is not on its way any more.
Seen(s) ==
    \E q \in Processes :
        Socket(q) = s /\ ("socket" \in todo[q] \/ At(q) = "recv")

\* SO_RCVTIMEO expires then; or, which is a fault, while what q waits for is
\* still on the wire or with a peer that is slow.
Expires(q) ==
    \/ Quiet /\ UNCHANGED <<mishaps, faults>>
    \/ /\ ~Quiet
       /\ net[Socket(q)] = <<>> \/ ~Seen(Socket(q))
       /\ Fault(q, "late")

-----------------------------------------------------------------------------
(* rudp_send and rudp_close inside the programs.                           *)

\* The loops test for -1, which rudp_send never returns.
AfterFailure(q, p) == IF p \in {"sendKey", "sendName"} THEN "exit" ELSE Then[q][p]

Fail(q) == Goto(q, AfterFailure(q, At(q)))

\* q begins to send: control c moves past what it sends, and n is the network
\* it finds.  With an EAGAIN left by an earlier call the datagram leaves and
\* the call fails; its ACK will come all the same.
Sends(q, c, n, p, flag, body) ==
    LET d == Packet(c, flag, body)
    IN  /\ ctl' = [ctl EXCEPT ![q] = [c EXCEPT !.seq = @ + Size(flag)]]
        /\ net' = Put(n, Peer(q), d)
        /\ IF errno'[q] = "EAGAIN"
           THEN Goto(q, AfterFailure(q, p))
           ELSE call' = [call EXCEPT ![q] = [at |-> p, i |-> 0, pkt |-> d]]

\* Mutant of Retry: tries that are not counted.
RetryUncounted(q, n) ==
    /\ UNCHANGED call
    /\ net' = Put(n, Peer(q), call[q].pkt)

\* Mutant of Retry: one try more.
RetryOnceMore(q, n) ==
    IF call[q].i < N_ATTEMPT
    THEN /\ call' = [call EXCEPT ![q].i = @ + 1]
         /\ net' = Put(n, Peer(q), call[q].pkt)
    ELSE Fail(q) /\ net' = n

\* Another try, from the network n; the last one fails.
Retry(q, n) ==
    IF call[q].i + 1 < N_ATTEMPT
    THEN /\ call' = [call EXCEPT ![q].i = @ + 1]
         /\ net' = Put(n, Peer(q), call[q].pkt)
    ELSE Fail(q) /\ net' = n

Answers(q, d) == d.flag = "ACK" /\ d.ack = ctl[q].seq

\* Whatever arrives while a sender waits is consumed.
Answer(q) ==
    /\ InSend(q)
    /\ net[Socket(q)] # <<>>
    /\ LET d == Arrived(q)
       IN  IF Answers(q, d)
           THEN Goto(q, Then[q][At(q)]) /\ net' = Rest(q) /\ UNCHANGED mishaps
           ELSE Retry(q, Rest(q)) /\ Mishap(q, d.flag)
    /\ UNCHANGED <<ctl, errno, todo, chld, pty, cipher, crashed, faults>>

SendTimeout(q) ==
    /\ InSend(q)
    /\ Expires(q)
    /\ errno' = [errno EXCEPT ![q] = "EAGAIN"]
    /\ Fail(q)
    /\ UNCHANGED <<ctl, net, todo, chld, pty, cipher, crashed>>

-----------------------------------------------------------------------------
(* rudp_recv inside the programs.                                          *)

IsKey(q) == Arrived(q).flag = "DATA" /\ Arrived(q).body = 0

\* What comes with the expected number moves the acknowledgement, whatever
\* it is.
Noted(q) ==
    LET d == Arrived(q)
    IN  [ctl[q] EXCEPT !.ack = IF d.seq = @ THEN @ + Size(d.flag) ELSE @]

\* The datagram is acknowledged in the control, and to the other end.
Acked(q) == Put(Rest(q), Peer(q), Packet(Noted(q), "ACK", 0))

Takes(q, place) == At(q) = place /\ net[Socket(q)] # <<>>

\* rudp_recv returns, and q goes on to place.
Passes(q, place) ==
    /\ net' = Acked(q)
    /\ ctl' = [ctl EXCEPT ![q] = Noted(q)]
    /\ Goto(q, place)

\* An error code becomes a length for RC4, and an index; so does nothing in
\* the other places.
RecvFails(q) ==
    /\ Goto(q, "exit")
    /\ crashed' = IF At(q) = "recv" THEN crashed \cup {q} ELSE crashed

RecvTimeout(q) ==
    /\ InRecv(q)
    /\ Expires(q)
    /\ errno' = [errno EXCEPT ![q] = "EAGAIN"]
    /\ RecvFails(q)
    /\ UNCHANGED <<ctl, net, todo, chld, pty, cipher>>

ClientSendKey ==
    /\ At("client") = "start"
    /\ UNCHANGED <<errno, todo, chld, pty, cipher, past>>
    /\ Sends("client", ctl["client"], net, "sendKey", "DATA", 0)

\* The first datagram has the parameters, and the answer to it goes at once;
\* or it is something else, or does not decrypt.
ServerRecvKey ==
    /\ Takes("server", "recvKey")
    /\ UNCHANGED <<errno, todo, chld, pty, cipher, past>>
    /\ \/ /\ IsKey("server")
          /\ Sends("server", Noted("server"), Acked("server"),
                   "sendKey", "DATA", 0)
       \/ Passes("server", "exit")

\* And with the secret the client sends its user's name.
ClientRecvKey ==
    /\ Takes("client", "recvKey")
    /\ UNCHANGED <<errno, todo, chld, pty, past>>
    /\ \/ /\ IsKey("client")
          /\ Sends("client", Noted("client"), Acked("client"),
                   "sendName", "DATA", pos["client"] + 1)
          /\ Encrypt("client")
       \/ Passes("client", "exit") /\ UNCHANGED cipher

\* Whatever comes now is the name, a control packet an empty one.  The kid
\* is forked with the control as it is.
RecvName ==
    /\ Takes("server", "recvName")
    /\ net' = Acked("server")
    /\ ctl' = [ctl EXCEPT !["server"] = Noted("server"),
                          !["kid"] = Noted("server")]
    /\ call' = [call EXCEPT !["server"] = Place("loop"),
                            !["kid"] = Place("login")]
    /\ IF Arrived("server").flag = "DATA"
       THEN Decrypt("server", Arrived("server").body)
       ELSE UNCHANGED cipher
    /\ UNCHANGED <<errno, todo, chld, pty, past>>

\* In the loop: text for the terminal or the shell ...
RecvText(q) ==
    /\ Takes(q, "recv")
    /\ Arrived(q).flag = "DATA"
    /\ Passes(q, "loop")
    /\ Decrypt(q, Arrived(q).body)
    /\ UNCHANGED <<errno, todo, chld, pty, past>>

\* ... or the end, which is answered with a FIN.  rudp_recv returns 0 for a
\* late ACK as for a FIN.
RecvEnd(q) ==
    /\ Takes(q, "recv")
    /\ Arrived(q).flag # "DATA"
    /\ IF Arrived(q).flag = "FIN" THEN UNCHANGED mishaps ELSE Mishap(q, "zero")
    /\ UNCHANGED <<errno, todo, chld, pty, cipher, crashed, faults>>
    /\ Sends(q, Noted(q), Acked(q), "close2", "FIN", 0)

\* Between the steps of a shutdown one datagram is read, and ignored.
Drain(q) ==
    /\ Takes(q, "drain")
    /\ Passes(q, "exit")
    /\ UNCHANGED <<errno, todo, chld, pty, cipher, past>>

-----------------------------------------------------------------------------
(* The loops.                                                              *)

Served(q, d) == todo' = [todo EXCEPT ![q] = @ \ {d}]

\* The client polls at the head of its loop, the server after its test.
Polls(q) ==
    /\ At(q) = IF q = "client" THEN "loop" ELSE "poll"
    /\ todo[q] = {}

\* Mutant of Ready: revents of the socket is not looked at.
ReadyUnchecked(q) ==
    {"socket"}
      \cup (IF q = "client" /\ tty # <<>> THEN {"tty"} ELSE {})
      \cup (IF q = "server" /\ out > 0 /\ ~Gone("kid") THEN {"pty"} ELSE {})

\* A pseudo terminal whose shell has gone hangs up, and is passed over.
Ready(q) ==
    (IF net[Socket(q)] # <<>> THEN {"socket"} ELSE {})
      \cup (IF q = "client" /\ tty # <<>> THEN {"tty"} ELSE {})
      \cup (IF q = "server" /\ out > 0 /\ ~Gone("kid") THEN {"pty"} ELSE {})

Poll(q) ==
    /\ Polls(q)
    /\ Ready(q) # {}
    /\ ~(q = "server" /\ chld.raised)
    /\ todo' = [todo EXCEPT ![q] = Ready(q)]
    /\ Goto(q, "loop")
    /\ UNCHANGED <<ctl, net, errno, chld, pty, cipher, past>>

RecvCall(q) ==
    /\ At(q) = "loop"
    /\ "socket" \in todo[q]
    /\ "pty" \notin todo[q]
    /\ Served(q, "socket")
    /\ Goto(q, "recv")
    /\ UNCHANGED <<ctl, net, errno, chld, pty, cipher, past>>

ClientKeys ==
    /\ At("client") = "loop"
    /\ todo["client"] = {"tty"}
    /\ Head(tty) = "key"
    /\ Served("client", "tty")
    /\ tty' = <<>>
    /\ Encrypt("client")
    /\ UNCHANGED <<errno, chld, typed, out, made, past>>
    /\ Sends("client", ctl["client"], net, "send", "DATA", pos["client"] + 1)

\* Mutant of ClientLeaves: without the steps of rudp_close.
ClientLeavesSilently ==
    /\ At("client") = "loop"
    /\ todo["client"] = {"tty"}
    /\ Head(tty) = "ctrl-D"
    /\ Served("client", "tty")
    /\ tty' = <<>>
    /\ Goto("client", "exit")
    /\ UNCHANGED <<ctl, net, errno, chld, typed, out, made, cipher, past>>

\* ctrl-D counts only as the first byte of a read.
ClientLeaves ==
    /\ At("client") = "loop"
    /\ todo["client"] = {"tty"}
    /\ Head(tty) = "ctrl-D"
    /\ Served("client", "tty")
    /\ tty' = <<>>
    /\ UNCHANGED <<errno, chld, typed, out, made, cipher, past>>
    /\ Sends("client", ctl["client"], net, "close1", "FIN", 0)

ServerOutput ==
    /\ At("server") = "loop"
    /\ "pty" \in todo["server"]
    /\ Served("server", "pty")
    /\ out' = 0
    /\ Encrypt("server")
    /\ UNCHANGED <<errno, chld, tty, typed, made, past>>
    /\ Sends("server", ctl["server"], net, "send", "DATA", pos["server"] + 1)

\* A failing poll, read or write, or a hangup: no FIN is sent.
ClientBreaks ==
    /\ At("client") = "loop"
    /\ Goto("client", "exit")
    /\ todo' = [todo EXCEPT !["client"] = {}]
    /\ Fault("client", "broke")
    /\ UNCHANGED <<ctl, net, errno, chld, pty, cipher, crashed>>

ServerTest ==
    /\ At("server") = "loop"
    /\ todo["server"] = {}
    /\ ~chld.exit
    /\ Goto("server", "poll")
    /\ UNCHANGED <<ctl, net, errno, todo, chld, pty, cipher, past>>

\* Mutant of ServerLeaves: without the steps of rudp_close.
ServerLeavesSilently ==
    /\ At("server") = "loop"
    /\ todo["server"] = {}
    /\ chld.exit
    /\ Goto("server", "exit")
    /\ UNCHANGED <<ctl, net, errno, todo, chld, pty, cipher, past>>

ServerLeaves ==
    /\ At("server") = "loop"
    /\ todo["server"] = {}
    /\ chld.exit
    /\ UNCHANGED <<errno, todo, chld, pty, cipher, past>>
    /\ Sends("server", ctl["server"], net, "close1", "FIN", 0)

\* The signal came between the test and the poll, which finds nothing.
PollTimeout ==
    /\ Polls("server")
    /\ chld.exit
    /\ Ready("server") = {}
    /\ Goto("server", "loop")
    /\ UNCHANGED <<ctl, net, errno, todo, chld, pty, cipher, past>>

-----------------------------------------------------------------------------
(* SIGCHLD: its handler is installed without SA_RESTART.                   *)

\* Mutant of Handles: the handler sets nothing.
HandlesUnset ==
    chld.raised /\ ~Gone("server") /\ chld' = [chld EXCEPT !.raised = FALSE]

Handles ==
    chld.raised /\ ~Gone("server") /\ chld' = [raised |-> FALSE, exit |-> TRUE]

Interrupted ==
    /\ Handles
    /\ net["server"] = <<>>
    /\ errno' = [errno EXCEPT !["server"] = "other"]

\* Outside a system call that waits, or before it has begun to.
SigChld ==
    /\ Handles
    /\ UNCHANGED <<rudp, todo, pty, cipher, past>>

\* poll fails, which ends the loop.
PollInterrupted ==
    /\ Handles
    /\ Polls("server")
    /\ errno' = [errno EXCEPT !["server"] = "other"]
    /\ Sends("server", ctl["server"], net, "close1", "FIN", 0)
    /\ UNCHANGED <<todo, pty, cipher, past>>

\* The wait for an acknowledgement is a failed try: the datagram goes again.
SendInterrupted ==
    /\ Interrupted
    /\ InSend("server")
    /\ Retry("server", net)
    /\ Mishap("server", "signal")
    /\ UNCHANGED <<ctl, todo, pty, cipher, crashed, faults>>

\* So is a wait in rudp_recv, where the kid took what poll had seen.
RecvInterrupted ==
    /\ Interrupted
    /\ InRecv("server")
    /\ IF call["server"].i + 1 < N_ATTEMPT
       THEN /\ call' = [call EXCEPT !["server"].i = @ + 1]
            /\ UNCHANGED crashed
       ELSE RecvFails("server")
    /\ UNCHANGED <<ctl, net, todo, pty, cipher, mishaps, faults>>

\* So does a write of text to the pseudo terminal, which also fails when the
\* shell has gone: the server returns, and sends no FIN.
ServerWriteFails ==
    /\ Takes("server", "recv")
    /\ Arrived("server").flag = "DATA"
    /\ IF chld.raised THEN Handles ELSE Gone("kid") /\ UNCHANGED chld
    /\ Passes("server", "exit")
    /\ Decrypt("server", Arrived("server").body)
    /\ Mishap("server", "write")
    /\ UNCHANGED <<errno, todo, pty, crashed, faults>>

-----------------------------------------------------------------------------
(* The ends of the processes.                                              *)

\* Where the socket's last reader has gone what is in it goes, too.
Ends(qs) ==
    /\ call' = [q \in Processes |-> IF q \in qs THEN Place("gone") ELSE call[q]]
    /\ net' = [s \in Sockets |->
                 IF \A q \in Processes : Socket(q) = s =>
                       q \in qs \/ At(q) \in {"none", "shell", "gone"}
                 THEN <<>> ELSE net[s]]
    /\ todo' = [q \in Processes |-> IF q \in qs THEN {} ELSE todo[q]]

\* A server that is there gets SIGCHLD.
Raises == chld' = [chld EXCEPT !.raised = @ \/ ~Gone("server")]

\* The end of the kid raises SIGCHLD.
Exit(q) ==
    /\ At(q) = "exit"
    /\ Ends({q})
    /\ IF q = "kid" THEN Raises ELSE UNCHANGED chld
    /\ UNCHANGED <<ctl, errno, pty, cipher, past>>

ServerKills ==
    /\ At("server") = "kill"
    /\ Ends({"server", "kid"})
    /\ UNCHANGED <<ctl, errno, chld, pty, cipher, past>>

-----------------------------------------------------------------------------
(* The user, the login and the shell, the network.                         *)

UserTypes ==
    /\ ~Gone("client")
    /\ typed < MaxTyped
    /\ typed' = typed + 1
    /\ \E k \in {"key", "ctrl-D"} : tty' = Append(tty, k)
    /\ UNCHANGED <<rudp, todo, chld, out, made, cipher, past>>

\* No key file, or no parameters.
KeyFails(q) ==
    /\ At(q) = IF q = "client" THEN "start" ELSE "recvKey"
    /\ Goto(q, "exit")
    /\ UNCHANGED <<ctl, net, errno, todo, chld, pty, cipher, past>>

LoginSucceeds ==
    /\ At("kid") = "login"
    /\ Goto("kid", "shell")
    /\ UNCHANGED <<ctl, net, errno, todo, chld, pty, cipher, past>>

\* With the wrong name, or set_id: FIN, a datagram, the end; without the
\* cgroup or the namespace: FIN and the end.
LoginFails ==
    /\ At("kid") = "login"
    /\ UNCHANGED <<errno, todo, chld, pty, cipher, past>>
    /\ \E p \in {"close1", "close0"} :
          Sends("kid", ctl["kid"], net, p, "FIN", 0)

\* A prompt, an echo or the output of a program.
ShellWrites ==
    /\ At("kid") \in {"login", "shell"}
    /\ ~Gone("server")
    /\ made < MaxMade
    /\ made' = made + 1
    /\ out' = out + 1
    /\ UNCHANGED <<rudp, todo, chld, tty, typed, cipher, past>>

\* An exit, or a hangup.
ShellExits ==
    /\ At("kid") \in {"login", "shell"}
    /\ Goto("kid", "exit")
    /\ UNCHANGED <<ctl, net, errno, todo, chld, pty, cipher, past>>

\* So does a stop: the handler is installed without SA_NOCLDSTOP.
ShellStops ==
    /\ At("kid") \in {"login", "shell"}
    /\ ~Gone("server")
    /\ Raises
    /\ Fault("kid", "stopped")
    /\ UNCHANGED <<rudp, todo, pty, cipher, crashed>>

Drop(s) ==
    /\ Fault(s, "lost")
    /\ \E i \in DOMAIN net[s] :
          /\ i > 1 \/ ~Seen(s)
          /\ net' = [net EXCEPT ![s] = SubSeq(@, 1, i - 1)
                                         \o SubSeq(@, i + 1, Len(@))]
    /\ UNCHANGED <<call, ctl, errno, todo, chld, pty, cipher, crashed>>

-----------------------------------------------------------------------------

Init ==
    /\ call = [client |-> Place("start"),
               server |-> Place("recvKey"),
               kid |-> Place("none")]
    /\ ctl = [q \in Processes |-> [seq |-> Hdr, ack |-> Hdr]]
    /\ net = [s \in Sockets |-> <<>>]
    /\ errno = [q \in Processes |-> "other"]
    /\ todo = [q \in Processes |-> {}]
    /\ chld = [raised |-> FALSE, exit |-> FALSE]
    /\ tty = <<>> /\ typed = 0 /\ out = 0 /\ made = 0
    /\ pos = [q \in {"client", "server"} |-> 0]
    /\ garbled = FALSE
    /\ crashed = {} /\ mishaps = {} /\ faults = 0

Step(q) ==
    \/ Answer(q) \/ SendTimeout(q)
    \/ RecvText(q) \/ RecvEnd(q) \/ Drain(q) \/ RecvTimeout(q)
    \/ Poll(q) \/ RecvCall(q) \/ Exit(q)

ClientStep ==
    \/ Step("client") \/ ClientSendKey \/ ClientRecvKey
    \/ ClientKeys \/ ClientLeaves

ServerStep ==
    \/ Step("server") \/ ServerRecvKey \/ RecvName
    \/ ServerTest \/ ServerLeaves \/ PollTimeout \/ ServerOutput
    \/ PollInterrupted \/ SendInterrupted \/ RecvInterrupted
    \/ ServerWriteFails \/ ServerKills

KidStep == Step("kid")

Surroundings ==
    \/ UserTypes \/ KeyFails("client") \/ KeyFails("server")
    \/ LoginSucceeds \/ LoginFails \/ ShellWrites \/ ShellExits \/ ShellStops
    \/ ClientBreaks

Network == \E s \in Sockets : Drop(s)

Next ==
    \/ ClientStep \/ ServerStep \/ KidStep \/ SigChld
    \/ Surroundings \/ Network

Spec == Init /\ [][Next]_vars

\* Each process runs when it can, however many signals it gets, and its
\* timeouts expire; a signal is delivered.  Nothing is assumed of the user,
\* the login, the shell or the network.
FairSpec ==
    /\ Spec
    /\ WF_vars(ClientStep) /\ WF_vars(ServerStep) /\ WF_vars(KidStep)
    /\ WF_vars(SigChld)

-----------------------------------------------------------------------------
(* Properties.                                                             *)

Control == [seq : Nat, ack : Nat]
Datagram == [flag : {"DATA", "ACK", "FIN"}, seq : Nat, ack : Nat, body : Nat]

\* Every variable has its type; a try counter stays below N_ATTEMPT.
TypeOK ==
    /\ call \in [Processes -> [at : Places, i : 0..(N_ATTEMPT - 1), pkt : Datagram]]
    /\ ctl \in [Processes -> Control]
    /\ net \in [Sockets -> Seq(Datagram)]
    /\ errno \in [Processes -> {"EAGAIN", "other"}]
    /\ todo \in [Processes -> SUBSET {"socket", "tty", "pty"}]
    /\ chld \in [raised : BOOLEAN, exit : BOOLEAN]
    /\ tty \in Seq({"key", "ctrl-D"})
    /\ typed \in Nat /\ out \in Nat /\ made \in Nat
    /\ pos \in [{"client", "server"} -> Nat]
    /\ garbled \in BOOLEAN
    /\ crashed \subseteq Processes
    /\ mishaps \subseteq (Processes \X
          {"DATA", "ACK", "FIN", "zero", "signal", "lost", "late", "stopped",
           "write", "broke"})
    /\ faults \in Nat

\* The kid has started one of its shutdowns: it has sent on its control.
GaveUp == ctl["kid"].seq > Hdr + Size("DATA")

Mishaps(qs, kinds) == mishaps \cap (qs \X kinds) # {}
Crossed == Mishaps(Processes, {"DATA"})
Lost == Mishaps(Processes, {"lost"})
Late == Mishaps(Processes, {"late"})
Stopped == Mishaps({"kid"}, {"stopped"})

\* Text that is decrypted with another position than it was encrypted at has
\* one of five causes: a sender took the other's text for an answer to its
\* own, a datagram was lost, or came too late for a timeout, SIGCHLD made the
\* server send one again, or the kid took what was meant for the server.
\* Without them both key streams and both controls stay in step.
GarbledHasCause ==
    \/ Crossed \/ Lost \/ Late \/ GaveUp \/ Mishaps({"server"}, {"signal"})
    \/ /\ ~garbled
       /\ (At("client") = "loop" /\ At("server") \in {"loop", "poll"}
             /\ \A s \in Sockets : net[s] = <<>>)
          => /\ pos["client"] = pos["server"]
             /\ ctl["client"].seq = ctl["server"].ack
             /\ ctl["server"].seq = ctl["client"].ack

\* Only the server takes an error code for a length, and only after somebody
\* else took what its poll had seen: its own rudp_send, which serves the
\* pseudo terminal first and consumes whatever comes, or the kid.
CrashHasCause ==
    crashed # {} =>
        /\ crashed = {"server"}
        /\ GaveUp \/ Mishaps({"server"}, {"DATA", "ACK", "FIN"})

\* A session is never ended by an acknowledgement that rudp_recv took for a
\* FIN, unless texts crossed, a datagram was lost, an answer came too late for
\* a timeout, the kid meddled, or it was stopped.
EarlyEndHasCause ==
    Mishaps(Processes, {"zero"}) => Crossed \/ Lost \/ Late \/ GaveUp \/ Stopped

\* When the shell has ended, or the login has failed, the server ends, even
\* if the signal comes while it waits in a call.
ServerStopsWithShell == Gone("kid") ~> Gone("server")

\* And so does the client, unless its waiting rudp_send took the FIN, the FIN
\* was lost, or the server died before it sent one, or could not write to the
\* pseudo terminal.
ShellExitEndsClient ==
    Gone("kid") ~>
        \/ Gone("client")
        \/ Mishaps({"client"}, {"FIN", "lost"})
        \/ crashed # {} \/ Mishaps({"server"}, {"write"})

\* When the client has left the server ends, unless its waiting rudp_send
\* took the FIN, a datagram was lost, or the client sent no FIN: because an
\* error broke its loop, or because it gave up the key exchange too early.
LeavingEndsSession ==
    Gone("client") ~> \/ Gone("server") \/ Lost
                      \/ Mishaps({"server"}, {"FIN"})
                      \/ Mishaps({"client"}, {"broke", "late"})

\* A shutdown comes to its end, even when all three start theirs at once and
\* each waits for an acknowledgement from one that waits itself.
ShutdownEnds ==
    \A q \in Processes :
        At(q) \in {"close0", "close1", "close2", "drain"} ~> Gone(q)

-----------------------------------------------------------------------------
(* Why only the server crashes, and only with a cause: what a step relies  *)
(* on.                                                                     *)

\* Where each program can be.
Program ==
    [client |-> {"start", "sendKey", "recvKey", "sendName", "loop", "recv",
                 "send", "close1", "close2", "drain", "exit", "gone"},
     server |-> {"recvKey", "sendKey", "recvName", "loop", "poll", "recv",
                 "send", "close1", "close2", "drain", "kill", "exit", "gone"},
     kid |-> {"none", "login", "shell", "close0", "close1", "drain", "exit",
              "gone"}]

\* Only from its loop does a process serve descriptors; the socket comes
\* before the terminal, and after the pseudo terminal.
InProgram ==
    /\ \A q \in Processes : At(q) \in Program[q]
    /\ todo["kid"] = {}
    /\ "socket" \in todo["client"] => At("client") = "loop"
    /\ todo["server"] # {} => At("server") \in {"loop", "send"}
    /\ todo["server"] \subseteq {"socket", "pty"}

\* One payload and no more has left the server when it forks the kid, which
\* sends on the copy of its control only to give up.
KidInStep ==
    /\ At("server") = "recvKey" => ctl["server"].seq = Hdr
    /\ At("server") \in {"sendKey", "recvName"} =>
           ctl["server"].seq = Hdr + Size("DATA")
    /\ At("server") \in {"recvKey", "sendKey", "recvName"} => At("kid") = "none"
    /\ At("kid") = "none" => ctl["kid"].seq = Hdr
    /\ At("kid") \in {"login", "shell"} => ctl["kid"].seq = Hdr + Size("DATA")
    /\ At("kid") \in {"close0", "close1", "drain"} => GaveUp

\* What carries number d.seq is counted in the sender's own control c.
CountedIn(c, d) ==
    d.seq + (IF d.flag = "ACK" THEN 0 ELSE Size(d.flag)) <= c.seq

\* So is what a process repeats while it waits for an answer.
SendsCounted ==
    \A q \in Processes :
        InSend(q) => /\ CountedIn(ctl[q], call[q].pkt)
                     /\ call[q].pkt.flag # "ACK"

\* The client never acknowledges more than the server has sent, but for one
\* header: that of an acknowledgement that it takes for the other's number,
\* and after that it receives no more.
AcksBehind ==
    GaveUp \/
    /\ \A i \in 1..Len(net["client"]) : CountedIn(ctl["server"], net["client"][i])
    /\ ctl["client"].ack <= ctl["server"].seq +
          IF At("client") \in {"close2", "exit", "gone"} THEN Hdr ELSE 0
    /\ \A i \in 1..Len(net["server"]) :
          net["server"][i].flag = "ACK" =>
              net["server"][i].ack <= ctl["server"].seq + Hdr

\* Somebody else took what the server's poll had seen.
Taken == GaveUp \/ Mishaps({"server"}, {"DATA", "ACK", "FIN"})

\* What poll has seen is there when it is served; for the server, which may
\* serve its terminal in between, only if it is not taken.
SeenStays ==
    /\ "socket" \in todo["client"] \/ At("client") = "recv" =>
           net["client"] # <<>>
    /\ "socket" \in todo["server"] \/ At("server") = "recv" =>
           Taken \/ net["server"] # <<>>
    /\ "socket" \in todo["server"] /\ At("server") = "send" =>
           Taken \/ ~Answers("server", Arrived("server"))

\* The invariant behind CrashHasCause.
CrashInv ==
    InProgram /\ KidInStep /\ SendsCounted /\ AcksBehind /\ SeenStays /\ CrashHasCause
=============================================================================
